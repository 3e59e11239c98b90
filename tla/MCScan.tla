------------------------------- MODULE MCScan -------------------------------
(* Instances of Scan for TLC.                                              *)
EXTENDS Scan, TLC

CONSTANTS site, Site, ip   \* Site is site in upper case

MCLower == (site :> site) @@ (Site :> site) @@ (ip :> ip)

\* A web target with and without TLS and an IP, an IP, an IP with a URL.
MCTargets ==
  {[host |-> site,   port |-> 1, https |-> TRUE,  ip |-> ip],
   [host |-> site,   port |-> 2, https |-> FALSE, ip |-> NoHost],
   [host |-> NoHost, port |-> 1, https |-> FALSE, ip |-> ip],
   [host |-> ip,     port |-> 2, https |-> FALSE, ip |-> ip]}

Allow(h, p) == [host |-> h, port |-> p, excluded |-> FALSE]
Exclude(h) == [host |-> h, port |-> NoPort, excluded |-> TRUE]

\* Scopes that take each branch of the rules.
MCScopes ==
  {{Exclude(ip)},
   {Allow(site, NoPort)}, {Allow(Site, 1)}, {Allow(site, 2), Exclude(Site)},
   {Allow(ip, NoPort)}, {Allow(ip, 1), Allow(ip, 2)}, {Allow(ip, 2), Exclude(site)},
   {Allow(site, 1), Allow(ip, 2)}, {Allow(ip, 2), Exclude(ip)}}

MCAdded ==
  {Allow(ip, 3), Exclude(Site)}

\* A cookie's attributes are what follows the first semicolon.
MCResponses ==
  {[headers |-> Header, cookies |-> {[attributes |-> {"secure", "path"}]}],
   [headers |-> {}, cookies |-> {}],
   [headers |-> {}, cookies |-> {[attributes |-> {"path"}], [attributes |-> {"secure"}]}]}

MCServers ==
  {[version |-> "TLSv1.3", weak |-> FALSE, expired |-> FALSE, trusted |-> TRUE],
   [version |-> "TLSv1",   weak |-> FALSE, expired |-> FALSE, trusted |-> TRUE],
   [version |-> "TLSv1.2", weak |-> FALSE, expired |-> TRUE,  trusted |-> TRUE]}

MCSighting ==
  {[name |-> "http", version |-> "1", open |-> TRUE],
   [name |-> "ssh",  version |-> "2", open |-> TRUE],
   [name |-> "ssh",  version |-> Unknown, open |-> TRUE]}
=============================================================================
