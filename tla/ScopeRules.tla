----------------------------- MODULE ScopeRules -----------------------------
(***************************************************************************)
(* The scope of a target and what is decided from it: core/scope.py and    *)
(* security/validation.py for a host and a port, core/orchestrator.py and  *)
(* integrations/nmap/adapter.py for the ports that Nmap is given.          *)
(***************************************************************************)
EXTENDS Naturals

CONSTANTS
  Host,      \* spellings of hosts
  Lower,     \* the lower-case spelling of each
  Rejected,  \* wildcards and malformed hosts: validate_host raises
  LastPort   \* 65535 in the code

Port == 1..LastPort
NoPort == 0     \* the port of an entry that leaves it empty

ASSUME HostAssumption ==
  /\ Lower \in [Host -> Host] /\ \A h \in Host : Lower[Lower[h]] = Lower[h]
  /\ Rejected \subseteq Host
ASSUME PortAssumption == LastPort \in Nat

Entry == [host : Host, port : Port \union {NoPort}, excluded : BOOLEAN]

Allowed(scope)  == {e \in scope : ~e.excluded}
Excluded(scope) == {e \in scope : e.excluded}
Named(entries)  == {Lower[e.host] : e \in entries}

\* validate_target_for_scan, of a target that is authorized.
TargetPasses(scope) == Allowed(scope) # {}

\* Ports are collected over all allowed entries, whatever host they are for.
AllowedPorts(scope) == {e.port : e \in Allowed(scope)} \ {NoPort}

AllPorts(scope, h) ==
  \E e \in Allowed(scope) : Lower[e.host] = Lower[h] /\ e.port = NoPort

\* Variants named ...Slip are coding slips that TLC is shown to notice.
BlockedSlip(scope, h) == \E e \in Excluded(scope) : e.host = h

Blocked(scope, h) == Lower[h] \in Named(Excluded(scope))

\* validate_request; NoPort stands for a request without a port.
RequestPasses(scope, h, p) ==
  /\ TargetPasses(scope)
  /\ h \notin Rejected
  /\ ~Blocked(scope, h)
  /\ Lower[h] \in Named(Allowed(scope))
  /\ p = NoPort \/ AllPorts(scope, h) \/ p \in AllowedPorts(scope)

Unrestricted(scope) == \E e \in Allowed(scope) : e.port = NoPort

PortListSlip(scope, h) == {e.port : e \in {f \in Allowed(scope) : f.host = h}} \ {NoPort}

PortList(scope, h) == AllowedPorts(scope)

\* The adapter takes an empty list for none given, and scans all ports.
FullRange(scope, h) == Unrestricted(scope) \/ PortList(scope, h) = {}

NmapPorts(scope, h) == IF FullRange(scope, h) THEN Port ELSE PortList(scope, h)

-----------------------------------------------------------------------------
(* What a reader of the documents takes a scope for: an entry opens its    *)
(* own port, or all ports, of its own host, and an exclusion closes a host.*)

Granted(entries, h, p) ==
  \E e \in Allowed(entries) : Lower[e.host] = Lower[h] /\ e.port \in {NoPort, p}

Barred(entries, h) == \E e \in Excluded(entries) : Lower[e.host] = Lower[h]
=============================================================================
