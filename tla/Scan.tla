-------------------------------- MODULE Scan --------------------------------
(***************************************************************************)
(* What a run of core/orchestrator.py asks of the network and what it      *)
(* keeps of the answers: the scope check, the HTTP and TLS analyzers       *)
(* (modules/), Nmap in one pass or in two with chunks of ports             *)
(* (integrations/nmap/adapter.py), the findings with the risk list         *)
(* computed from them, and the services of core/inventory.py.              *)
(*                                                                         *)
(* Orchestrator has the stages with their transactions and overlapping     *)
(* runs, and takes what a tool reports as given; here one run at a time    *)
(* goes through the scanning stages and the risk list, may fail or crash   *)
(* anywhere, and is resumed.  Servers change between calls.  Findings of   *)
(* one assessment have one URL and one host, so a fingerprint is told by   *)
(* its key.  Without -sU, every port that Nmap reports is TCP.             *)
(***************************************************************************)
EXTENDS ScopeRules, FiniteSets

CONSTANTS
  NoHost,      \* a target's missing URL or IP
  Targets,     \* targets considered
  Scopes,      \* scopes considered
  Added,       \* scope entries that may be added later
  Loopback,    \* hosts that may be served over plain HTTP
  Header,      \* SECURITY_HEADERS
  Responses,   \* what a web server may answer
  Servers,     \* how a TLS server may be set up
  Sighting,    \* name and version that Nmap may report of an open port
  ChunkSize,   \* 100 in the code
  MaxFaults,   \* bound: crashes and failing tools
  MaxScopeAdds \* bound: scope entries added

Unknown == ""
Closed == [name |-> Unknown, version |-> Unknown, open |-> FALSE]

WebKey == Header \union {"cookie-secure", "https"}
TlsKey == {"tls-version", "weak-cipher", "certificate-expired"}
Key == WebKey \union TlsKey

Stage ==
  {"scope_validation", "web_security", "tls_security", "nmap_discovery",
   "risk_and_checkpoint"}

ASSUME ScanAssumption ==
  /\ NoHost \notin Host /\ Loopback \subseteq Host
  /\ Targets \subseteq [host : Host \union {NoHost}, port : Port, https : BOOLEAN,
                        ip : Host \union {NoHost}]
  /\ \A s \in Scopes : s \subseteq Entry
  /\ Added \subseteq Entry
  /\ Responses \subseteq [headers : SUBSET Header, cookies : SUBSET [attributes : SUBSET STRING]]
  /\ Servers \subseteq [version : STRING, weak : BOOLEAN, expired : BOOLEAN, trusted : BOOLEAN]
  /\ \A o \in Sighting : o = [name |-> o.name, version |-> o.version, open |-> TRUE]
  /\ ChunkSize \in Nat \ {0}
  /\ MaxFaults \in Nat /\ MaxScopeAdds \in Nat

VARIABLES
  \* the database
  target, scope,
  status, saved, \* status, modules of the latest checkpoint
  findings,      \* keys of the findings stored
  services,      \* what is stored of a port of the HOST asset
  risks,         \* the risk list at completion
  \* a run and its session
  pc, stage, done,
  view,      \* scope rows, loaded once
  cache,     \* a.findings: {} or the one set it held when first read
  batch,     \* what an analyzer reported
  \* the Nmap adapter
  open,      \* ports to look at: the list given, or those found open
  chunk,     \* chunks looked at
  merged,    \* what was reported of a port
  \* what the checks need to remember, and the counters behind the bounds
  checked,   \* the scope when the target was last validated
  last,      \* what an analyzer last reported
  probed,    \* version scans of a port in this pass
  seen,      \* sightings of a port by the scans that were stored
  faults, scopeAdds

dbVars   == <<target, scope, status, saved, findings, services, risks>>
runVars  == <<stage, done, view, cache, batch>>
nmapVars == <<open, chunk, merged, probed>>
noteVars == <<checked, last, seen>>
envVars  == <<faults, scopeAdds>>
vars == <<dbVars, pc, runVars, nmapVars, noteVars, envVars>>

HasURL == target.host # NoHost
HasIP == target.ip # NoHost

Order ==
  [scope_validation |-> 1, web_security |-> 2, tls_security |-> 3,
   nmap_discovery |-> 4, risk_and_checkpoint |-> 5]

Planned == IF HasURL THEN Stage ELSE Stage \ {"web_security"}

Due(s) ==
  /\ s \in Planned \ done
  /\ \A t \in Planned : Order[t] < Order[s] => t \in done

Runs(s) ==
  CASE s = "tls_security"   -> HasURL /\ target.https
    [] s = "nmap_discovery" -> HasIP
    [] OTHER                -> TRUE

\* Nmap may not be installed.
Skips(s) ==
  CASE s = "tls_security"   -> ~Runs(s)
    [] s = "nmap_discovery" -> TRUE
    [] OTHER                -> FALSE

-----------------------------------------------------------------------------
(* A run begins, enters a stage, and saves a checkpoint at its end.        *)

Begin ==
  /\ pc = "idle" /\ status # "COMPLETED"
  /\ status' = "RUNNING"
  /\ done' = saved
  /\ view' = scope
  /\ pc' = IF TargetPasses(scope) THEN "ready" ELSE "failing"
  /\ UNCHANGED <<target, scope, saved, findings, services, risks, stage, cache, batch,
                 nmapVars, checked, last, seen, envVars>>

Enter(s) ==
  /\ pc = "ready" /\ Due(s) /\ Runs(s)
  /\ stage' = s /\ pc' = s
  /\ UNCHANGED <<dbVars, done, view, cache, batch, nmapVars, noteVars, envVars>>

Skip(s) ==
  /\ pc = "ready" /\ Due(s) /\ Skips(s)
  /\ stage' = s /\ done' = done \union {s} /\ pc' = "save"
  /\ UNCHANGED <<dbVars, view, cache, batch, nmapVars, noteVars, envVars>>

\* The URL's host and port, or the IP where there is no URL.
Validate ==
  /\ pc = "scope_validation"
  /\ IF \/ HasURL /\ RequestPasses(view, target.host, target.port)
        \/ ~HasURL /\ HasIP /\ RequestPasses(view, target.ip, NoPort)
     THEN /\ done' = done \union {stage} /\ pc' = "save"
          /\ checked' = view
     ELSE pc' = "failing" /\ UNCHANGED <<done, checked>>
  /\ UNCHANGED <<dbVars, stage, view, cache, batch, nmapVars, last, seen, envVars>>

\* a.findings is queried when it is first read, and then kept.
Read == IF cache = {} THEN {findings} ELSE cache
FindingList == UNION Read

\* The checkpoints of the web and TLS stages count the findings.
Save ==
  /\ pc = "save"
  /\ saved' = done
  /\ cache' = IF stage \in {"web_security", "tls_security"} /\ Runs(stage) THEN Read ELSE cache
  /\ pc' = "ready"
  /\ UNCHANGED <<target, scope, status, findings, services, risks, stage, done, view, batch,
                 nmapVars, noteVars, envVars>>

-----------------------------------------------------------------------------
(* The analyzers and the findings they leave.                              *)

Insecure(r) == {c \in r.cookies : "secure" \notin c.attributes}

WebIssues(r) ==
  (Header \ r.headers)
  \union {k \in {"cookie-secure"} : Insecure(r) # {}}
  \union {k \in {"https"} : ~target.https /\ target.host \notin Loopback}

TlsIssues(v) ==
  {k \in {"tls-version"} : v.version \in {"TLSv1", "TLSv1.1", "SSLv3"}}
  \union {k \in {"weak-cipher"} : v.weak}
  \union {k \in {"certificate-expired"} : v.expired}

HandshakeSlip(v) == TRUE

\* ssl.create_default_context() and httpx verify the certificate, ask for TLS
\* 1.2 and offer no weak cipher: a handshake with anything else raises.
Handshake(v) ==
  v.trusted /\ ~v.expired /\ ~v.weak /\ v.version \in {"TLSv1.2", "TLSv1.3"}

\* An analyzer connects and reports, or raises.
Analyze(v, issues) ==
  /\ IF target.https => Handshake(v)
     THEN /\ batch' = issues /\ last' = [last EXCEPT ![stage] = issues]
          /\ pc' = "store"
     ELSE pc' = "failing" /\ UNCHANGED <<batch, last>>
  /\ UNCHANGED <<dbVars, stage, done, view, cache, nmapVars, checked, seen, envVars>>

AnalyzeWeb ==
  pc = "web_security" /\ \E r \in Responses, v \in Servers : Analyze(v, WebIssues(r))

AnalyzeTls ==
  pc = "tls_security" /\ \E v \in Servers : Analyze(v, TlsIssues(v))

AddFindingsSlip == IF batch \intersect findings # {} THEN findings ELSE findings \union batch

\* _add_findings: those whose fingerprint correlates with a stored one are skipped.
AddFindings == findings \union batch

StoreFindings ==
  /\ pc = "store"
  /\ findings' = AddFindings
  /\ batch' = {}
  /\ done' = done \union {stage}
  /\ pc' = "save"
  /\ UNCHANGED <<target, scope, status, saved, services, risks, stage, view, cache,
                 nmapVars, noteVars, envVars>>

-----------------------------------------------------------------------------
(* Nmap: the ports of the scope in one pass, or those that a pass over all *)
(* ports finds open, in chunks.  A port can close in between.              *)

Nothing == [p \in Port |-> Closed]

NoScan ==
  open' = {} /\ chunk' = 0 /\ merged' = Nothing /\ probed' = [p \in Port |-> 0]

Discover ==
  /\ pc = "nmap_discovery"
  /\ IF FullRange(view, target.ip)
     THEN \E found \in SUBSET Port : open' = found
     ELSE open' = PortList(view, target.ip)
  /\ chunk' = 0 /\ merged' = Nothing /\ probed' = [p \in Port |-> 0]
  /\ pc' = "probe"
  /\ UNCHANGED <<dbVars, runVars, noteVars, envVars>>

\* Place of a port in the sorted list.
Place(p) == Cardinality({q \in open : q < p})

Size == IF FullRange(view, target.ip) THEN ChunkSize ELSE LastPort

\* _chunked
ChunkOf(n) == {p \in open : Place(p) \in (n * Size)..(n * Size + Size - 1)}

MoreChunksSlip == (chunk + 1) * Size <= Cardinality(open)

MoreChunks == chunk * Size < Cardinality(open)

Probe ==
  /\ pc = "probe" /\ MoreChunks
  /\ \E answer \in [ChunkOf(chunk) -> Sighting \union {Closed}] :
       merged' = [p \in Port |-> IF p \in ChunkOf(chunk) /\ answer[p].open
                                 THEN answer[p] ELSE merged[p]]
  /\ probed' = [p \in Port |-> IF p \in ChunkOf(chunk) THEN probed[p] + 1 ELSE probed[p]]
  /\ chunk' = chunk + 1
  /\ UNCHANGED <<dbVars, pc, runVars, open, noteVars, envVars>>

Scanned ==
  /\ pc = "probe" /\ ~MoreChunks
  /\ pc' = "inventory"
  /\ UNCHANGED <<dbVars, runVars, nmapVars, noteVars, envVars>>

UpdateSlip(old, new) ==
  IF new.name # Unknown /\ new.name # old.name THEN [old EXCEPT !.name = new.name]
  ELSE [old EXCEPT !.version = IF new.version # Unknown THEN new.version ELSE @]

UpdateSwapSlip(old, new) ==
  [old EXCEPT !.name = IF new.version # Unknown THEN new.version ELSE @,
              !.version = IF new.name # Unknown THEN new.name ELSE @]

\* A name or a version that a later scan does not tell is kept.
Update(old, new) ==
  [name    |-> IF new.name # Unknown THEN new.name ELSE old.name,
   version |-> IF new.version # Unknown THEN new.version ELSE old.version,
   open    |-> TRUE]

\* get_or_create_service
Upsert(old, new) ==
  CASE ~new.open             -> old
    [] new.open /\ ~old.open -> new
    [] OTHER                 -> Update(old, new)

StoreServices ==
  /\ pc = "inventory"
  /\ services' = [p \in Port |-> Upsert(services[p], merged[p])]
  /\ seen' = [p \in Port |-> seen[p] \union ({merged[p]} \ {Closed})]
  /\ NoScan
  /\ done' = done \union {stage}
  /\ pc' = "save"
  /\ UNCHANGED <<target, scope, status, saved, findings, risks, stage, view, cache, batch,
                 checked, last, envVars>>

-----------------------------------------------------------------------------
(* The risk list, which a run computes even if it is resumed after that    *)
(* stage, and completion.                                                  *)

Risk ==
  /\ pc = "risk_and_checkpoint"
  /\ cache' = Read
  /\ done' = done \union {stage}
  /\ pc' = "save"
  /\ UNCHANGED <<dbVars, stage, view, batch, nmapVars, noteVars, envVars>>

\* A run that is over keeps nothing.
Forget ==
  /\ pc' = "idle" /\ stage' = "none" /\ done' = {} /\ view' = {} /\ cache' = {}
  /\ batch' = {} /\ NoScan

Complete ==
  /\ pc = "ready" /\ Planned \subseteq done
  /\ status' = "COMPLETED"
  /\ risks' = FindingList
  /\ Forget
  /\ UNCHANGED <<target, scope, saved, findings, services, noteVars, envVars>>

-----------------------------------------------------------------------------
(* Failures, crashes, and scope entries that users add.                    *)

Fail ==
  /\ pc = "failing"
  /\ status' = "FAILED" /\ saved' = done
  /\ Forget
  /\ UNCHANGED <<target, scope, findings, services, risks, noteVars, envVars>>

ToolFails ==
  /\ faults < MaxFaults
  /\ pc \in {"web_security", "tls_security", "nmap_discovery"} \/ (pc = "probe" /\ MoreChunks)
  /\ faults' = faults + 1
  /\ pc' = "failing" /\ NoScan
  /\ UNCHANGED <<dbVars, runVars, noteVars, scopeAdds>>

Crash ==
  /\ faults < MaxFaults /\ pc # "idle"
  /\ faults' = faults + 1
  /\ Forget
  /\ UNCHANGED <<dbVars, noteVars, scopeAdds>>

AddScope ==
  /\ scopeAdds < MaxScopeAdds
  /\ scopeAdds' = scopeAdds + 1
  /\ \E e \in Added : scope' = scope \union {e}
  /\ UNCHANGED <<target, status, saved, findings, services, risks, pc, runVars, nmapVars,
                 noteVars, faults>>

Init ==
  /\ target \in Targets /\ scope \in Scopes
  /\ status = "QUEUED" /\ saved = {} /\ findings = {} /\ services = Nothing /\ risks = {}
  /\ pc = "idle" /\ stage = "none" /\ done = {} /\ view = {} /\ cache = {} /\ batch = {}
  /\ open = {} /\ chunk = 0 /\ merged = Nothing /\ probed = [p \in Port |-> 0]
  /\ checked = {} /\ seen = [p \in Port |-> {}]
  /\ last = [s \in {"web_security", "tls_security"} |-> {}]
  /\ faults = 0 /\ scopeAdds = 0

Next ==
  \/ Begin \/ Validate \/ Save
  \/ \E s \in Stage : Enter(s) \/ Skip(s)
  \/ AnalyzeWeb \/ AnalyzeTls \/ StoreFindings
  \/ Discover \/ Probe \/ Scanned \/ StoreServices
  \/ Risk \/ Complete \/ Fail \/ ToolFails \/ Crash
  \/ AddScope

Spec == Init /\ [][Next]_vars

-----------------------------------------------------------------------------
(* Properties.                                                             *)

Names == {o.name : o \in Sighting}
Versions == {o.version : o \in Sighting}

Service == {Closed} \union [name : Names, version : Versions, open : {TRUE}]

\* Every variable keeps to its domain, and a session has read a.findings at
\* most once.
TypeOK ==
  /\ target \in Targets /\ scope \subseteq Entry
  /\ status \in {"QUEUED", "RUNNING", "COMPLETED", "FAILED"} /\ saved \subseteq Stage
  /\ findings \subseteq Key /\ risks \subseteq Key /\ batch \subseteq Key
  /\ services \in [Port -> Service] /\ merged \in [Port -> Sighting \union {Closed}]
  /\ pc \in Stage \union {"idle", "ready", "save", "store", "probe", "inventory", "failing"}
  /\ stage \in Stage \union {"none"} /\ done \subseteq Stage
  /\ view \subseteq Entry /\ checked \subseteq Entry
  /\ cache \subseteq SUBSET Key /\ Cardinality(cache) <= 1
  /\ open \subseteq Port /\ chunk \in 0..LastPort
  /\ probed \in [Port -> Nat] /\ seen \in [Port -> SUBSET Sighting]
  /\ last \in [{"web_security", "tls_security"} -> SUBSET Key]
  /\ faults \in 0..MaxFaults /\ scopeAdds \in 0..MaxScopeAdds

\* Hosts and ports that the run is about to contact.
Contacts ==
  CASE pc \in {"web_security", "tls_security"} -> {<<target.host, target.port>>}
    [] pc \in {"nmap_discovery", "probe"} -> {target.ip} \X NmapPorts(view, target.ip)
    [] OTHER -> {}

OneHost ==
  /\ \A e, f \in Allowed(view) : Lower[e.host] = Lower[f.host]
  /\ HasURL /\ HasIP => Lower[target.host] = Lower[target.ip]

\* With one host in the scope and in the target, all that the run contacts is
\* granted by an entry for that host and was not excluded when the target was
\* validated, however the host is spelled and however often the assessment was
\* resumed (scope.py:16, orchestrator.py:162).  Pooling the ports of all
\* entries (validation.py:40) is harmless then.
OneHostKept ==
  OneHost => \A c \in Contacts : Granted(view, c[1], c[2]) /\ ~Barred(checked, c[1])

\* While each allowed entry names a port, Nmap looks at listed ports only: the
\* list is never empty, which the adapter would take for all ports
\* (orchestrator.py:263, adapter.py:76).
ListedPortsOnly ==
  pc \in {"nmap_discovery", "probe"} /\ ~Unrestricted(view) =>
    NmapPorts(view, target.ip) \subseteq AllowedPorts(view)

\* A finished Nmap scan has looked exactly once at each port of its list, chunk
\* boundaries or not (adapter.py:60, 84).
EachPortOnce ==
  pc = "inventory" => probed = [p \in Port |-> IF p \in open THEN 1 ELSE 0]

\* A web or TLS stage counts as completed only with all stored that its last
\* scan reported, also when an earlier scan of it had stored some before a
\* crash (orchestrator.py:67, 200).
ReportedIsStored ==
  \A s \in saved \intersect DOMAIN last : last[s] \subseteq findings

\* The risk list of a COMPLETED assessment has every finding, although the
\* session reads a.findings before the TLS stage stores its own
\* (orchestrator.py:208, 359): no handshake with a server that has a TLS issue
\* succeeds, so that stage never stores any.
RisksComplete == status = "COMPLETED" => risks = findings

\* The name and the version of a service were reported together by some scan,
\* unless a scan told one without the other (inventory.py:66).
PairReported ==
  \A p \in Port :
    services[p].open =>
      \/ services[p] \in seen[p]
      \/ \E o \in seen[p] : Unknown \in {o.name, o.version}
=============================================================================
