----------------------------- MODULE ScanProofs -----------------------------
(***************************************************************************)
(* Safety of a scan, for any targets, scopes, servers and scanned ports,   *)
(* and any number of faults and of scope entries added.                    *)
(*                                                                         *)
(* What carries the proofs: InOrder (where a run stands tells which stages *)
(* are done), Current (a run sees all of the scope that its target was     *)
(* validated with), Stored and Listed (findings stored and findings read   *)
(* agree with what was reported), Counted (how far the chunks got tells    *)
(* which ports were looked at).                                            *)
(***************************************************************************)
EXTENDS Scan, FiniteSetTheorems, TLAPS

Analyzing == {"web_security", "tls_security"}
Busy == Stage \union {"store", "probe", "inventory"}

\* Where a run stands tells its stage, and that those before it are done.
InOrder ==
  /\ pc \in Stage => stage = pc
  /\ pc = "store" => stage \in Analyzing
  /\ pc \in {"probe", "inventory"} => stage = "nmap_discovery"
  /\ pc \in Busy => stage \in Planned \ done /\ Runs(stage)
  /\ pc = "save" => stage \in done
  /\ pc \in Busy \union {"save"} =>
       stage \in Stage /\ \A t \in Planned : Order[t] < Order[stage] => t \in done

\* A run is on what was saved and on the scope the target was validated with.
Current ==
  /\ pc # "idle" => status = "RUNNING" /\ saved \subseteq done /\ checked \subseteq view
  /\ view \subseteq scope /\ checked \subseteq scope
  /\ pc \notin {"idle", "failing"} => TargetPasses(view)

Passed(s) ==
  \/ HasURL /\ RequestPasses(s, target.host, target.port)
  \/ ~HasURL /\ HasIP /\ RequestPasses(s, target.ip, NoPort)

Validated == "scope_validation" \in done \union saved => Passed(checked)

\* What was last reported is stored, or about to be; TLS reports nothing.
Stored ==
  /\ \A s \in Analyzing : s \in done \union saved => last[s] \subseteq findings
  /\ pc = "store" => batch = last[stage]
  /\ last["tls_security"] = {}

\* a.findings was not read before the web stage had stored its findings.
Listed ==
  /\ cache \in {{}, {findings}}
  /\ pc = "idle" => cache = {}
  /\ cache # {} /\ HasURL => "web_security" \in done

\* Each port of the chunks looked at was looked at once, and no other.
Counted ==
  /\ pc \in {"probe", "inventory"} =>
       \A p \in Port : probed[p] = IF p \in open /\ Place(p) < chunk * Size THEN 1 ELSE 0
  /\ pc = "inventory" => ~MoreChunks

(* The steps of Next, seen through what they do.                           *)
AnyStep ==
  \/ Begin \/ Validate \/ Save
  \/ \E s \in Stage : Enter(s)
  \/ \E s \in Stage : Skip(s)
  \/ AnalyzeWeb \/ AnalyzeTls \/ StoreFindings
  \/ Discover \/ Probe \/ Scanned \/ StoreServices
  \/ Risk \/ Complete \/ Fail \/ ToolFails \/ Crash
  \/ AddScope \/ UNCHANGED vars

(* Every step is one of them.                                              *)
LEMMA Steps == [Next]_vars => AnyStep
  BY DEF Next, AnyStep

USE DEF dbVars, runVars, nmapVars, noteVars, envVars

(* No step changes the target.                                             *)
LEMMA TargetKept == [Next]_vars => target' = target
  BY Steps DEF AnyStep, Begin, Validate, Save, Enter, Skip, AnalyzeWeb, AnalyzeTls, Analyze,
     StoreFindings, Discover, Probe, Scanned, StoreServices, Risk, Complete, Fail, ToolFails,
     Crash, AddScope, vars

(* Nor what is planned and what runs for it.                               *)
LEMMA PlanKept ==
  ASSUME target' = target
  PROVE  /\ HasURL' = HasURL /\ HasIP' = HasIP /\ Planned' = Planned
         /\ \A s : Runs(s)' = Runs(s)
         /\ \A s : Passed(s)' = Passed(s)
  BY DEF HasURL, HasIP, Planned, Runs, Passed

(* What the stages that depend on the target ask of it.                    *)
LEMMA RunsWhat ==
  /\ Runs("tls_security") <=> HasURL /\ target.https
  /\ Runs("nmap_discovery") <=> HasIP
  BY Zenon DEF Runs

(* Only TLS and Nmap can be skipped.                                       *)
LEMMA SkipsWhat ==
  ASSUME NEW s \in Stage, Skips(s)
  PROVE  s \in {"tls_security", "nmap_discovery"}
  BY Zenon DEF Skips, Stage

-----------------------------------------------------------------------------
(* Where a run stands.                                                     *)

(* Initially no run is on.                                                 *)
LEMMA OrderInit == Init => InOrder
  BY DEF Init, InOrder, Stage, Busy

(* Every step keeps a run in order.                                        *)
LEMMA OrderStep ==
  ASSUME InOrder, [Next]_vars
  PROVE  InOrder'
<1>1. /\ Planned' = Planned /\ HasURL' = HasURL
      /\ \A s : Runs(s)' = Runs(s)
  BY TargetKept, PlanKept
<1> USE <1>1 DEF Stage, Busy, Analyzing
<1>2. CASE Begin
  BY <1>2 DEF Begin, InOrder
<1>3. CASE Validate
  BY <1>3 DEF Validate, InOrder
<1>4. CASE Save
  BY <1>4 DEF Save, InOrder
<1>5. ASSUME NEW s \in Stage, Enter(s) PROVE InOrder'
  <2>1. stage' = s /\ pc' = s /\ done' = done /\ Due(s) /\ Runs(s)
    BY <1>5 DEF Enter
  <2> QED BY <2>1 DEF Due, InOrder
<1>6. ASSUME NEW s \in Stage, Skip(s) PROVE InOrder'
  <2>1. stage' = s /\ pc' = "save" /\ done' = done \union {s} /\ Due(s)
    BY <1>6 DEF Skip
  <2> QED BY <2>1 DEF Due, InOrder
<1>7. CASE AnalyzeWeb
  BY <1>7 DEF AnalyzeWeb, Analyze, InOrder
<1>8. CASE AnalyzeTls
  BY <1>8 DEF AnalyzeTls, Analyze, InOrder
<1>9. CASE StoreFindings
  BY <1>9 DEF StoreFindings, InOrder
<1>10. CASE Discover
  BY <1>10 DEF Discover, InOrder
<1>11. CASE Probe
  BY <1>11 DEF Probe, InOrder
<1>12. CASE Scanned
  BY <1>12 DEF Scanned, InOrder
<1>13. CASE StoreServices
  BY <1>13 DEF StoreServices, InOrder
<1>14. CASE Risk
  BY <1>14 DEF Risk, InOrder
<1>15. CASE Complete
  BY <1>15 DEF Complete, Forget, InOrder
<1>16. CASE Fail
  BY <1>16 DEF Fail, Forget, InOrder
<1>17. CASE ToolFails
  BY <1>17 DEF ToolFails, InOrder
<1>18. CASE Crash
  BY <1>18 DEF Crash, Forget, InOrder
<1>19. CASE AddScope
  BY <1>19 DEF AddScope, InOrder
<1>20. CASE UNCHANGED vars
  BY <1>20 DEF vars, InOrder
<1> QED
  BY <1>2, <1>3, <1>4, <1>5, <1>6, <1>7, <1>8, <1>9, <1>10, <1>11, <1>12, <1>13, <1>14,
     <1>15, <1>16, <1>17, <1>18, <1>19, <1>20, Steps
  DEF AnyStep

-----------------------------------------------------------------------------
(* What a run takes from the database.                                     *)

(* Initially there is no run and nothing was validated.                    *)
LEMMA CurrentInit == Init => Current
  BY DEF Init, Current

(* Every step keeps a run on what was saved, and on a scope that can only  *)
(* have grown since.                                                       *)
LEMMA CurrentStep ==
  ASSUME Current, InOrder, [Next]_vars
  PROVE  Current'
<1>1. CASE Begin
  BY <1>1 DEF Begin, Current
<1>2. CASE Validate
  BY <1>2 DEF Validate, Current
<1>3. CASE Save
  BY <1>3 DEF Save, Current
<1>4. ASSUME NEW s \in Stage, Enter(s) PROVE Current'
  BY <1>4 DEF Enter, Current
<1>5. ASSUME NEW s \in Stage, Skip(s) PROVE Current'
  BY <1>5 DEF Skip, Current
<1>6. CASE AnalyzeWeb
  BY <1>6 DEF AnalyzeWeb, Analyze, Current
<1>7. CASE AnalyzeTls
  BY <1>7 DEF AnalyzeTls, Analyze, Current
<1>8. CASE StoreFindings
  BY <1>8 DEF StoreFindings, Current
<1>9. CASE Discover
  BY <1>9 DEF Discover, Current
<1>10. CASE Probe
  BY <1>10 DEF Probe, Current
<1>11. CASE Scanned
  BY <1>11 DEF Scanned, Current
<1>12. CASE StoreServices
  BY <1>12 DEF StoreServices, Current
<1>13. CASE Risk
  BY <1>13 DEF Risk, Current
<1>14. CASE Complete
  BY <1>14 DEF Complete, Forget, Current
<1>15. CASE Fail
  BY <1>15 DEF Fail, Forget, Current
<1>16. CASE ToolFails
  BY <1>16, Zenon DEF ToolFails, Current, Stage
<1>17. CASE Crash
  BY <1>17 DEF Crash, Forget, Current
<1>18. CASE AddScope
  BY <1>18 DEF AddScope, Current
<1>19. CASE UNCHANGED vars
  BY <1>19 DEF vars, Current
<1> QED
  BY <1>1, <1>2, <1>3, <1>4, <1>5, <1>6, <1>7, <1>8, <1>9, <1>10, <1>11, <1>12, <1>13,
     <1>14, <1>15, <1>16, <1>17, <1>18, <1>19, Steps
  DEF AnyStep

-----------------------------------------------------------------------------
(* Types.  Ports are finitely many, and a run looks at no more chunks than *)
(* there are ports.                                                        *)

ControlTypes ==
  /\ target \in Targets /\ scope \subseteq Entry
  /\ status \in {"QUEUED", "RUNNING", "COMPLETED", "FAILED"} /\ saved \subseteq Stage
  /\ pc \in Stage \union {"idle", "ready", "save", "store", "probe", "inventory", "failing"}
  /\ stage \in Stage \union {"none"} /\ done \subseteq Stage
  /\ view \subseteq Entry /\ checked \subseteq Entry
  /\ faults \in 0..MaxFaults /\ scopeAdds \in 0..MaxScopeAdds

FindingTypes ==
  /\ findings \subseteq Key /\ risks \subseteq Key /\ batch \subseteq Key
  /\ cache \subseteq SUBSET Key
  /\ last \in [{"web_security", "tls_security"} -> SUBSET Key]

PortTypes ==
  /\ services \in [Port -> Service] /\ merged \in [Port -> Sighting \union {Closed}]
  /\ open \subseteq Port /\ chunk \in 0..LastPort
  /\ probed \in [Port -> Nat] /\ seen \in [Port -> SUBSET Sighting]

(* The last conjunct of TypeOK is what Listed says of the session's cache. *)
LEMMA CacheIsOne == Listed => Cardinality(cache) <= 1
<1> SUFFICES ASSUME Listed PROVE Cardinality(cache) <= 1
  OBVIOUS
<1>1. Cardinality({}) = 0 /\ Cardinality({findings}) = 1
  BY FS_EmptySet, FS_Singleton, Zenon
<1> QED BY <1>1 DEF Listed

(* TypeOK by the variables it is about.                                    *)
LEMMA TypeParts == ControlTypes /\ FindingTypes /\ PortTypes /\ Listed => TypeOK
  BY CacheIsOne DEF TypeOK, ControlTypes, FindingTypes, PortTypes

(* A target and the entries added have the types of their records.         *)
LEMMA GivenTypes ==
  /\ \A t \in Targets : /\ t.host \in Host \union {NoHost} /\ t.ip \in Host \union {NoHost}
                        /\ t.port \in Port /\ t.https \in BOOLEAN
  /\ \A s \in Scopes : s \subseteq Entry
  /\ Added \subseteq Entry
  BY ScanAssumption

(* Control initially has its types.                                        *)
LEMMA ControlInit == Init => ControlTypes
  BY ScanAssumption DEF Init, ControlTypes, Stage

(* And keeps them.                                                         *)
LEMMA ControlStep ==
  ASSUME ControlTypes, InOrder, [Next]_vars
  PROVE  ControlTypes'
<1> USE ScanAssumption
<1>1. CASE Begin
  BY <1>1 DEF Begin, ControlTypes
<1>2. CASE Validate
  BY <1>2 DEF Validate, ControlTypes, InOrder, Stage
<1>3. CASE Save
  BY <1>3 DEF Save, ControlTypes
<1>4. ASSUME NEW s \in Stage, Enter(s) PROVE ControlTypes'
  BY <1>4 DEF Enter, ControlTypes
<1>5. ASSUME NEW s \in Stage, Skip(s) PROVE ControlTypes'
  BY <1>5 DEF Skip, ControlTypes
<1>6. CASE AnalyzeWeb
  BY <1>6 DEF AnalyzeWeb, Analyze, ControlTypes
<1>7. CASE AnalyzeTls
  BY <1>7 DEF AnalyzeTls, Analyze, ControlTypes
<1>8. CASE StoreFindings
  BY <1>8 DEF StoreFindings, ControlTypes, InOrder, Analyzing, Stage
<1>9. CASE Discover
  BY <1>9 DEF Discover, ControlTypes
<1>10. CASE Probe
  BY <1>10 DEF Probe, ControlTypes
<1>11. CASE Scanned
  BY <1>11 DEF Scanned, ControlTypes
<1>12. CASE StoreServices
  BY <1>12 DEF StoreServices, ControlTypes, InOrder, Stage
<1>13. CASE Risk
  BY <1>13 DEF Risk, ControlTypes, InOrder, Stage
<1>14. CASE Complete
  BY <1>14 DEF Complete, Forget, ControlTypes
<1>15. CASE Fail
  BY <1>15 DEF Fail, Forget, ControlTypes
<1>16. CASE ToolFails
  BY <1>16 DEF ToolFails, ControlTypes
<1>17. CASE Crash
  BY <1>17 DEF Crash, Forget, ControlTypes
<1>18. CASE AddScope
  BY <1>18 DEF AddScope, ControlTypes
<1>19. CASE UNCHANGED vars
  BY <1>19 DEF vars, ControlTypes
<1> QED
  BY <1>1, <1>2, <1>3, <1>4, <1>5, <1>6, <1>7, <1>8, <1>9, <1>10, <1>11, <1>12, <1>13,
     <1>14, <1>15, <1>16, <1>17, <1>18, <1>19, Steps
  DEF AnyStep

(* What the analyzers report are keys of findings.                         *)
LEMMA IssueTypes ==
  /\ \A r \in Responses : WebIssues(r) \subseteq Key
  /\ \A v : TlsIssues(v) \subseteq TlsKey
  /\ TlsKey \subseteq Key
  BY DEF WebIssues, TlsIssues, Key, WebKey, TlsKey

(* No handshake with a server that has an issue succeeds.                  *)
LEMMA HandshakeIsClean ==
  ASSUME NEW v, Handshake(v)
  PROVE  TlsIssues(v) = {}
  BY DEF Handshake, TlsIssues

(* Findings initially have their types.                                    *)
LEMMA FindingInit == Init => FindingTypes
  BY DEF Init, FindingTypes

(* What a.findings is read to be are keys.                                 *)
LEMMA ReadTypes ==
  ASSUME FindingTypes
  PROVE  Read \subseteq SUBSET Key /\ FindingList \subseteq Key
  BY DEF FindingTypes, Read, FindingList

(* And findings keep them.                                                 *)
LEMMA FindingStep ==
  ASSUME FindingTypes, InOrder, [Next]_vars
  PROVE  FindingTypes'
<1>1. CASE Begin
  BY <1>1 DEF Begin, FindingTypes
<1>2. CASE Validate
  BY <1>2 DEF Validate, FindingTypes
<1>3. CASE Save
  BY <1>3, ReadTypes DEF Save, FindingTypes
<1>4. ASSUME NEW s \in Stage, Enter(s) PROVE FindingTypes'
  BY <1>4 DEF Enter, FindingTypes
<1>5. ASSUME NEW s \in Stage, Skip(s) PROVE FindingTypes'
  BY <1>5 DEF Skip, FindingTypes
<1>6. CASE AnalyzeWeb
  <2>1. PICK r \in Responses, v \in Servers : Analyze(v, WebIssues(r))
    BY <1>6 DEF AnalyzeWeb
  <2> QED BY <2>1, IssueTypes DEF Analyze, FindingTypes
<1>7. CASE AnalyzeTls
  <2>1. PICK v \in Servers : Analyze(v, TlsIssues(v))
    BY <1>7 DEF AnalyzeTls
  <2> QED BY <2>1, IssueTypes DEF Analyze, FindingTypes
<1>8. CASE StoreFindings
  BY <1>8 DEF StoreFindings, AddFindings, FindingTypes
<1>9. CASE Discover
  BY <1>9 DEF Discover, FindingTypes
<1>10. CASE Probe
  BY <1>10 DEF Probe, FindingTypes
<1>11. CASE Scanned
  BY <1>11 DEF Scanned, FindingTypes
<1>12. CASE StoreServices
  BY <1>12 DEF StoreServices, FindingTypes
<1>13. CASE Risk
  BY <1>13, ReadTypes DEF Risk, FindingTypes
<1>14. CASE Complete
  BY <1>14, ReadTypes DEF Complete, Forget, FindingTypes
<1>15. CASE Fail
  BY <1>15 DEF Fail, Forget, FindingTypes
<1>16. CASE ToolFails
  BY <1>16 DEF ToolFails, FindingTypes
<1>17. CASE Crash
  BY <1>17 DEF Crash, Forget, FindingTypes
<1>18. CASE AddScope
  BY <1>18 DEF AddScope, FindingTypes
<1>19. CASE UNCHANGED vars
  BY <1>19 DEF vars, FindingTypes
<1> QED
  BY <1>1, <1>2, <1>3, <1>4, <1>5, <1>6, <1>7, <1>8, <1>9, <1>10, <1>11, <1>12, <1>13,
     <1>14, <1>15, <1>16, <1>17, <1>18, <1>19, Steps
  DEF AnyStep

-----------------------------------------------------------------------------
(* Chunks and ports.                                                       *)

(* A port of a list has a place below the length of the list.              *)
LEMMA PlaceIn ==
  ASSUME NEW S \in SUBSET Port
  PROVE  /\ Cardinality(S) \in 0..LastPort
         /\ \A p \in S : /\ Cardinality({q \in S : q < p}) \in Nat
                         /\ Cardinality({q \in S : q < p}) < Cardinality(S)
<1>1. IsFiniteSet(Port) /\ Cardinality(Port) = LastPort
  BY PortAssumption, FS_Interval DEF Port
<1>2. IsFiniteSet(S) /\ Cardinality(S) \in Nat /\ Cardinality(S) <= LastPort
  BY <1>1, FS_Subset, FS_CardinalityType
<1>3. ASSUME NEW p \in S
      PROVE  /\ Cardinality({q \in S : q < p}) \in Nat
             /\ Cardinality({q \in S : q < p}) < Cardinality(S)
  <2> DEFINE before == {q \in S : q < p}
  <2>1. before \in SUBSET S /\ before # S
    BY PortAssumption DEF Port
  <2>2. /\ IsFiniteSet(before) /\ Cardinality(before) <= Cardinality(S)
        /\ Cardinality(before) # Cardinality(S)
    BY <1>2, <2>1, FS_Subset
  <2>3. Cardinality(before) \in Nat
    BY <2>2, FS_CardinalityType
  <2> HIDE DEF before
  <2>4. Cardinality(before) < Cardinality(S)
    BY <1>2, <2>2, <2>3
  <2> QED BY <2>3, <2>4 DEF before
<1> QED BY <1>2, <1>3, PortAssumption

(* How products grow, which is all the arithmetic the chunks need.         *)
LEMMA Product ==
  ASSUME NEW n \in Nat, NEW size \in Nat, size # 0
  PROVE  n * size \in Nat /\ (n + 1) * size = n * size + size /\ n <= n * size
  OBVIOUS

(* While chunks are left they are not empty, and no more than ports.       *)
LEMMA ChunkBound ==
  ASSUME open \subseteq Port, chunk \in Nat, MoreChunks
  PROVE  Size \in Nat \ {0} /\ chunk + 1 \in 0..LastPort
<1>1. Size \in Nat
  BY PortAssumption, ScanAssumption DEF Size
<1>2. Cardinality(open) \in 0..LastPort /\ chunk * Size < Cardinality(open)
  BY PlaceIn DEF MoreChunks
<1>3. Size # 0
  <2> SUFFICES ASSUME Size = 0 PROVE FALSE
    OBVIOUS
  <2>1. LastPort = 0
    BY PortAssumption, ScanAssumption, Zenon DEF Size
  <2>2. chunk * 0 < 0
    BY <1>2, <2>1
  <2> QED BY <2>2
<1>4. chunk <= chunk * Size /\ chunk * Size \in Nat
  BY <1>1, <1>3, Product
<1> QED BY <1>1, <1>2, <1>3, <1>4, PortAssumption

(* Nothing times any size.                                                 *)
LEMMA Zero == \A size \in Nat : 0 * size = 0
  OBVIOUS

(* What is stored of a service has the types of a service.                 *)
LEMMA UpsertType ==
  ASSUME NEW old \in Service, NEW new \in Sighting \union {Closed}
  PROVE  Upsert(old, new) \in Service
<1>0. ASSUME NEW o \in Sighting
      PROVE  /\ o.name \in Names /\ o.version \in Versions
             /\ o = [name |-> o.name, version |-> o.version, open |-> TRUE]
  BY ScanAssumption DEF Names, Versions
<1>1. CASE ~new.open
  <2>1. Upsert(old, new) = old
    BY <1>1, Zenon DEF Upsert
  <2> QED BY <2>1
<1>2. CASE new.open /\ ~old.open
  <2>1. Upsert(old, new) = new
    BY <1>2, Zenon DEF Upsert
  <2>2. new \in Sighting
    BY <1>2 DEF Closed
  <2>3. [name |-> new.name, version |-> new.version, open |-> TRUE] \in Service
    BY <2>2, <1>0 DEF Service
  <2> QED BY <2>1, <2>2, <2>3, <1>0, Zenon
<1>3. CASE new.open /\ old.open
  <2>1. Upsert(old, new) = Update(old, new)
    BY <1>3, Zenon DEF Upsert
  <2>2. new \in Sighting /\ old # Closed
    BY <1>3 DEF Closed
  <2>3. new.name \in Names /\ new.version \in Versions
    BY <2>2, <1>0
  <2>4. old.name \in Names /\ old.version \in Versions
    BY <2>2 DEF Service
  <2> QED BY <2>1, <2>3, <2>4 DEF Service, Update
<1> QED BY <1>1, <1>2, <1>3

(* Ports initially have their types.                                       *)
LEMMA PortInit == Init => PortTypes
  BY PortAssumption DEF Init, PortTypes, Nothing, Service, Port

(* And keep them.                                                          *)
LEMMA PortStep ==
  ASSUME PortTypes, ControlTypes, [Next]_vars
  PROVE  PortTypes'
<1> USE PortAssumption
<1>1. CASE Begin
  BY <1>1 DEF Begin, PortTypes
<1>2. CASE Validate
  BY <1>2 DEF Validate, PortTypes
<1>3. CASE Save
  BY <1>3 DEF Save, PortTypes
<1>4. ASSUME NEW s \in Stage, Enter(s) PROVE PortTypes'
  BY <1>4 DEF Enter, PortTypes
<1>5. ASSUME NEW s \in Stage, Skip(s) PROVE PortTypes'
  BY <1>5 DEF Skip, PortTypes
<1>6. CASE AnalyzeWeb
  BY <1>6 DEF AnalyzeWeb, Analyze, PortTypes
<1>7. CASE AnalyzeTls
  BY <1>7 DEF AnalyzeTls, Analyze, PortTypes
<1>8. CASE StoreFindings
  BY <1>8 DEF StoreFindings, PortTypes
<1>9. ASSUME NoScan
      PROVE  /\ open' \subseteq Port /\ chunk' \in 0..LastPort
             /\ merged' \in [Port -> Sighting \union {Closed}]
             /\ probed' \in [Port -> Nat]
  BY <1>9 DEF NoScan, Nothing
<1>10. CASE Discover
  <2>1. open' \subseteq Port
    BY <1>10 DEF Discover, PortList, AllowedPorts, Allowed, ControlTypes, Entry
  <2> QED BY <1>10, <2>1 DEF Discover, Nothing, PortTypes
<1>11. CASE Probe
  <2>1. PICK answer \in [ChunkOf(chunk) -> Sighting \union {Closed}] :
          merged' = [p \in Port |-> IF p \in ChunkOf(chunk) /\ answer[p].open
                                    THEN answer[p] ELSE merged[p]]
    BY <1>11 DEF Probe
  <2>2. merged' \in [Port -> Sighting \union {Closed}]
    BY <2>1 DEF PortTypes
  <2>3. probed' \in [Port -> Nat]
    BY <1>11 DEF Probe, PortTypes
  <2>4. chunk' \in 0..LastPort
    BY <1>11, ChunkBound DEF Probe, PortTypes
  <2> QED BY <1>11, <2>2, <2>3, <2>4 DEF Probe, PortTypes
<1>12. CASE Scanned
  BY <1>12 DEF Scanned, PortTypes
<1>13. CASE StoreServices
  <2>1. services' \in [Port -> Service]
    BY <1>13, UpsertType DEF StoreServices, PortTypes
  <2>2. seen' \in [Port -> SUBSET Sighting]
    BY <1>13 DEF StoreServices, PortTypes
  <2> QED BY <1>13, <1>9, <2>1, <2>2 DEF StoreServices, NoScan, PortTypes
<1>14. CASE Risk
  BY <1>14 DEF Risk, PortTypes
<1>15. CASE Complete
  BY <1>15, <1>9 DEF Complete, Forget, NoScan, PortTypes
<1>16. CASE Fail
  BY <1>16, <1>9 DEF Fail, Forget, NoScan, PortTypes
<1>17. CASE ToolFails
  BY <1>17, <1>9 DEF ToolFails, NoScan, PortTypes
<1>18. CASE Crash
  BY <1>18, <1>9 DEF Crash, Forget, NoScan, PortTypes
<1>19. CASE AddScope
  BY <1>19 DEF AddScope, PortTypes
<1>20. CASE UNCHANGED vars
  BY <1>20 DEF vars, PortTypes
<1> QED
  BY <1>1, <1>2, <1>3, <1>4, <1>5, <1>6, <1>7, <1>8, <1>10, <1>11, <1>12, <1>13, <1>14,
     <1>15, <1>16, <1>17, <1>18, <1>19, <1>20, Steps
  DEF AnyStep

(* Initially no port was looked at.                                        *)
LEMMA CountInit == Init => Counted
  BY DEF Init, Counted

(* A chunk is the ports of the list from one boundary to the next.         *)
LEMMA CountProbe ==
  ASSUME Counted, PortTypes, Probe
  PROVE  Counted'
<1>1. open \subseteq Port /\ chunk \in Nat /\ MoreChunks /\ pc = "probe"
  BY PortAssumption DEF PortTypes, Probe
<1>2. Size \in Nat \ {0} /\ Size' = Size
  BY <1>1, ChunkBound DEF Probe, Size, FullRange
<1>3. /\ chunk * Size \in Nat
      /\ (chunk + 1) * Size = chunk * Size + Size
  BY <1>1, <1>2, Product
<1>4. (chunk * Size)' = chunk * Size + Size
  BY <1>2, <1>3 DEF Probe
<1>5. ASSUME NEW p \in Port
      PROVE  probed'[p] = IF p \in open' /\ Place(p)' < (chunk * Size)' THEN 1 ELSE 0
  <2>1. open' = open /\ Place(p)' = Place(p)
    BY DEF Probe, Place
  <2>2. probed[p] = IF p \in open /\ Place(p) < chunk * Size THEN 1 ELSE 0
    BY <1>1 DEF Counted
  <2>3. probed'[p] = IF p \in ChunkOf(chunk) THEN probed[p] + 1 ELSE probed[p]
    BY DEF Probe
  <2>4. p \in open => Place(p) \in Nat
    BY <1>1, PlaceIn DEF Place
  <2>5. p \in ChunkOf(chunk) <=>
          /\ p \in open
          /\ chunk * Size <= Place(p) /\ Place(p) < chunk * Size + Size
    BY <1>2, <1>3, <2>4 DEF ChunkOf
  <2> HIDE DEF Place, Size, ChunkOf
  <2> QED BY <1>2, <1>3, <1>4, <2>1, <2>2, <2>3, <2>4, <2>5
<1>6. pc' = "probe"
  BY <1>1 DEF Probe
<1> QED BY <1>5, <1>6 DEF Counted

(* What no other step than those of the adapter touches.                   *)
LEMMA CountFrame ==
  ASSUME Counted, target' = target, UNCHANGED <<view, nmapVars>>,
         pc' \in {"probe", "inventory"} => pc' = pc
  PROVE  Counted'
<1>1. Size' = Size /\ MoreChunks' = MoreChunks
  BY DEF Size, FullRange, MoreChunks
<1>2. \A p : Place(p)' = Place(p)
  BY DEF Place
<1> QED BY <1>1, <1>2 DEF Counted

(* Every step keeps the count.                                             *)
LEMMA CountStep ==
  ASSUME Counted, PortTypes, PortTypes', [Next]_vars
  PROVE  Counted'
<1>1. target' = target
  BY TargetKept
<1>2. ASSUME pc' \notin {"probe", "inventory"} PROVE Counted'
  BY <1>2 DEF Counted
<1>3. CASE Discover
  <2>1. ASSUME NEW p \in Port
        PROVE  probed'[p] = IF p \in open' /\ Place(p)' < (chunk * Size)' THEN 1 ELSE 0
    <3>1. probed'[p] = 0 /\ chunk' = 0
      BY <1>3, <2>1 DEF Discover
    <3>2. p \in open' => Place(p)' \in Nat
      BY PlaceIn DEF Place, PortTypes
    <3>3. Size' \in Nat
      BY PortAssumption, ScanAssumption DEF Size
    <3>4. (chunk * Size)' = 0
      <4>1. 0 * Size' = 0
        BY <3>3, Zero
      <4> QED BY <3>1, <4>1
    <3> QED BY <3>1, <3>2, <3>4
  <2>2. pc' = "probe"
    BY <1>3 DEF Discover
  <2> QED BY <2>1, <2>2 DEF Counted
<1>4. CASE Probe
  BY <1>4, CountProbe
<1>5. CASE Scanned
  <2>1. Size' = Size /\ MoreChunks' = MoreChunks
    BY <1>5 DEF Scanned, Size, FullRange, MoreChunks
  <2>2. \A p : Place(p)' = Place(p)
    BY <1>5 DEF Scanned, Place
  <2> QED BY <1>5, <2>1, <2>2 DEF Scanned, Counted
<1>6. CASE Begin
  BY <1>2, <1>6 DEF Begin
<1>7. CASE Validate
  BY <1>2, <1>7 DEF Validate
<1>8. CASE Save
  BY <1>2, <1>8 DEF Save
<1>9. ASSUME NEW s \in Stage, Enter(s) PROVE Counted'
  BY <1>2, <1>9 DEF Enter, Stage
<1>10. ASSUME NEW s \in Stage, Skip(s) PROVE Counted'
  BY <1>2, <1>10 DEF Skip
<1>11. CASE AnalyzeWeb
  BY <1>2, <1>11 DEF AnalyzeWeb, Analyze
<1>12. CASE AnalyzeTls
  BY <1>2, <1>12 DEF AnalyzeTls, Analyze
<1>13. CASE StoreFindings
  BY <1>2, <1>13 DEF StoreFindings
<1>14. CASE StoreServices
  BY <1>2, <1>14 DEF StoreServices
<1>15. CASE Risk
  BY <1>2, <1>15 DEF Risk
<1>16. CASE Complete
  BY <1>2, <1>16 DEF Complete, Forget
<1>17. CASE Fail
  BY <1>2, <1>17 DEF Fail, Forget
<1>18. CASE ToolFails
  BY <1>2, <1>18 DEF ToolFails
<1>19. CASE Crash
  BY <1>2, <1>19 DEF Crash, Forget
<1>20. CASE AddScope
  BY <1>1, <1>20, CountFrame DEF AddScope
<1>21. CASE UNCHANGED vars
  BY <1>1, <1>21, CountFrame DEF vars
<1> QED
  BY <1>3, <1>4, <1>5, <1>6, <1>7, <1>8, <1>9, <1>10, <1>11, <1>12, <1>13, <1>14,
     <1>15, <1>16, <1>17, <1>18, <1>19, <1>20, <1>21, Steps
  DEF AnyStep

(* When the chunks are through, every port of the list is in one.          *)
LEMMA CountedOnce == PortTypes /\ Counted => EachPortOnce
<1> SUFFICES ASSUME PortTypes, Counted, pc = "inventory"
             PROVE  probed = [p \in Port |-> IF p \in open THEN 1 ELSE 0]
  BY DEF EachPortOnce
<1>1. Size \in Nat /\ chunk \in Nat /\ open \subseteq Port
  BY PortAssumption, ScanAssumption DEF Size, PortTypes
<1>2. chunk * Size \in Nat /\ ~(chunk * Size < Cardinality(open))
  BY <1>1 DEF Counted, MoreChunks
<1>3. Cardinality(open) \in Nat
  BY <1>1, PlaceIn, PortAssumption
<1>4. ASSUME NEW p \in Port PROVE probed[p] = IF p \in open THEN 1 ELSE 0
  <2>1. p \in open => Place(p) \in Nat /\ Place(p) < Cardinality(open)
    BY <1>1, PlaceIn DEF Place
  <2>2. probed[p] = IF p \in open /\ Place(p) < chunk * Size THEN 1 ELSE 0
    BY DEF Counted
  <2> QED BY <1>2, <1>3, <2>1, <2>2
<1> QED BY <1>4 DEF PortTypes

-----------------------------------------------------------------------------
(* Findings.                                                               *)

(* Initially nothing was reported and nothing read.                        *)
LEMMA StoredInit == Init => Stored /\ Listed
  BY DEF Init, Stored, Listed, Analyzing

(* An analyzer's stage is not done yet, so that what it reports need not   *)
(* be stored; the TLS stage reports nothing.                               *)
LEMMA StoredAnalyze ==
  ASSUME Stored, InOrder, Current, FindingTypes, NEW v, NEW issues,
         pc \in Analyzing, Analyze(v, issues),
         pc = "tls_security" => target.https /\ issues = TlsIssues(v)
  PROVE  Stored'
<1>1. /\ stage = pc /\ stage \in Analyzing /\ stage \notin done \union saved
      /\ findings' = findings /\ saved' = saved /\ done' = done /\ stage' = stage
  BY DEF InOrder, Current, Analyze, Analyzing, Busy, Stage
<1>2. CASE target.https => Handshake(v)
  <2>1. batch' = issues /\ last' = [last EXCEPT ![stage] = issues] /\ pc' = "store"
    BY <1>2 DEF Analyze
  <2>2. pc = "tls_security" => issues = {}
    BY <1>2, HandshakeIsClean
  <2>3. \A s \in Analyzing : last'[s] = IF s = stage THEN issues ELSE last[s]
    BY <1>1, <2>1 DEF FindingTypes, Analyzing
  <2>4. \A s \in Analyzing : s \in done' \union saved' => last'[s] \subseteq findings'
    BY <1>1, <2>3 DEF Stored
  <2>5. last'["tls_security"] = {}
    BY <1>1, <2>2, <2>3 DEF Stored, Analyzing
  <2> QED BY <1>1, <2>1, <2>3, <2>4, <2>5 DEF Stored
<1>3. CASE ~(target.https => Handshake(v))
  <2>1. last' = last /\ pc' = "failing"
    BY <1>3 DEF Analyze
  <2> QED BY <1>1, <2>1 DEF Stored
<1> QED BY <1>2, <1>3

(* What was reported is stored when its stage is done.                     *)
LEMMA StoredStep ==
  ASSUME Stored, InOrder, Current, FindingTypes, [Next]_vars
  PROVE  Stored'
<1> USE DEF Analyzing, Stage
<1>1. CASE Begin
  BY <1>1 DEF Begin, Stored
<1>2. CASE Validate
  BY <1>2 DEF Validate, Stored, InOrder
<1>3. CASE Save
  BY <1>3 DEF Save, Stored
<1>4. ASSUME NEW s \in Stage, Enter(s) PROVE Stored'
  BY <1>4 DEF Enter, Stored
<1>5. ASSUME NEW s \in Stage, Skip(s) PROVE Stored'
  <2>1. s \in {"tls_security", "nmap_discovery"}
    BY <1>5, SkipsWhat DEF Skip
  <2> QED BY <1>5, <2>1 DEF Skip, Stored
<1>6. CASE AnalyzeWeb
  <2>1. PICK r \in Responses, v \in Servers : Analyze(v, WebIssues(r))
    BY <1>6 DEF AnalyzeWeb
  <2> QED BY <1>6, <2>1, StoredAnalyze DEF AnalyzeWeb
<1>7. CASE AnalyzeTls
  <2>1. PICK v \in Servers : Analyze(v, TlsIssues(v))
    BY <1>7 DEF AnalyzeTls
  <2>2. pc = "tls_security" /\ target.https
    BY <1>7, RunsWhat DEF AnalyzeTls, InOrder, Busy
  <2> QED BY <2>1, <2>2, StoredAnalyze
<1>8. CASE StoreFindings
  BY <1>8 DEF StoreFindings, AddFindings, Stored, InOrder
<1>9. CASE Discover
  BY <1>9 DEF Discover, Stored
<1>10. CASE Probe
  BY <1>10 DEF Probe, Stored
<1>11. CASE Scanned
  BY <1>11 DEF Scanned, Stored
<1>12. CASE StoreServices
  BY <1>12 DEF StoreServices, Stored, InOrder
<1>13. CASE Risk
  BY <1>13 DEF Risk, Stored, InOrder
<1>14. CASE Complete
  BY <1>14 DEF Complete, Forget, Stored
<1>15. CASE Fail
  BY <1>15 DEF Fail, Forget, Stored
<1>16. CASE ToolFails
  BY <1>16 DEF ToolFails, Stored
<1>17. CASE Crash
  BY <1>17 DEF Crash, Forget, Stored
<1>18. CASE AddScope
  BY <1>18 DEF AddScope, Stored
<1>19. CASE UNCHANGED vars
  BY <1>19 DEF vars, Stored
<1> QED
  BY <1>1, <1>2, <1>3, <1>4, <1>5, <1>6, <1>7, <1>8, <1>9, <1>10, <1>11, <1>12, <1>13,
     <1>14, <1>15, <1>16, <1>17, <1>18, <1>19, Steps
  DEF AnyStep

(* Any stage after the web stage comes when that is done.                  *)
LEMMA WebBefore ==
  ASSUME InOrder, HasURL, pc \in Busy \union {"save"},
         stage \in {"tls_security", "nmap_discovery", "risk_and_checkpoint"}
  PROVE  "web_security" \in done
  BY DEF InOrder, Order, Planned, Stage

(* What a session has read of the findings stays all there is.             *)
LEMMA ListedStep ==
  ASSUME Listed, Stored, InOrder, Current, [Next]_vars
  PROVE  Listed'
<1>0. HasURL' = HasURL
  BY TargetKept, PlanKept
<1> USE <1>0 DEF Analyzing
<1>1. CASE Begin
  BY <1>1 DEF Begin, Listed
<1>2. CASE Validate
  BY <1>2 DEF Validate, Listed, Stage
<1>3. CASE Save
  <2>1. cache' \in {cache, Read} /\ findings' = findings /\ done' = done /\ pc' = "ready"
    BY <1>3 DEF Save
  <2>2. cache' \in {{}, {findings}}
    BY <2>1 DEF Read, Listed
  <2>3. ASSUME cache' # cache, HasURL PROVE "web_security" \in done
    <3>1. stage \in Analyzing
      BY <1>3, <2>3 DEF Save
    <3> QED BY <1>3, <2>3, <3>1, WebBefore DEF Save, InOrder
  <2> QED BY <2>1, <2>2, <2>3 DEF Listed
<1>4. ASSUME NEW s \in Stage, Enter(s) PROVE Listed'
  BY <1>4 DEF Enter, Listed, Stage
<1>5. ASSUME NEW s \in Stage, Skip(s) PROVE Listed'
  BY <1>5 DEF Skip, Listed
<1>6. CASE AnalyzeWeb
  BY <1>6 DEF AnalyzeWeb, Analyze, Listed
<1>7. CASE AnalyzeTls
  BY <1>7 DEF AnalyzeTls, Analyze, Listed
<1>8. CASE StoreFindings
  <2>1. CASE stage = "web_security"
    <3>1. HasURL /\ "web_security" \notin done
      BY <1>8, <2>1 DEF StoreFindings, InOrder, Planned, Busy
    <3>2. cache = {}
      BY <3>1 DEF Listed
    <3> QED BY <1>8, <3>2 DEF StoreFindings, Listed
  <2>2. CASE stage = "tls_security"
    <3>1. batch = {}
      BY <1>8, <2>2 DEF StoreFindings, Stored
    <3>2. findings' = findings
      BY <1>8, <3>1 DEF StoreFindings, AddFindings
    <3> QED BY <1>8, <3>2 DEF StoreFindings, Listed
  <2> QED BY <1>8, <2>1, <2>2 DEF StoreFindings, InOrder
<1>9. CASE Discover
  BY <1>9 DEF Discover, Listed
<1>10. CASE Probe
  BY <1>10 DEF Probe, Listed
<1>11. CASE Scanned
  BY <1>11 DEF Scanned, Listed
<1>12. CASE StoreServices
  BY <1>12 DEF StoreServices, Listed
<1>13. CASE Risk
  <2>1. cache' = Read /\ findings' = findings /\ pc' = "save" /\ done \subseteq done'
    BY <1>13 DEF Risk
  <2>2. HasURL => "web_security" \in done
    BY <1>13, WebBefore DEF Risk, InOrder, Stage, Busy
  <2> QED BY <2>1, <2>2 DEF Read, Listed
<1>14. CASE Complete
  BY <1>14 DEF Complete, Forget, Listed
<1>15. CASE Fail
  BY <1>15 DEF Fail, Forget, Listed
<1>16. CASE ToolFails
  BY <1>16 DEF ToolFails, Listed
<1>17. CASE Crash
  BY <1>17 DEF Crash, Forget, Listed
<1>18. CASE AddScope
  BY <1>18 DEF AddScope, Listed
<1>19. CASE UNCHANGED vars
  BY <1>19 DEF vars, Listed
<1> QED
  BY <1>1, <1>2, <1>3, <1>4, <1>5, <1>6, <1>7, <1>8, <1>9, <1>10, <1>11, <1>12, <1>13,
     <1>14, <1>15, <1>16, <1>17, <1>18, <1>19, Steps
  DEF AnyStep

(* Completion lists what the session has read, and no run is on then.      *)
LEMMA RisksStep ==
  ASSUME RisksComplete, Listed, Current, [Next]_vars
  PROVE  RisksComplete'
<1>1. CASE Complete
  <2>1. FindingList = findings
    BY DEF FindingList, Read, Listed
  <2> QED BY <1>1, <2>1 DEF Complete, RisksComplete
<1>2. CASE StoreFindings
  <2>1. status' = "RUNNING"
    BY <1>2 DEF StoreFindings, Current
  <2> QED BY <2>1 DEF RisksComplete
<1>3. CASE Begin \/ Fail
  BY <1>3 DEF Begin, Fail, RisksComplete
<1>4. CASE UNCHANGED <<status, risks, findings>>
  BY <1>4 DEF RisksComplete
<1>5. ~(Complete \/ StoreFindings \/ Begin \/ Fail) => UNCHANGED <<status, risks, findings>>
  BY Steps DEF AnyStep, Validate, Save, Enter, Skip, AnalyzeWeb, AnalyzeTls, Analyze,
     Discover, Probe, Scanned, StoreServices, Risk, ToolFails, Crash, AddScope, vars
<1> QED BY <1>1, <1>2, <1>3, <1>4, <1>5

-----------------------------------------------------------------------------
(* Scope.                                                                  *)

(* Initially nothing was validated.                                        *)
LEMMA ValidatedInit == Init => Validated
  BY DEF Init, Validated

(* A stage that counts as done was passed with the scope remembered.       *)
LEMMA ValidatedStep ==
  ASSUME Validated, InOrder, [Next]_vars
  PROVE  Validated'
<1>1. CASE Validate
  <2>1. CASE Passed(view)
    BY <1>1, <2>1 DEF Validate, Validated, Passed, HasURL, HasIP
  <2>2. CASE ~Passed(view)
    BY <1>1, <2>2 DEF Validate, Validated, Passed, HasURL, HasIP
  <2> QED BY <2>1, <2>2
<1>2. ASSUME checked' = checked,
             "scope_validation" \in done' \union saved' =>
               "scope_validation" \in done \union saved
      PROVE  Validated'
  BY <1>2, TargetKept DEF Validated, Passed, HasURL, HasIP
<1>3. CASE Begin
  BY <1>2, <1>3 DEF Begin
<1>4. CASE Save
  BY <1>2, <1>4 DEF Save
<1>5. ASSUME NEW s \in Stage, Enter(s) PROVE Validated'
  BY <1>2, <1>5 DEF Enter
<1>6. ASSUME NEW s \in Stage, Skip(s) PROVE Validated'
  <2>1. s # "scope_validation"
    BY <1>6, SkipsWhat DEF Skip
  <2> QED BY <1>2, <1>6, <2>1 DEF Skip
<1>7. CASE AnalyzeWeb \/ AnalyzeTls
  BY <1>2, <1>7 DEF AnalyzeWeb, AnalyzeTls, Analyze
<1>8. CASE StoreFindings
  BY <1>2, <1>8 DEF StoreFindings, InOrder, Analyzing
<1>9. CASE StoreServices
  BY <1>2, <1>9 DEF StoreServices, InOrder
<1>10. CASE Risk
  BY <1>2, <1>10 DEF Risk, InOrder, Stage
<1>11. CASE Discover \/ Probe \/ Scanned
  BY <1>2, <1>11 DEF Discover, Probe, Scanned
<1>12. CASE Complete
  BY <1>2, <1>12 DEF Complete, Forget
<1>13. CASE Fail
  BY <1>2, <1>13 DEF Fail, Forget
<1>14. CASE Crash
  BY <1>2, <1>14 DEF Crash, Forget
<1>15. CASE ToolFails
  BY <1>2, <1>15 DEF ToolFails
<1>16. CASE AddScope
  BY <1>2, <1>16 DEF AddScope
<1>17. CASE UNCHANGED vars
  BY <1>2, <1>17 DEF vars
<1> QED
  BY <1>1, <1>3, <1>4, <1>5, <1>6, <1>7, <1>8, <1>9, <1>10, <1>11, <1>12, <1>13, <1>14,
     <1>15, <1>16, <1>17, Steps
  DEF AnyStep

(* The list that a scope without an unrestricted entry gives Nmap is not   *)
(* empty, so that the adapter keeps to it.                                 *)
LEMMA ListIsGiven ==
  ASSUME NEW s, NEW h, TargetPasses(s), ~Unrestricted(s)
  PROVE  NmapPorts(s, h) = AllowedPorts(s)
<1>1. AllowedPorts(s) # {}
  BY DEF TargetPasses, Unrestricted, AllowedPorts
<1> QED BY <1>1 DEF NmapPorts, FullRange, PortList

(* A scope that is entered only by targets that pass gives a list.         *)
LEMMA PortsListed == Current => ListedPortsOnly
<1> SUFFICES ASSUME Current, pc \in {"nmap_discovery", "probe"}, ~Unrestricted(view)
             PROVE  NmapPorts(view, target.ip) \subseteq AllowedPorts(view)
  BY DEF ListedPortsOnly
<1>1. TargetPasses(view)
  BY DEF Current
<1> QED BY <1>1, ListIsGiven

(* A host that passes is allowed by an entry and not excluded.             *)
LEMMA HostPasses ==
  ASSUME NEW s, NEW h, NEW p, RequestPasses(s, h, p)
  PROVE  /\ \E e \in Allowed(s) : Lower[e.host] = Lower[h]
         /\ ~Barred(s, h)
  BY DEF RequestPasses, Named, Blocked, Barred

(* With one host, pooled ports are ports of that host.                     *)
LEMMA PooledGranted ==
  ASSUME NEW s, NEW h, NEW p,
         \A e \in Allowed(s) : Lower[e.host] = Lower[h],
         Unrestricted(s) \/ p \in AllowedPorts(s)
  PROVE  Granted(s, h, p)
  BY DEF Granted, Unrestricted, AllowedPorts

(* What a run contacts was validated, with the scope remembered.           *)
LEMMA ContactsKept == ControlTypes /\ InOrder /\ Current /\ Validated => OneHostKept
<1> SUFFICES ASSUME ControlTypes, InOrder, Current, Validated, OneHost, NEW c \in Contacts
             PROVE  Granted(view, c[1], c[2]) /\ ~Barred(checked, c[1])
  BY DEF OneHostKept
<1>1. pc \in {"web_security", "tls_security", "nmap_discovery", "probe"}
  BY Zenon DEF Contacts
<1>2. "scope_validation" \in done /\ pc \notin {"idle", "failing"}
  BY <1>1 DEF InOrder, Order, Planned, Stage, Busy
<1>3. Passed(checked) /\ checked \subseteq view /\ TargetPasses(view)
  BY <1>1, <1>2 DEF Validated, Current
<1>4. Allowed(checked) \subseteq Allowed(view)
  BY <1>3 DEF Allowed
<1>5. CASE pc \in {"web_security", "tls_security"}
  <2>1. c = <<target.host, target.port>>
    BY <1>5 DEF Contacts
  <2>2. HasURL
    BY <1>5, RunsWhat DEF InOrder, Busy, Stage, Planned
  <2>3. RequestPasses(checked, target.host, target.port)
    BY <1>3, <2>2 DEF Passed
  <2>4. \A e \in Allowed(view) : Lower[e.host] = Lower[target.host]
    BY <1>4, <2>3, HostPasses DEF OneHost
  <2>5. target.port # NoPort
    BY GivenTypes, PortAssumption DEF ControlTypes, NoPort, Port
  <2>6. Unrestricted(view) \/ target.port \in AllowedPorts(view)
    BY <1>4, <2>3, <2>5 DEF RequestPasses, AllPorts, Unrestricted, AllowedPorts
  <2>7. Granted(view, target.host, target.port)
    BY <2>4, <2>6, PooledGranted
  <2>8. ~Barred(checked, target.host)
    BY <2>3, HostPasses
  <2> QED BY <2>1, <2>7, <2>8
<1>6. CASE pc \in {"nmap_discovery", "probe"}
  <2>1. c[1] = target.ip /\ c[2] \in NmapPorts(view, target.ip)
    <3>1. c \in {target.ip} \X NmapPorts(view, target.ip)
      BY <1>6 DEF Contacts
    <3> QED BY <3>1
  <2>2. HasIP
    BY <1>6, RunsWhat DEF InOrder, Busy, Stage
  <2>3. PICK h, p : RequestPasses(checked, h, p) /\ Lower[h] = Lower[target.ip]
    BY <1>3, <2>2 DEF Passed, OneHost
  <2>4. \A e \in Allowed(view) : Lower[e.host] = Lower[target.ip]
    BY <1>4, <2>3, HostPasses DEF OneHost
  <2>5. Unrestricted(view) \/ c[2] \in AllowedPorts(view)
    BY <1>3, <2>1, ListIsGiven
  <2>6. Granted(view, target.ip, c[2])
    BY <2>4, <2>5, PooledGranted
  <2>7. ~Barred(checked, target.ip)
    BY <2>3, HostPasses DEF Barred
  <2> QED BY <2>1, <2>6, <2>7
<1> QED BY <1>1, <1>5, <1>6

-----------------------------------------------------------------------------
(* Services.                                                               *)

\* PairReported, of one port.
Backed(service, told) ==
  service.open => service \in told \/ \E o \in told : Unknown \in {o.name, o.version}

(* What is stored of a service stays backed by what scans told of it.      *)
LEMMA UpsertBacked ==
  ASSUME NEW old, NEW new \in Sighting \union {Closed}, NEW told,
         Backed(old, told)
  PROVE  Backed(Upsert(old, new), told \union ({new} \ {Closed}))
<1>1. CASE ~new.open
  <2>1. Upsert(old, new) = old
    BY <1>1, Zenon DEF Upsert
  <2> QED BY <2>1 DEF Backed
<1>2. CASE new.open
  <2>1. new # Closed /\ new \in Sighting
    BY <1>2 DEF Closed
  <2>2. CASE Unknown \in {new.name, new.version}
    BY <2>1, <2>2 DEF Backed
  <2>3. CASE new.name # Unknown /\ new.version # Unknown
    <3>1. new = [name |-> new.name, version |-> new.version, open |-> TRUE]
      BY <2>1, ScanAssumption
    <3>2. Update(old, new) = new
      BY <2>3, <3>1, Zenon DEF Update
    <3>3. Upsert(old, new) = new
      BY <1>2, <3>2, Zenon DEF Upsert
    <3> QED BY <2>1, <3>3 DEF Backed
  <2> QED BY <2>2, <2>3
<1> QED BY <1>1, <1>2

(* PairReported, port by port.                                             *)
LEMMA PairByPort == PairReported <=> \A p \in Port : Backed(services[p], seen[p])
  BY DEF PairReported, Backed

(* Initially no service is known.                                          *)
LEMMA PairInit == Init => PairReported
  BY DEF Init, PairReported, Nothing, Closed

(* Services change with what a scan saw.                                   *)
LEMMA PairStep ==
  ASSUME PairReported, PortTypes, [Next]_vars
  PROVE  PairReported'
<1>1. CASE StoreServices
  <2>1. ASSUME NEW p \in Port PROVE Backed(services'[p], seen'[p])
    <3>1. /\ services'[p] = Upsert(services[p], merged[p])
          /\ seen'[p] = seen[p] \union ({merged[p]} \ {Closed})
      BY <1>1 DEF StoreServices
    <3>2. Backed(services[p], seen[p]) /\ merged[p] \in Sighting \union {Closed}
      BY PairByPort DEF PortTypes
    <3> QED BY <3>1, <3>2, UpsertBacked
  <2> QED BY <2>1 DEF PairReported, Backed
<1>2. CASE UNCHANGED <<services, seen>>
  BY <1>2 DEF PairReported
<1>3. ~StoreServices => UNCHANGED <<services, seen>>
  BY Steps DEF AnyStep, Begin, Validate, Save, Enter, Skip, AnalyzeWeb, AnalyzeTls, Analyze,
     StoreFindings, Discover, Probe, Scanned, Risk, Complete, Fail, ToolFails, Crash,
     AddScope, vars
<1> QED BY <1>1, <1>2, <1>3

-----------------------------------------------------------------------------
(* The theorems.                                                           *)

AllTypes == ControlTypes /\ FindingTypes /\ PortTypes
Kept == RisksComplete /\ PairReported
ScanInv == AllTypes /\ InOrder /\ Current /\ Validated /\ Stored /\ Listed /\ Counted /\ Kept

(* The invariant the others follow from.                                   *)
THEOREM ScanInvariant == Spec => []ScanInv
<1>1. Init => ScanInv
  <2> SUFFICES ASSUME Init PROVE ScanInv
    OBVIOUS
  <2>1. AllTypes
    BY ControlInit, FindingInit, PortInit DEF AllTypes
  <2>2. RisksComplete
    BY DEF Init, RisksComplete
  <2> QED
    BY <2>1, <2>2, OrderInit, CurrentInit, ValidatedInit, StoredInit, CountInit, PairInit
    DEF ScanInv, Kept
<1>2. ScanInv /\ [Next]_vars => ScanInv'
  <2> SUFFICES ASSUME ScanInv, [Next]_vars PROVE ScanInv'
    OBVIOUS
  <2> USE DEF ScanInv, AllTypes, Kept
  <2>1. ControlTypes' /\ FindingTypes' /\ PortTypes'
    BY ControlStep, FindingStep, PortStep
  <2>2. InOrder' /\ Current' /\ Validated'
    BY OrderStep, CurrentStep, ValidatedStep
  <2>3. Stored' /\ Listed'
    BY StoredStep, ListedStep
  <2>4. Counted'
    BY <2>1, CountStep
  <2>5. RisksComplete' /\ PairReported'
    BY RisksStep, PairStep
  <2> QED BY <2>1, <2>2, <2>3, <2>4, <2>5
<1> QED BY <1>1, <1>2, PTL DEF Spec

(* Every variable of a scan keeps to its domain, and a session has read    *)
(* a.findings at most once.                                                *)
THEOREM TypeCorrect == Spec => []TypeOK
<1>1. ScanInv => TypeOK
  BY TypeParts DEF ScanInv, AllTypes
<1> QED BY <1>1, ScanInvariant, PTL

(* With one host in scope and target, all that a run contacts is granted,  *)
(* and was not excluded when the target was validated (scope.py:16).       *)
THEOREM ContactsGranted == Spec => []OneHostKept
<1>1. ScanInv => OneHostKept
  BY ContactsKept DEF ScanInv, AllTypes
<1> QED BY <1>1, ScanInvariant, PTL

(* Where every allowed entry names a port, Nmap looks at listed ports only *)
(* (orchestrator.py:263, adapter.py:76).                                   *)
THEOREM ListedPorts == Spec => []ListedPortsOnly
<1>1. ScanInv => ListedPortsOnly
  BY PortsListed DEF ScanInv
<1> QED BY <1>1, ScanInvariant, PTL

(* A finished Nmap scan has looked once at each port of its list, whatever *)
(* the sizes of chunk and list (adapter.py:60, 84).                        *)
THEOREM PortsOnce == Spec => []EachPortOnce
<1>1. ScanInv => EachPortOnce
  BY CountedOnce DEF ScanInv, AllTypes
<1> QED BY <1>1, ScanInvariant, PTL

(* A stage counts as completed only with all stored that its last scan     *)
(* reported (orchestrator.py:67, 200).                                     *)
THEOREM ReportsStored == Spec => []ReportedIsStored
<1>1. ScanInv => ReportedIsStored
  BY DEF ScanInv, AllTypes, FindingTypes, Stored, ReportedIsStored, Analyzing
<1> QED BY <1>1, ScanInvariant, PTL

(* The risk list of a COMPLETED assessment has every finding, although it  *)
(* is computed from what the session read before (orchestrator.py:208,     *)
(* 359).                                                                   *)
THEOREM RisksListed == Spec => []RisksComplete
<1>1. ScanInv => RisksComplete
  BY DEF ScanInv, Kept
<1> QED BY <1>1, ScanInvariant, PTL

(* Name and version of a service were told together by some scan, unless a *)
(* scan told one without the other (inventory.py:66).                      *)
THEOREM PairsReported == Spec => []PairReported
<1>1. ScanInv => PairReported
  BY DEF ScanInv, Kept
<1> QED BY <1>1, ScanInvariant, PTL
=============================================================================
