--------------------------- MODULE BleLinks_proofs ---------------------------
(***************************************************************************)
(* Proofs about BleLinks, for every set of names of the virtual scale and  *)
(* any number of configurations.                                           *)
(*                                                                         *)
(* Type correctness is inductive by itself.  The safety properties are     *)
(* not: IInv adds which links a stop still drains, that the host has one   *)
(* procedure of one owner at a time, and what a matching revision implies. *)
(***************************************************************************)
EXTENDS BleLinks, TLAPS

USE HostAssumption DEF HostAssumption
USE DEF links, search, core, wanted, inUse, radio, adapter, machine, vars, Shared
USE DEF LinkStates, Owners, Configs

-----------------------------------------------------------------------------
(* Type correctness, the Boolean variables apart from the others.          *)

FlagsOK ==
  /\ synced \in BOOLEAN /\ subscribed \in BOOLEAN /\ scanning \in BOOLEAN
  /\ connecting \in BOOLEAN /\ stopping \in BOOLEAN /\ faulted \in BOOLEAN
  /\ ready \in BOOLEAN /\ fresh \in BOOLEAN /\ ticking \in BOOLEAN
  /\ ours \in BOOLEAN /\ mScanning \in BOOLEAN /\ connSem \in BOOLEAN
StatesOK ==
  /\ scan \in Owners /\ conn \in Owners
  /\ source \in LinkStates /\ gateway \in LinkStates /\ owner \in LinkStates
  /\ config \in Configs /\ served \in Configs
  /\ revision \in 1 .. MaxRevision /\ applied \in 0 .. revision
  /\ pc \in {"idle", "work", "discover", "wait", "cancel", "session"}
  /\ job \in Names \cup {"none"}
ViewOK == published \in [connected : BOOLEAN, fresh : BOOLEAN, gateway : BOOLEAN]

LEMMA FlagsStep == ASSUME FlagsOK, [Next]_vars PROVE FlagsOK'
<1> USE DEF FlagsOK, Goto, Finish, Released
<1>1. ASSUME NEW c \in Configs, Configure(c) PROVE FlagsOK'
  BY <1>1, Zenon DEF Configure
<1>2. CASE TickDrains
  BY <1>2, Zenon DEF TickDrains, TickEnters
<1>3. CASE TickPublishes
  BY <1>3, Zenon DEF TickPublishes
<1>4. CASE TickRests
  BY <1>4, Zenon DEF TickRests, TickRuns, TickEnters
<1>5. CASE TickScans
  BY <1>5, Zenon DEF TickScans, TickRuns, TickEnters
<1>6. ASSUME NEW started \in BOOLEAN, TickConnects(started) PROVE FlagsOK'
  BY <1>6, Zenon DEF TickConnects, TickRuns, TickEnters
<1>7. CASE TickStopsForConfig
  BY <1>7, Zenon DEF TickStopsForConfig, TickEnters, StopLinks, CancelledScan, Trying
<1>8. ASSUME NEW fatal \in BOOLEAN, TickStopsSession(fatal) PROVE FlagsOK'
  BY <1>8, Zenon DEF TickStopsSession, TickEnters, StopLinks, CancelledScan, Trying
<1>9. CASE SourceSeen
  BY <1>9, Zenon DEF SourceSeen
<1>10. CASE ScanCompletes
  BY <1>10, Zenon DEF ScanCompletes
<1>11. CASE SourceConnectFails
  BY <1>11, Zenon DEF SourceConnectFails
<1>12. CASE SourceWeighs
  BY <1>12, Zenon DEF SourceWeighs
<1>13. CASE WeightAges
  BY <1>13, Zenon DEF WeightAges
<1>14. ASSUME NEW discovers \in BOOLEAN, SourceConnects(discovers) PROVE FlagsOK'
  BY <1>14, Zenon DEF SourceConnects, StopLinks, CancelledScan, Trying
<1>15. CASE SourceDisconnects
  BY <1>15, Zenon DEF SourceDisconnects, StopLinks, CancelledScan, Trying
<1>16. CASE SourceSetUpFails
  BY <1>16, Zenon DEF SourceSetUpFails, StopLinks, CancelledScan, Trying
<1>17. CASE SourceRejected
  BY <1>17, Zenon DEF SourceRejected, StopLinks, CancelledScan, Trying
<1>18. CASE GatewayConnects
  BY <1>18, Zenon DEF GatewayConnects
<1>19. CASE GatewaySubscribes
  BY <1>19, Zenon DEF GatewaySubscribes
<1>20. CASE GatewayUnsubscribes
  BY <1>20, Zenon DEF GatewayUnsubscribes, StopLinks, CancelledScan, Trying
<1>21. CASE GatewayRejected
  BY <1>21, Zenon DEF GatewayRejected, StopLinks, CancelledScan, Trying
<1>22. ASSUME NEW pending \in BOOLEAN, GatewayDisconnects(pending) PROVE FlagsOK'
  BY <1>22, Zenon DEF GatewayDisconnects, StopLinks, CancelledScan, Trying
<1>23. CASE LoopBusy
  BY <1>23, Zenon DEF LoopBusy
<1>24. CASE RegistrationDue
  BY <1>24, Zenon DEF RegistrationDue
<1>25. CASE RegistrationNotDue
  BY <1>25, Zenon DEF RegistrationNotDue
<1>26. CASE RegistrationWrites
  BY <1>26, Zenon DEF RegistrationWrites
<1>27. CASE NoSession
  BY <1>27, Zenon DEF NoSession
<1>28. CASE BindingChanges
  BY <1>28, Zenon DEF BindingChanges
<1>29. CASE Reuse
  BY <1>29, Zenon DEF Reuse
<1>30. CASE StartScan
  BY <1>30, Zenon DEF StartScan
<1>31. CASE ScanStarts
  BY <1>31, Zenon DEF ScanStarts
<1>32. CASE ScanRefused
  BY <1>32, Zenon DEF ScanRefused
<1>33. CASE Signalled
  BY <1>33, Zenon DEF Signalled
<1>34. CASE TimesOut
  BY <1>34, Zenon DEF TimesOut
<1>35. CASE Interrupted
  BY <1>35, Zenon DEF Interrupted
<1>36. CASE Cancels
  BY <1>36, Zenon DEF Cancels
<1>37. CASE SessionEnds
  BY <1>37, Zenon DEF SessionEnds
<1>38. ASSUME NEW started \in BOOLEAN, MachineSeen(started) PROVE FlagsOK'
  BY <1>38, Zenon DEF MachineSeen
<1>39. ASSUME NEW started \in BOOLEAN, SearchCompletes(started) PROVE FlagsOK'
  BY <1>39, Zenon DEF SearchCompletes
<1>40. CASE MachineConnects
  BY <1>40, Zenon DEF MachineConnects
<1>41. CASE MachineConnectFails
  BY <1>41, Zenon DEF MachineConnectFails
<1>42. CASE MachineDisconnects
  BY <1>42, Zenon DEF MachineDisconnects
<1>43. CASE HostSyncs
  BY <1>43, Zenon DEF HostSyncs
<1>44. CASE HostResets
  BY <1>44, Zenon DEF HostResets
<1>45. CASE UNCHANGED vars
  BY <1>45
<1>46. CASE ScaleNext
  BY <1>1, <1>2, <1>3, <1>4, <1>5, <1>6, <1>7, <1>8, <1>9, <1>10, <1>11, <1>12, <1>13,
     <1>14, <1>15, <1>16, <1>17, <1>18, <1>19, <1>20, <1>21, <1>22, <1>46 DEF ScaleNext
<1>47. CASE MachineNext
  BY <1>23, <1>24, <1>25, <1>26, <1>27, <1>28, <1>29, <1>30, <1>31, <1>32, <1>33, <1>34,
     <1>35, <1>36, <1>37, <1>38, <1>39, <1>40, <1>41, <1>42, <1>47 DEF MachineNext, Worker, MachineEvents
<1> QED BY <1>43, <1>44, <1>45, <1>46, <1>47 DEF Next

LEMMA StatesStep == ASSUME StatesOK, [Next]_vars PROVE StatesOK'
<1> USE DEF StatesOK, Goto, Finish, Released
<1>1. ASSUME NEW c \in Configs, Configure(c)
      PROVE  StatesOK'
  BY <1>1 DEF Configure
<1>2. CASE TickDrains \/ TickPublishes \/ TickRests \/ TickScans
  BY <1>2 DEF TickDrains, TickPublishes, TickRests, TickScans, TickRuns, TickEnters
<1>3. ASSUME NEW b \in BOOLEAN, TickConnects(b)
      PROVE  StatesOK'
  BY <1>3 DEF TickConnects, TickRuns, TickEnters
<1>4. ASSUME NEW b \in BOOLEAN, TickStopsForConfig \/ TickStopsSession(b)
      PROVE  StatesOK'
  BY <1>4 DEF TickStopsForConfig, TickStopsSession, TickEnters, StopLinks, CancelledScan, Trying
<1>5. CASE SourceSeen \/ ScanCompletes \/ SourceConnectFails \/ SourceWeighs \/ WeightAges
  BY <1>5 DEF SourceSeen, ScanCompletes, SourceConnectFails, SourceWeighs, WeightAges
<1>6. ASSUME NEW b \in BOOLEAN, SourceConnects(b)
      PROVE  StatesOK'
  BY <1>6 DEF SourceConnects, StopLinks, CancelledScan, Trying
<1>7. CASE SourceDisconnects \/ SourceSetUpFails \/ SourceRejected
  BY <1>7 DEF SourceDisconnects, SourceSetUpFails, SourceRejected,
    StopLinks, CancelledScan, Trying
<1>8. CASE GatewayConnects \/ GatewaySubscribes
  BY <1>8 DEF GatewayConnects, GatewaySubscribes
<1>9. CASE GatewayUnsubscribes \/ GatewayRejected
  BY <1>9 DEF GatewayUnsubscribes, GatewayRejected, StopLinks, CancelledScan, Trying
<1>10. ASSUME NEW b \in BOOLEAN, GatewayDisconnects(b)
      PROVE  StatesOK'
  BY <1>10 DEF GatewayDisconnects, StopLinks, CancelledScan, Trying
<1>11. CASE LoopBusy \/ RegistrationDue \/ RegistrationNotDue \/ RegistrationWrites
  BY <1>11 DEF LoopBusy, RegistrationDue, RegistrationNotDue, RegistrationWrites, DueNow
<1>12. CASE NoSession \/ BindingChanges \/ Reuse \/ SessionEnds
  BY <1>12 DEF NoSession, BindingChanges, Reuse, SessionEnds
<1>13. CASE StartScan \/ ScanStarts \/ ScanRefused
  BY <1>13 DEF StartScan, ScanStarts, ScanRefused
<1>14. CASE Signalled \/ TimesOut \/ Interrupted \/ Cancels
  BY <1>14 DEF Signalled, TimesOut, Interrupted, Cancels
<1>15. ASSUME NEW b \in BOOLEAN, MachineSeen(b) \/ SearchCompletes(b)
      PROVE  StatesOK'
  BY <1>15 DEF MachineSeen, SearchCompletes
<1>16. CASE MachineConnects \/ MachineConnectFails \/ MachineDisconnects
  BY <1>16 DEF MachineConnects, MachineConnectFails, MachineDisconnects
<1>17. CASE HostSyncs \/ HostResets
  BY <1>17 DEF HostSyncs, HostResets
<1>18. CASE UNCHANGED vars
  BY <1>18
<1>19. CASE ScaleNext
  BY <1>1, <1>2, <1>3, <1>4, <1>5, <1>6, <1>7, <1>8, <1>9, <1>10, <1>19 DEF ScaleNext
<1>20. CASE MachineNext
  BY <1>11, <1>12, <1>13, <1>14, <1>15, <1>16, <1>20 DEF MachineNext, Worker, MachineEvents
<1> QED BY <1>17, <1>18, <1>19, <1>20 DEF Next

\* Readers see what the tick publishes, with freshness cleared at once by a
\* stop or by a new configuration.
ViewChanges ==
  \/ published' \in {published, Invalidated, Nothing}
  \/ published' = [connected |-> source # "none", fresh |-> fresh,
                   gateway |-> gateway # "none" /\ subscribed /\ ~stopping]

LEMMA ViewStep == ASSUME [Next]_vars PROVE ViewChanges
<1> USE DEF ViewChanges, Invalidated
<1>1. ASSUME NEW c \in Configs, Configure(c)
      PROVE  ViewChanges
  BY <1>1 DEF Configure
<1>2. CASE TickDrains \/ TickPublishes \/ TickRests \/ TickScans
  BY <1>2 DEF TickDrains, TickPublishes, TickRests, TickScans, TickRuns, TickEnters
<1>3. ASSUME NEW b \in BOOLEAN, TickConnects(b)
      PROVE  ViewChanges
  BY <1>3 DEF TickConnects, TickRuns, TickEnters
<1>4. ASSUME NEW b \in BOOLEAN, TickStopsForConfig \/ TickStopsSession(b)
      PROVE  ViewChanges
  BY <1>4 DEF TickStopsForConfig, TickStopsSession, TickEnters, StopLinks, CancelledScan, Trying
<1>5. CASE SourceSeen \/ ScanCompletes \/ SourceConnectFails \/ SourceWeighs \/ WeightAges
  BY <1>5 DEF SourceSeen, ScanCompletes, SourceConnectFails, SourceWeighs, WeightAges
<1>6. ASSUME NEW b \in BOOLEAN, SourceConnects(b)
      PROVE  ViewChanges
  BY <1>6 DEF SourceConnects, StopLinks, CancelledScan, Trying
<1>7. CASE SourceDisconnects \/ SourceSetUpFails \/ SourceRejected
  BY <1>7 DEF SourceDisconnects, SourceSetUpFails, SourceRejected,
    StopLinks, CancelledScan, Trying
<1>8. CASE GatewayConnects \/ GatewaySubscribes
  BY <1>8 DEF GatewayConnects, GatewaySubscribes
<1>9. CASE GatewayUnsubscribes \/ GatewayRejected
  BY <1>9 DEF GatewayUnsubscribes, GatewayRejected, StopLinks, CancelledScan, Trying
<1>10. ASSUME NEW b \in BOOLEAN, GatewayDisconnects(b)
      PROVE  ViewChanges
  BY <1>10 DEF GatewayDisconnects, StopLinks, CancelledScan, Trying
<1>11. CASE LoopBusy \/ RegistrationDue \/ RegistrationNotDue \/ RegistrationWrites
  BY <1>11 DEF LoopBusy, RegistrationDue, RegistrationNotDue, RegistrationWrites, DueNow
<1>12. CASE NoSession \/ BindingChanges \/ Reuse \/ SessionEnds
  BY <1>12 DEF NoSession, BindingChanges, Reuse, SessionEnds
<1>13. CASE StartScan \/ ScanStarts \/ ScanRefused
  BY <1>13 DEF StartScan, ScanStarts, ScanRefused
<1>14. CASE Signalled \/ TimesOut \/ Interrupted \/ Cancels
  BY <1>14 DEF Signalled, TimesOut, Interrupted, Cancels
<1>15. ASSUME NEW b \in BOOLEAN, MachineSeen(b) \/ SearchCompletes(b)
      PROVE  ViewChanges
  BY <1>15 DEF MachineSeen, SearchCompletes
<1>16. CASE MachineConnects \/ MachineConnectFails \/ MachineDisconnects
  BY <1>16 DEF MachineConnects, MachineConnectFails, MachineDisconnects
<1>17. CASE HostSyncs \/ HostResets
  BY <1>17 DEF HostSyncs, HostResets
<1>18. CASE UNCHANGED vars
  BY <1>18
<1>19. CASE ScaleNext
  BY <1>1, <1>2, <1>3, <1>4, <1>5, <1>6, <1>7, <1>8, <1>9, <1>10, <1>19 DEF ScaleNext
<1>20. CASE MachineNext
  BY <1>11, <1>12, <1>13, <1>14, <1>15, <1>16, <1>20 DEF MachineNext, Worker, MachineEvents
<1> QED BY <1>17, <1>18, <1>19, <1>20 DEF Next

LEMMA ViewType == ASSUME ViewOK, FlagsOK, [Next]_vars PROVE ViewOK'
<1> USE DEF ViewOK
<1>1. CASE published' \in {published, Invalidated, Nothing}
  <2>1. published \in [connected : BOOLEAN, fresh : BOOLEAN, gateway : BOOLEAN]
    OBVIOUS
  <2>2. [published EXCEPT !.fresh = FALSE] \in [connected : BOOLEAN, fresh : BOOLEAN, gateway : BOOLEAN]
    BY <2>1, Zenon
  <2>3. Nothing \in [connected : BOOLEAN, fresh : BOOLEAN, gateway : BOOLEAN]
    BY DEF Nothing
  <2> QED BY <1>1, <2>1, <2>2, <2>3 DEF Invalidated
<1>2. CASE published' = [connected |-> source # "none", fresh |-> fresh,
                         gateway |-> gateway # "none" /\ subscribed /\ ~stopping]
  <2>1. (source # "none") \in BOOLEAN /\ (gateway # "none" /\ subscribed /\ ~stopping) \in BOOLEAN
    BY Zenon
  <2>2. fresh \in BOOLEAN
    BY DEF FlagsOK
  <2> QED BY <1>2, <2>1, <2>2, Zenon
<1> QED BY <1>1, <1>2, ViewStep DEF ViewChanges

\* Every variable stays in its set, with the counters within their bound and
\* the applied revision never ahead of the wanted one.
THEOREM TypeCorrect == Spec => []TypeOK
<1>1. Init => FlagsOK
  BY Zenon DEF Init, FlagsOK
<1>2. Init => StatesOK /\ ViewOK
  BY DEF Init, StatesOK, ViewOK, Nothing
<1>3. FlagsOK /\ StatesOK /\ ViewOK /\ [Next]_vars => FlagsOK' /\ StatesOK' /\ ViewOK'
  BY FlagsStep, StatesStep, ViewType
<1>4. FlagsOK /\ StatesOK /\ ViewOK => TypeOK
  BY Zenon DEF FlagsOK, StatesOK, ViewOK, TypeOK
<1> QED BY <1>1, <1>2, <1>3, <1>4, PTL DEF Spec

-----------------------------------------------------------------------------
(* The inductive invariant.                                                *)

\* A source session is up only outside a stop, and what the program has closed
\* is being drained.
SessionOK ==
  /\ source \in LinkStates /\ gateway \in LinkStates
  /\ source = "up" => ~stopping /\ ~faulted
  /\ source = "closing" => stopping
  /\ gateway = "closing" => stopping
  /\ fresh \/ ready => source = "up"
\* The host has one procedure of one owner; the scale's attempt belongs to a
\* time without a session, the machine's to a time without its link.
RadioOK ==
  /\ scan # "none" => conn = "none"
  /\ conn = "scale" => source = "none" /\ (gateway = "none" \/ stopping)
  /\ owner # "none" => scan # "machine" /\ conn # "machine"
  /\ pc = "discover" => scan # "machine" /\ conn # "machine" /\ owner = "none" /\ mScanning
ConfigOK ==
  /\ revision \in Nat /\ applied \in Nat /\ applied <= revision
  /\ revision = applied => served = config
\* What is published has its three fields.
PublishedOK ==
  published = [connected |-> published.connected, fresh |-> published.fresh,
               gateway |-> published.gateway]
IInv ==
  /\ PublishedOK /\ SessionOK /\ RadioOK /\ ConfigOK
  /\ RunningSearchIsKnown /\ GatewayOfThisSession /\ PublishedFreshIsLive

USE DEF PublishedOK, SessionOK, RadioOK, ConfigOK
USE DEF RunningSearchIsKnown, GatewayOfThisSession, PublishedFreshIsLive

LEMMA InitOK == Init => IInv
BY DEF Init, Nothing, IInv

LEMMA ConfigureOK == ASSUME IInv, NEW c, Configure(c) PROVE IInv'
<1>1. published'.fresh = FALSE /\ PublishedOK'
  BY DEF Configure, IInv
<1>2. ConfigOK'
  BY DEF Configure, IInv
<1> QED BY <1>1, <1>2 DEF Configure, IInv

LEMMA TickDrainsOK == ASSUME IInv, TickDrains PROVE IInv'
BY DEF TickDrains, TickEnters, Stopped, IInv

LEMMA TickPublishesOK == ASSUME IInv, TickPublishes PROVE IInv'
BY DEF TickPublishes, IInv

LEMMA TickRestsOK == ASSUME IInv, TickRests PROVE IInv'
<1>1. (fresh' => fresh) /\ (ready' => ready) /\ (faulted' => faulted)
  BY Zenon DEF TickRests, TickRuns
<1>2. /\ stopping' = FALSE /\ served' = config /\ applied' = revision
      /\ ~Stopped /\ UNCHANGED <<scan, conn, source, gateway, subscribed, scanning, connecting,
                               config, revision, published, ours, machine>>
  BY DEF TickRests, TickRuns
<1>3. SessionOK' /\ PublishedFreshIsLive'
  BY <1>1, <1>2 DEF Stopped, Drained, IInv
<1>4. PublishedOK' /\ RadioOK' /\ ConfigOK' /\ RunningSearchIsKnown' /\ GatewayOfThisSession'
  BY <1>2 DEF Stopped, Drained, IInv
<1> QED BY <1>3, <1>4 DEF IInv

LEMMA TickScansOK == ASSUME IInv, TickScans PROVE IInv'
BY DEF TickScans, TickRuns, TickEnters, Stopped, Drained, MayApply, Working, IInv

LEMMA TickConnectsOK == ASSUME IInv, NEW started \in BOOLEAN, TickConnects(started) PROVE IInv'
BY DEF TickConnects, TickRuns, TickEnters, Stopped, Drained, MayApply, MayConnect, Working, IInv

LEMMA StopLinksOK ==
  ASSUME IInv, NEW src \in LinkStates, NEW trying, NEW fatal, StopLinks(src, trying, fatal),
         src = "up" => source = "up",
         conn' \in {"none", conn}, conn' = "scale" => trying /\ src = "none",
         gateway' \in {"none", gateway}, UNCHANGED <<machine, wanted, inUse>>
  PROVE  IInv'
<1>1. CASE stopping
  <2>1. /\ source' = src /\ connecting' = trying
        /\ UNCHANGED <<scan, scanning, stopping, faulted, ready, fresh, published>>
    BY <1>1 DEF StopLinks
  <2> QED BY <1>1, <2>1 DEF IInv
<1>2. CASE ~stopping
  <2>1. /\ stopping' = TRUE /\ ready' = FALSE /\ fresh' = FALSE /\ scanning' = FALSE
        /\ source' = (IF src = "up" THEN "closing" ELSE src)
        /\ scan' = (IF scanning THEN "none" ELSE scan)
    BY <1>2 DEF StopLinks, CancelledScan
  <2>2. published'.fresh = FALSE /\ PublishedOK'
    BY <1>2 DEF StopLinks, Invalidated, IInv
  <2>3. RadioOK' /\ RunningSearchIsKnown'
    BY <1>2, <2>1 DEF StopLinks, Trying, IInv
  <2>4. SessionOK' /\ ConfigOK' /\ GatewayOfThisSession' /\ PublishedFreshIsLive'
    BY <1>2, <2>1, <2>2 DEF IInv
  <2> QED BY <2>2, <2>3, <2>4 DEF IInv
<1> QED BY <1>1, <1>2

LEMMA TickStopsOK ==
  ASSUME IInv, NEW fatal \in BOOLEAN, TickStopsForConfig \/ TickStopsSession(fatal) PROVE IInv'
BY StopLinksOK DEF TickStopsForConfig, TickStopsSession, TickEnters, IInv

LEMMA SearchOK == ASSUME IInv, SourceSeen \/ ScanCompletes \/ SourceConnectFails PROVE IInv'
BY DEF SourceSeen, ScanCompletes, SourceConnectFails, IInv

LEMMA SourceConnectsOK ==
  ASSUME IInv, NEW discovers \in BOOLEAN, SourceConnects(discovers) PROVE IInv'
BY DEF SourceConnects, StopLinks, Invalidated, CancelledScan, Trying, IInv

LEMMA SourceStopsOK == ASSUME IInv, SourceDisconnects \/ SourceSetUpFails \/ SourceRejected PROVE IInv'
BY StopLinksOK DEF SourceDisconnects, SourceSetUpFails, SourceRejected, IInv

LEMMA SourceWeighsOK == ASSUME IInv, SourceWeighs \/ WeightAges PROVE IInv'
BY DEF SourceWeighs, WeightAges, IInv

LEMMA GatewayOK == ASSUME IInv, GatewayConnects \/ GatewaySubscribes PROVE IInv'
BY DEF GatewayConnects, GatewaySubscribes, Admits, IInv

LEMMA GatewayStopsOK == ASSUME IInv, GatewayUnsubscribes \/ GatewayRejected PROVE IInv'
BY StopLinksOK DEF GatewayUnsubscribes, GatewayRejected, IInv

LEMMA GatewayDisconnectsOK ==
  ASSUME IInv, NEW pending \in BOOLEAN, GatewayDisconnects(pending) PROVE IInv'
BY StopLinksOK DEF GatewayDisconnects, IInv

LEMMA WorkerLoopOK ==
  ASSUME IInv, LoopBusy \/ RegistrationDue \/ RegistrationNotDue \/ RegistrationWrites PROVE IInv'
BY DEF LoopBusy, RegistrationDue, RegistrationNotDue, RegistrationWrites, Goto, Finish, Released, IInv

LEMMA WorkerConnectsOK ==
  ASSUME IInv, NoSession \/ BindingChanges \/ Reuse \/ SessionEnds PROVE IInv'
BY DEF NoSession, BindingChanges, Reuse, SessionEnds, Goto, Finish, Released, IInv

LEMMA StartScanOK == ASSUME IInv, StartScan PROVE IInv'
BY DEF StartScan, Goto, Finish, Released, IInv

LEMMA ScansOK == ASSUME IInv, ScanStarts \/ ScanRefused PROVE IInv'
BY DEF ScanStarts, ScanRefused, Goto, Finish, Released, IInv

LEMMA WaitsOK == ASSUME IInv, Signalled \/ TimesOut \/ Interrupted \/ Cancels PROVE IInv'
BY DEF Signalled, TimesOut, Interrupted, Cancels, Goto, Finish, Released, IInv

LEMMA MachineSeenOK ==
  ASSUME IInv, NEW started \in BOOLEAN, MachineSeen(started) \/ SearchCompletes(started) PROVE IInv'
BY DEF MachineSeen, SearchCompletes, IInv

LEMMA MachineLinkOK ==
  ASSUME IInv, MachineConnects \/ MachineConnectFails \/ MachineDisconnects PROVE IInv'
BY DEF MachineConnects, MachineConnectFails, MachineDisconnects, IInv

LEMMA HostOK == ASSUME IInv, HostSyncs \/ HostResets PROVE IInv'
<1>1. CASE HostSyncs
  BY <1>1 DEF HostSyncs, IInv
<1>2. CASE HostResets
  <2>1. /\ scan' = "none" /\ conn' = "none" /\ source' = "none" /\ gateway' = "none"
        /\ ready' = FALSE /\ fresh' = FALSE /\ published' = Nothing /\ owner' = "none"
        /\ pc' = pc /\ UNCHANGED <<wanted, inUse>>
    BY <1>2 DEF HostResets
  <2>2. mScanning /\ owner = "none" /\ scan # "machine" => mScanning'
    BY <1>2, Zenon DEF HostResets
  <2>3. published'.fresh = FALSE /\ PublishedOK'
    BY <2>1 DEF Nothing
  <2>4. RadioOK'
    BY <2>1, <2>2 DEF IInv
  <2> QED BY <2>1, <2>3, <2>4 DEF IInv
<1> QED BY <1>1, <1>2

LEMMA Inductive == IInv /\ [Next]_vars => IInv'
<1> SUFFICES ASSUME IInv, [Next]_vars PROVE IInv'
  OBVIOUS
<1>1. CASE ScaleNext
  BY <1>1, ConfigureOK, TickDrainsOK, TickPublishesOK, TickRestsOK, TickScansOK, TickConnectsOK,
     TickStopsOK, SearchOK, SourceConnectsOK, SourceStopsOK, SourceWeighsOK, GatewayOK,
     GatewayStopsOK, GatewayDisconnectsOK DEF ScaleNext
<1>2. CASE MachineNext
  BY <1>2, WorkerLoopOK, WorkerConnectsOK, StartScanOK, ScansOK, WaitsOK, MachineSeenOK,
     MachineLinkOK DEF MachineNext, Worker, MachineEvents
<1>3. CASE HostSyncs \/ HostResets
  BY <1>3, HostOK
<1>4. CASE UNCHANGED vars
  BY <1>4 DEF IInv
<1> QED BY <1>1, <1>2, <1>3, <1>4 DEF Next

LEMMA Invariance == Spec => []IInv
BY InitOK, Inductive, PTL DEF Spec

-----------------------------------------------------------------------------
(* The results.                                                            *)

\* Whatever the two users of the host stop, cancel or lose, neither forgets a
\* search or a connection attempt of its own that still runs.
THEOREM SearchIsKnown == Spec => []RunningSearchIsKnown
<1>1. IInv => RunningSearchIsKnown
  BY DEF IInv
<1> QED BY <1>1, Invariance, PTL

\* The machine's gateway is served by the source session it joined, or let go.
THEOREM GatewayKeepsSession == Spec => []GatewayOfThisSession
<1>1. IInv => GatewayOfThisSession
  BY DEF IInv
<1> QED BY <1>1, Invariance, PTL

\* A weight is published as recent only while its source session is up.
THEOREM PublishedIsLive == Spec => []PublishedFreshIsLive
<1>1. IInv => PublishedFreshIsLive
  BY DEF IInv
<1> QED BY <1>1, Invariance, PTL

\* A registration names the scale that is being served.
THEOREM RegistrationIsServed == Spec => RegistersServedName
<1>1. IInv /\ [Next]_vars => [RegistrationDue => source = "up" /\ served = config]_vars
  BY DEF RegistrationDue, DueNow, IInv
<1> QED BY <1>1, Invariance, PTL DEF Spec, RegistersServedName
=============================================================================
