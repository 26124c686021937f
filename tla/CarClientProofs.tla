-------------------------- MODULE CarClientProofs --------------------------
(***************************************************************************)
(* Proofs about the client program, for any number of attempts and losses: *)
(* its callbacks are attached to the connection there is, the distances it *)
(* has never give way to older ones, and the threads it remembers have     *)
(* ended when the client they use is gone.                                 *)
(***************************************************************************)
EXTENDS CarClient, FiniteSetTheorems, TLAPS

Looking == {"adapter", "scan", "search", "attempt", "verify"}
Steps == Looking \cup {"rssi", "map", "attach", "outside"}
Leaving == {"destroy", "stop", "join", "destroyed", "exited"}

\* Types, as far as the rest needs them.
ClientTypes ==
  /\ main \in {"connect", "keys", "leave", "aborted"} \cup Leaving
  /\ printer \in {"off", "check", "connect", "done"}
  /\ step \in Steps
  /\ link \in BOOLEAN /\ subscribed \in BOOLEAN /\ peripheral \in BOOLEAN
  /\ losses \in 0 .. LossBound /\ entry \in 0 .. LossBound + 1
  /\ rssi \in [RssiThreads -> {"none", "running", "ended"}]

\* One thread at a time is inside Connect, and none once main leaves.
OneConnects ==
  /\ main = "connect" => printer = "off" /\ step # "outside"
  /\ main \in {"keys", "leave"} => printer # "off" /\ (printer = "connect" <=> step # "outside")
  /\ main \in Leaving => printer \in {"off", "done"} /\ step = "outside"
  /\ printer = "check" => step = "outside"

\* The threads are numbered as they are started, and the map has the last.
Numbered == \A i \in RssiThreads : rssi[i] # "none" <=> i <= entry

\* A loss lies between one connection and the next: as many threads as losses are
\* started before this connection, and one by it.
Counted ==
  /\ step \in Looking => entry <= losses
  /\ step = "rssi" => entry <= losses /\ (~link => entry < losses)
  /\ step \in {"map", "attach"} \/ printer = "check" =>
       entry <= losses + 1 /\ (~link => entry <= losses)

\* When the printing thread finds the car connected, the callbacks of that very
\* connection are in place.  What they have stored may still be older.
CallbacksInPlace == (printer = "check" /\ link) => subscribed

\* What was joined has ended.
JoinedEnded ==
  /\ joined # {} => main \in {"join", "destroyed", "exited"}
  /\ \A name \in joined : name \in {"keepAlive", "rssi"} /\ Ended(name)
  /\ joined \subseteq Entries

ClientInv ==
  /\ ClientTypes /\ OneConnects /\ Numbered /\ Counted /\ JoinedEnded
  /\ CallbacksInPlace /\ KnownThreadsEnd

LEMMA ClientInit == Init => ClientInv
<1>1. SUFFICES ASSUME Init PROVE ClientInv
  OBVIOUS
<1>2. ClientTypes
  <2>1. rssi = [i \in RssiThreads |-> "none"]
    BY <1>1 DEF Init
  <2>2. rssi \in [RssiThreads -> {"none", "running", "ended"}]
    BY <2>1
  <2>3. losses \in 0 .. LossBound /\ entry \in 0 .. LossBound + 1
    BY <1>1, LossAssumption DEF Init, NoThread
  <2>4. /\ main = "connect" /\ printer = "off" /\ step \in Steps
        /\ link = FALSE /\ subscribed = FALSE /\ peripheral = FALSE
    BY <1>1 DEF Init, Steps, Looking
  <2>. QED
    BY <2>2, <2>3, <2>4 DEF ClientTypes
<1>3. Numbered
  BY <1>1, LossAssumption DEF Init, Numbered, RssiThreads, NoThread
<1>. QED
  BY <1>1, <1>2, <1>3
     DEF Init, ClientInv, OneConnects, Counted, JoinedEnded, CallbacksInPlace, KnownThreadsEnd,
         Leaving, Looking, NoThread

\* So the number of threads started is that of the last.
LEMMA StartedIsEntry ==
  ASSUME ClientTypes, Numbered
  PROVE  Started = entry
<1>1. {i \in RssiThreads : rssi[i] # "none"} = 1 .. entry
  BY LossAssumption DEF ClientTypes, Numbered, RssiThreads
<1>2. Cardinality(1 .. entry) = entry
  BY FS_Interval, LossAssumption DEF ClientTypes
<1>. QED
  BY <1>1, <1>2 DEF Started

\* A step that is about none of the threads.
LEMMA ThreadsFrame ==
  ASSUME ClientInv, UNCHANGED <<threadVars, entry, joined>>
  PROVE  /\ Numbered'
         /\ Entries' = Entries
         /\ \A name : Ended(name)' = Ended(name)
BY DEF ClientInv, Numbered, threadVars, Entries, Ended

\* Connect returns to the thread that called it.
LEMMA ReturnAt ==
  ASSUME ClientInv, NEW connected \in BOOLEAN, ConnectReturns(connected), InProcess, step # "outside"
  PROVE  /\ step' = "outside"
         /\ printer' \in {"check", "off", "done"} /\ (printer' = "check" => connected)
         /\ main' \in {"keys", "leave", "destroy"}
         /\ main' = "destroy" => printer' = "off"
         /\ main' # "destroy" => printer' # "off"
         /\ main' \in {"keys", "leave"} => printer' \in {"check", "done"}
BY DEF ClientInv, ClientTypes, OneConnects, ConnectReturns, InProcess, Leaving

\* A step of Connect that goes on or returns, past which no thread is started.
LEMMA ConnectGoesOn ==
  ASSUME ClientInv, InProcess, step # "outside", UNCHANGED <<threadVars, entry, joined>>,
         peripheral' \in BOOLEAN, link' \in BOOLEAN, subscribed' \in BOOLEAN, losses' = losses,
         \/ step' \in Steps \ {"outside"} /\ UNCHANGED <<main, printer>>
         \/ step' \in Steps \ {"outside"} /\ main' = "aborted" /\ UNCHANGED printer
         \/ \E connected \in BOOLEAN : ConnectReturns(connected),
         Counted',
         printer' = "check" /\ link' => subscribed'
  PROVE  ClientInv'
<1>1. main \notin Leaving /\ joined = {}
  BY DEF ClientInv, OneConnects, JoinedEnded, Leaving
<1>2. Numbered' /\ JoinedEnded'
  BY <1>1, ThreadsFrame DEF JoinedEnded
<1>3. /\ main' \in {"connect", "keys", "leave", "aborted", "destroy"}
      /\ printer' \in {"off", "check", "connect", "done"} /\ step' \in Steps
      /\ OneConnects'
  <2>1. CASE step' \in Steps \ {"outside"} /\ UNCHANGED <<main, printer>>
    BY <1>1, <2>1 DEF ClientInv, ClientTypes, OneConnects, Leaving
  <2>2. CASE step' \in Steps \ {"outside"} /\ main' = "aborted" /\ UNCHANGED printer
    BY <1>1, <2>2 DEF ClientInv, ClientTypes, OneConnects, Leaving
  <2>3. ASSUME NEW connected \in BOOLEAN, ConnectReturns(connected)
        PROVE  /\ main' \in {"connect", "keys", "leave", "aborted", "destroy"}
               /\ printer' \in {"off", "check", "connect", "done"} /\ step' \in Steps
               /\ OneConnects'
    BY <2>3, ReturnAt DEF OneConnects, Leaving, Steps
  <2>. QED
    BY <2>1, <2>2, <2>3
<1>4. ClientTypes'
  BY <1>3 DEF ClientInv, ClientTypes, threadVars, Leaving
<1>. QED
  BY <1>2, <1>3, <1>4 DEF ClientInv, CallbacksInPlace, KnownThreadsEnd

LEMMA ConnectKeeps ==
  ASSUME ClientInv, Connect
  PROVE  ClientInv'
<1>. USE DEF ConnectAt
<1>1. CASE ChooseAdapter
  <2>1. /\ InProcess /\ step = "adapter" /\ UNCHANGED <<clientVars, threadVars, linkVars>>
        /\ \/ step' = "scan" /\ UNCHANGED <<main, printer>>
           \/ ConnectReturns(FALSE)
    BY <1>1 DEF ChooseAdapter, programVars
  <2>2. Counted' /\ printer' # "check"
    BY <2>1, ReturnAt DEF ClientInv, OneConnects, Counted, Looking, clientVars, linkVars
  <2>. QED
    BY <2>1, <2>2, ConnectGoesOn DEF ClientInv, ClientTypes, clientVars, linkVars, Steps, Looking
<1>2. CASE Scan
  <2>1. /\ InProcess /\ step = "scan" /\ UNCHANGED <<clientVars, threadVars, linkVars>>
        /\ \/ step' = "search" /\ UNCHANGED <<main, printer>>
           \/ step' = "scan" /\ main' = "aborted" /\ UNCHANGED printer
    BY <1>2 DEF Scan, programVars, Abort
  <2>2. Counted' /\ printer' # "check"
    BY <2>1 DEF ClientInv, OneConnects, Counted, Looking, clientVars, linkVars
  <2>. QED
    BY <2>1, <2>2, ConnectGoesOn DEF ClientInv, ClientTypes, clientVars, linkVars, Steps, Looking
<1>3. CASE Search
  <2>1. /\ InProcess /\ step = "search" /\ UNCHANGED <<entry, joined, threadVars, linkVars>>
        /\ peripheral' \in BOOLEAN
        /\ \/ step' = "attempt" /\ UNCHANGED <<main, printer>>
           \/ ConnectReturns(FALSE)
    BY <1>3 DEF Search, programVars, ClientInv, ClientTypes
  <2>2. Counted' /\ printer' # "check"
    BY <2>1, ReturnAt DEF ClientInv, OneConnects, Counted, Looking, linkVars
  <2>. QED
    BY <2>1, <2>2, ConnectGoesOn DEF ClientInv, ClientTypes, linkVars, Steps, Looking
<1>4. CASE Attempt
  <2>1. /\ InProcess /\ step = "attempt" /\ UNCHANGED <<clientVars, threadVars, subscribed, losses>>
        /\ link' \in BOOLEAN /\ step' \in {"attempt", "verify"} /\ UNCHANGED <<main, printer>>
    BY <1>4 DEF Attempt, programVars, ClientInv, ClientTypes
  <2>2. Counted' /\ printer' # "check"
    BY <2>1 DEF ClientInv, OneConnects, Counted, Looking, clientVars
  <2>. QED
    BY <2>1, <2>2, ConnectGoesOn DEF ClientInv, ClientTypes, clientVars, Steps, Looking
<1>5. CASE Verify
  <2>1. /\ InProcess /\ step = "verify" /\ UNCHANGED <<clientVars, threadVars, linkVars>>
        /\ \/ link /\ step' = "rssi" /\ UNCHANGED <<main, printer>>
           \/ ConnectReturns(FALSE)
    BY <1>5 DEF Verify, programVars
  <2>2. Counted' /\ printer' # "check"
    BY <2>1, ReturnAt DEF ClientInv, OneConnects, Counted, Looking, clientVars, linkVars
  <2>. QED
    BY <2>1, <2>2, ConnectGoesOn DEF ClientInv, ClientTypes, clientVars, linkVars, Steps
<1>6. CASE InitRssiReadThread
  <2>1. /\ step = "rssi" /\ entry <= losses /\ (~link => entry < losses)
        /\ losses \in 0 .. LossBound /\ entry \in Nat
    BY <1>6 DEF InitRssiReadThread, ClientInv, ClientTypes, Counted
  <2>2. Started = entry /\ entry + 1 \in RssiThreads
    BY <2>1, StartedIsEntry, LossAssumption DEF ClientInv, ClientTypes, RssiThreads
  <2>3. /\ rssi' = [rssi EXCEPT ![entry + 1] = "running"] /\ entry' = entry + 1
        /\ step' = "map" /\ InProcess
        /\ UNCHANGED <<main, printer, peripheral, joined, keepAlive, link, subscribed, losses>>
    BY <1>6, <2>2 DEF InitRssiReadThread, programVars, linkVars
  <2>4. main \notin Leaving /\ joined = {} /\ printer # "check"
    BY <2>1 DEF ClientInv, OneConnects, JoinedEnded, Leaving
  <2>5. ClientTypes'
    <3>1. rssi' \in [RssiThreads -> {"none", "running", "ended"}]
      BY <2>2, <2>3 DEF ClientInv, ClientTypes
    <3>2. entry' \in 0 .. LossBound + 1
      BY <2>1, <2>3, LossAssumption
    <3>. QED
      BY <2>3, <3>1, <3>2 DEF ClientInv, ClientTypes, Steps
  <2>6. Numbered'
    BY <2>1, <2>2, <2>3 DEF ClientInv, ClientTypes, Numbered, RssiThreads
  <2>7. OneConnects' /\ Counted'
    BY <2>1, <2>3, <2>4 DEF ClientInv, OneConnects, Counted, Leaving, Looking
  <2>8. JoinedEnded' /\ CallbacksInPlace' /\ KnownThreadsEnd'
    BY <2>3, <2>4 DEF JoinedEnded, CallbacksInPlace, KnownThreadsEnd, Leaving
  <2>. QED
    BY <2>5, <2>6, <2>7, <2>8 DEF ClientInv
<1>7. CASE MapCharacteristics
  <2>1. /\ InProcess /\ step = "map" /\ UNCHANGED <<clientVars, threadVars, linkVars>>
        /\ step' = "attach" /\ UNCHANGED <<main, printer>>
    BY <1>7 DEF MapCharacteristics, programVars
  <2>2. Counted' /\ printer' # "check"
    BY <2>1 DEF ClientInv, OneConnects, Counted, Looking, clientVars, linkVars
  <2>. QED
    BY <2>1, <2>2, ConnectGoesOn DEF ClientInv, ClientTypes, clientVars, linkVars, Steps
<1>8. CASE AttachCallbacks
  <2>1. /\ InProcess /\ step = "attach" /\ UNCHANGED <<clientVars, threadVars, link, losses>>
        /\ \/ link /\ ConnectReturns(TRUE) /\ subscribed' = TRUE
           \/ main' = "aborted" /\ step' = "attach" /\ UNCHANGED <<printer, subscribed>>
    BY <1>8 DEF AttachCallbacks, Abort
  <2>2. Counted'
    BY <2>1, ReturnAt DEF ClientInv, OneConnects, Counted, Looking, clientVars
  <2>3. printer' = "check" => subscribed'
    BY <2>1 DEF ClientInv, OneConnects
  <2>. QED
    BY <2>1, <2>2, <2>3, ConnectGoesOn DEF ClientInv, ClientTypes, clientVars, Steps
<1>. QED
  BY <1>1, <1>2, <1>3, <1>4, <1>5, <1>6, <1>7, <1>8 DEF Connect

LEMMA PrinterKeeps ==
  ASSUME ClientInv, Printer
  PROVE  ClientInv'
<1>1. /\ printer = "check" /\ step = "outside"
      /\ UNCHANGED <<main, clientVars, threadVars, linkVars>>
      /\ \/ printer' = "done" /\ step' = step
         \/ printer' = "connect" /\ step' = "adapter" /\ ~link
  BY DEF Printer, PrinterEnds, Reconnect, ClientInv, OneConnects
<1>2. main \in {"keys", "leave", "aborted"}
  BY <1>1 DEF ClientInv, ClientTypes, OneConnects, Leaving
<1>3. Numbered' /\ JoinedEnded' /\ KnownThreadsEnd'
  BY <1>1, <1>2, ThreadsFrame DEF clientVars, ClientInv, JoinedEnded, KnownThreadsEnd
<1>4. ClientTypes'
  BY <1>1 DEF ClientInv, ClientTypes, clientVars, threadVars, linkVars, Steps, Looking
<1>5. OneConnects' /\ Counted' /\ CallbacksInPlace'
  BY <1>1, <1>2 DEF ClientInv, OneConnects, Counted, CallbacksInPlace, clientVars, linkVars,
     Looking, Leaving
<1>. QED
  BY <1>3, <1>4, <1>5 DEF ClientInv

\* main, once the first connection stands: a key, an exception, or the way out.
\* It is outside Connect, and starts and ends no thread.
LEMMA MainGoesOn ==
  ASSUME ClientInv,
         UNCHANGED <<printer, step, peripheral, entry, joined, threadVars, losses>>,
         \/ main = "keys" /\ main' \in {"aborted", "leave"}
         \/ main = "leave" /\ printer = "done" /\ main' = "destroy"
         \/ main = "destroy" /\ main' \in {"destroyed", "stop", "aborted"}
         \/ main = "stop" /\ main' = "join"
         \/ main = "join" /\ main' = "destroyed"
         \/ main = "destroyed" /\ main' = "exited",
         main' = "destroyed" /\ peripheral => joined = Entries,
         \/ UNCHANGED <<link, subscribed>>
         \/ main = "destroy" /\ link' = FALSE /\ subscribed' = FALSE
  PROVE  ClientInv'
<1>1. ClientTypes'
  BY DEF ClientInv, ClientTypes, threadVars, Leaving
<1>2. OneConnects'
  BY DEF ClientInv, OneConnects, Leaving
<1>3. Counted'
  BY DEF ClientInv, ClientTypes, OneConnects, Counted, Leaving, Looking
<1>4. /\ Numbered' /\ Entries' = Entries
      /\ \A name : Ended(name)' = Ended(name)
  BY ThreadsFrame
<1>5. joined' # {} => main' \in {"join", "destroyed", "exited"}
  BY DEF ClientInv, JoinedEnded
<1>6. JoinedEnded'
  BY <1>4, <1>5 DEF ClientInv, JoinedEnded
<1>7. CallbacksInPlace'
  BY DEF ClientInv, CallbacksInPlace
<1>8. KnownThreadsEnd'
  BY <1>4 DEF ClientInv, JoinedEnded, KnownThreadsEnd
<1>. QED
  BY <1>1, <1>2, <1>3, <1>4, <1>6, <1>7, <1>8 DEF ClientInv

LEMMA MainKeeps ==
  ASSUME ClientInv,
         \/ Command \/ QuitKey \/ JoinPrinter \/ DisconnectPeripheral \/ StopThreads
         \/ ClientDestroyed \/ Exit
  PROVE  ClientInv'
<1>1. CASE Command
  BY <1>1, MainGoesOn DEF Command, Abort, clientVars, linkVars
<1>2. CASE QuitKey
  BY <1>2, MainGoesOn DEF QuitKey, clientVars, linkVars
<1>3. CASE JoinPrinter
  BY <1>3, MainGoesOn DEF JoinPrinter, clientVars, linkVars
<1>4. CASE DisconnectPeripheral
  BY <1>4, MainGoesOn DEF DisconnectPeripheral, clientVars
<1>5. CASE StopThreads
  BY <1>5, MainGoesOn DEF StopThreads, linkVars
<1>6. CASE ClientDestroyed
  BY <1>6, MainGoesOn DEF ClientDestroyed, clientVars, linkVars
<1>7. CASE Exit
  BY <1>7, MainGoesOn DEF Exit, clientVars, linkVars
<1>. QED
  BY <1>1, <1>2, <1>3, <1>4, <1>5, <1>6, <1>7

\* A thread that has ended stays so: what disconnect joins has ended.
LEMMA JoinThreadKeeps ==
  ASSUME ClientInv, JoinThread
  PROVE  ClientInv'
<1>1. PICK name \in Entries \ joined : Ended(name) /\ joined' = joined \cup {name}
  BY DEF JoinThread
<1>2. /\ main = "join"
      /\ UNCHANGED <<programVars, step, entry, peripheral, threadVars, linkVars>>
  BY DEF JoinThread
<1>3. /\ Numbered' /\ Entries' = Entries /\ \A n : Ended(n)' = Ended(n)
  BY <1>2 DEF ClientInv, Numbered, threadVars, Entries, Ended
<1>4. JoinedEnded'
  BY <1>1, <1>2, <1>3 DEF ClientInv, JoinedEnded, programVars, Entries
<1>5. ClientTypes' /\ OneConnects'
  BY <1>2 DEF ClientInv, ClientTypes, OneConnects, programVars, threadVars, linkVars
<1>6. Counted' /\ CallbacksInPlace' /\ KnownThreadsEnd'
  BY <1>2 DEF ClientInv, Counted, CallbacksInPlace, KnownThreadsEnd, programVars, linkVars
<1>. QED
  BY <1>3, <1>4, <1>5, <1>6 DEF ClientInv

LEMMA ThreadsKeep ==
  ASSUME ClientInv, KeepAliveEnds \/ \E i \in RssiThreads : RssiEnds(i)
  PROVE  ClientInv'
<1>1. UNCHANGED <<main, printer, step, peripheral, entry, joined, link, subscribed, losses>>
  BY DEF KeepAliveEnds, RssiEnds, programVars, clientVars, linkVars
<1>2. /\ rssi' \in [RssiThreads -> {"none", "running", "ended"}]
      /\ \A i \in RssiThreads : rssi[i] = "none" <=> rssi'[i] = "none"
      /\ \A i \in RssiThreads : rssi[i] = "ended" => rssi'[i] = "ended"
  BY DEF KeepAliveEnds, RssiEnds, ClientInv, ClientTypes
<1>3. keepAlive = "ended" => keepAlive' = "ended"
  BY DEF KeepAliveEnds, RssiEnds
<1>4. Numbered'
  BY <1>1, <1>2 DEF ClientInv, Numbered
<1>5. Entries' = Entries
  BY <1>1 DEF Entries
<1>6. "rssi" \in Entries => entry \in RssiThreads
  BY LossAssumption DEF Entries, ClientInv, ClientTypes, NoThread, RssiThreads
<1>7. \A name \in Entries : Ended(name) => Ended(name)'
  BY <1>1, <1>2, <1>3, <1>6 DEF Ended, Entries
<1>8. JoinedEnded' /\ KnownThreadsEnd'
  BY <1>1, <1>5, <1>7 DEF ClientInv, JoinedEnded, KnownThreadsEnd
<1>9. ClientTypes' /\ OneConnects' /\ Counted' /\ CallbacksInPlace'
  BY <1>1, <1>2 DEF ClientInv, ClientTypes, OneConnects, Counted, CallbacksInPlace
<1>. QED
  BY <1>4, <1>8, <1>9 DEF ClientInv

\* The car is found, its link lost, or a report sent or handled.
LEMMA CarKeeps ==
  ASSUME ClientInv, DeviceUpdated \/ LinkLost \/ NotifyNewDistanceRead \/ RunAsync
  PROVE  ClientInv'
<1>1. UNCHANGED <<main, printer, step, peripheral, entry, joined, threadVars>>
  BY DEF DeviceUpdated, LinkLost, NotifyNewDistanceRead, RunAsync, programVars, clientVars
<1>2. \/ UNCHANGED <<link, subscribed, losses>>
      \/ link' = FALSE /\ subscribed' = FALSE /\ losses' = losses + 1 /\ losses < LossBound
  BY DEF DeviceUpdated, LinkLost, NotifyNewDistanceRead, RunAsync, linkVars
<1>3. /\ Numbered' /\ Entries' = Entries /\ \A n : Ended(n)' = Ended(n)
  BY <1>1, ThreadsFrame
<1>4. JoinedEnded' /\ KnownThreadsEnd'
  BY <1>1, <1>3 DEF ClientInv, JoinedEnded, KnownThreadsEnd
<1>5. ClientTypes' /\ OneConnects'
  <2>1. losses' \in 0 .. LossBound
    BY <1>2, LossAssumption DEF ClientInv, ClientTypes
  <2>2. link' \in BOOLEAN /\ subscribed' \in BOOLEAN
    BY <1>2 DEF ClientInv, ClientTypes
  <2>. QED
    BY <1>1, <2>1, <2>2 DEF ClientInv, ClientTypes, OneConnects, threadVars
<1>6. Counted' /\ CallbacksInPlace'
  BY <1>1, <1>2, LossAssumption DEF ClientInv, ClientTypes, Counted, CallbacksInPlace
<1>. QED
  BY <1>3, <1>4, <1>5, <1>6 DEF ClientInv

LEMMA ClientStep == ClientInv /\ [Next]_vars => ClientInv'
<1>1. ASSUME ClientInv, UNCHANGED vars PROVE ClientInv'
  <2>1. UNCHANGED <<main, printer, step, peripheral, entry, joined, threadVars, link, subscribed, losses>>
    BY <1>1 DEF vars, programVars, clientVars, linkVars
  <2>2. /\ Numbered' /\ Entries' = Entries /\ \A n : Ended(n)' = Ended(n)
    BY <1>1, <2>1, ThreadsFrame
  <2>3. JoinedEnded' /\ KnownThreadsEnd'
    BY <1>1, <2>1, <2>2 DEF ClientInv, JoinedEnded, KnownThreadsEnd
  <2>4. ClientTypes' /\ OneConnects' /\ Counted' /\ CallbacksInPlace'
    BY <1>1, <2>1 DEF ClientInv, ClientTypes, OneConnects, Counted, CallbacksInPlace, threadVars
  <2>. QED
    BY <2>2, <2>3, <2>4 DEF ClientInv
<1>. QED
  BY <1>1, ConnectKeeps, PrinterKeeps, MainKeeps, JoinThreadKeeps, ThreadsKeep, CarKeeps DEF Next, Leave

LEMMA ClientInvHolds == Spec => []ClientInv
BY ClientInit, ClientStep, PTL DEF Spec

\* The callbacks of a connection are in place before Connect returns, and nothing
\* connects but a thread inside Connect: the printing thread never finds the car
\* connected without them.
THEOREM CallbacksInPlaceHolds == Spec => []CallbacksInPlace
<1>1. ClientInv => CallbacksInPlace
  BY DEF ClientInv
<1>. QED
  BY <1>1, ClientInvHolds, PTL

\* A client that had found its car is destroyed only after the threads it
\* remembers have ended: what was joined has ended and starts no more.
THEOREM KnownThreadsEndHolds == Spec => []KnownThreadsEnd
<1>1. ClientInv => KnownThreadsEnd
  BY DEF ClientInv
<1>. QED
  BY <1>1, ClientInvHolds, PTL

-----------------------------------------------------------------------------
\* Reports are on their way in the order of their connections, and what is shown is
\* older than all of them.
ReportsInOrder ==
  /\ shown \in 0 .. entry
  /\ reports \in Seq(Nat)
  /\ \A i \in 1 .. Len(reports) : shown <= reports[i] /\ reports[i] <= entry
  /\ \A i \in 1 .. Len(reports) : \A j \in 1 .. i : reports[j] <= reports[i]

\* No step but those two touches the reports, and none forgets a connection.
LEMMA ReportsFrame ==
  ASSUME ClientInv, [Next]_vars, ~NotifyNewDistanceRead, ~RunAsync
  PROVE  UNCHANGED <<reports, shown>> /\ entry' >= entry /\ entry' \in Nat
<1>0. entry \in Nat
  BY LossAssumption DEF ClientInv, ClientTypes
<1>1. CASE InitRssiReadThread
  BY <1>0, <1>1, StartedIsEntry DEF InitRssiReadThread, reportVars, ClientInv
<1>2. CASE ChooseAdapter \/ Scan \/ Search \/ Attempt
  <2>1. UNCHANGED <<entry, reports, shown>>
    BY <1>2 DEF ChooseAdapter, Scan, Search, Attempt, clientVars, reportVars
  <2>. QED
    BY <1>0, <2>1
<1>3. CASE Verify \/ MapCharacteristics \/ AttachCallbacks
  <2>1. UNCHANGED <<entry, reports, shown>>
    BY <1>3 DEF Verify, MapCharacteristics, AttachCallbacks, clientVars, reportVars
  <2>. QED
    BY <1>0, <2>1
<1>4. CASE Printer \/ Leave
  BY <1>0, <1>4 DEF Printer, PrinterEnds, Reconnect, Leave, JoinPrinter, DisconnectPeripheral,
     StopThreads, JoinThread, ClientDestroyed, Exit, clientVars, reportVars
<1>5. CASE \/ Command \/ QuitKey \/ LinkLost \/ DeviceUpdated \/ KeepAliveEnds
           \/ \E i \in RssiThreads : RssiEnds(i)
  BY <1>0, <1>5 DEF Command, QuitKey, LinkLost, DeviceUpdated, KeepAliveEnds, RssiEnds, clientVars,
     reportVars
<1>6. CASE UNCHANGED vars
  BY <1>0, <1>6 DEF vars, clientVars, reportVars
<1>. QED
  BY <1>1, <1>2, <1>3, <1>4, <1>5, <1>6 DEF Next, Connect

LEMMA ReportsStep ==
  ASSUME ClientInv, ReportsInOrder, [Next]_vars
  PROVE  ReportsInOrder' /\ shown' >= shown
<1>0. entry \in Nat /\ shown \in Nat
  BY LossAssumption DEF ClientInv, ClientTypes, ReportsInOrder
<1>1. CASE NotifyNewDistanceRead
  <2>1. reports' = Append(reports, entry) /\ UNCHANGED <<shown, entry>>
    BY <1>1, StartedIsEntry DEF NotifyNewDistanceRead, clientVars, ClientInv
  <2>2. /\ reports' \in Seq(Nat) /\ Len(reports') = Len(reports) + 1
        /\ \A i \in 1 .. Len(reports) : reports'[i] = reports[i]
        /\ reports'[Len(reports) + 1] = entry
    BY <1>0, <2>1 DEF ReportsInOrder
  <2>3. \A i \in 1 .. Len(reports') : i \in 1 .. Len(reports) \/ i = Len(reports) + 1
    BY <2>2 DEF ReportsInOrder
  <2>4. \A i \in 1 .. Len(reports') : shown' <= reports'[i] /\ reports'[i] <= entry'
    BY <1>0, <2>1, <2>2, <2>3 DEF ReportsInOrder
  <2>5. \A i \in 1 .. Len(reports') : \A j \in 1 .. i : reports'[j] <= reports'[i]
    BY <1>0, <2>1, <2>2, <2>3 DEF ReportsInOrder
  <2>. QED
    BY <1>0, <2>1, <2>2, <2>4, <2>5 DEF ReportsInOrder
<1>2. CASE RunAsync
  <2>1. shown' = reports[1] /\ reports' = Tail(reports) /\ reports # <<>> /\ UNCHANGED entry
    BY <1>2 DEF RunAsync, clientVars, ReportsInOrder
  <2>2. /\ reports' \in Seq(Nat) /\ Len(reports') = Len(reports) - 1 /\ Len(reports) >= 1
        /\ \A i \in 1 .. Len(reports') : reports'[i] = reports[i + 1] /\ i + 1 \in 1 .. Len(reports)
    BY <2>1 DEF ReportsInOrder
  <2>3. shown' \in 0 .. entry' /\ shown' >= shown
    BY <1>0, <2>1, <2>2 DEF ReportsInOrder
  <2>4. \A i \in 1 .. Len(reports') : shown' <= reports'[i] /\ reports'[i] <= entry'
    BY <1>0, <2>1, <2>2 DEF ReportsInOrder
  <2>5. \A i \in 1 .. Len(reports') : \A j \in 1 .. i : reports'[j] <= reports'[i]
    <3>. SUFFICES ASSUME NEW i \in 1 .. Len(reports'), NEW j \in 1 .. i
                  PROVE  reports'[j] <= reports'[i]
      OBVIOUS
    <3>1. j \in 1 .. Len(reports') /\ j + 1 \in 1 .. i + 1 /\ i + 1 \in 1 .. Len(reports)
      BY <2>2 DEF ReportsInOrder
    <3>2. reports[j + 1] <= reports[i + 1]
      BY <3>1 DEF ReportsInOrder
    <3>. QED
      BY <2>2, <3>1, <3>2
  <2>. QED
    BY <2>2, <2>3, <2>4, <2>5 DEF ReportsInOrder
<1>3. CASE ~NotifyNewDistanceRead /\ ~RunAsync
  BY <1>0, <1>3, ReportsFrame DEF ReportsInOrder
<1>. QED
  BY <1>1, <1>2, <1>3

\* The distances shown are never followed by those of an earlier connection, however
\* late its reports are handled: the bus keeps their order, and a connection begins
\* only when the one before it can send no more.
ShownNeverGoesBack == [][shown' >= shown]_vars

THEOREM ShownNeverGoesBackHolds == Spec => ShownNeverGoesBack
<1>1. Init => ReportsInOrder
  BY DEF Init, ReportsInOrder, NoThread
<1>2. ReportsInOrder /\ ClientInv /\ [Next]_vars => ReportsInOrder'
  BY ReportsStep
<1>3. ReportsInOrder /\ ClientInv /\ [Next]_vars => [shown' >= shown]_vars
  BY ReportsStep
<1>. QED
  BY <1>1, <1>2, <1>3, ClientInvHolds, PTL DEF Spec, ShownNeverGoesBack
=============================================================================
