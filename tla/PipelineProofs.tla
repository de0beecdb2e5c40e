--------------------------- MODULE PipelineProofs ---------------------------
(***************************************************************************)
(* Proofs about Pipeline, for any number of workers, any capacities and    *)
(* any bounds.  The inductive invariant IInv is preserved conjunct by      *)
(* conjunct: one lemma for each, and in it one step for each goroutine.    *)
(***************************************************************************)
EXTENDS Pipeline, TLAPS

USE DEF vars, chanVars, ctxVars, srcVars, poolVars, ctrVars, anlVars, alertVars,
        Chan, Fwd, From, To, Stages, Proc,
        CanSend, Put, CanRecv, Take, Exhausted, Goto, Finish

\* Every channel has room for something.
LEMMA CapIsNat == \A c \in Chan : Cap[c] \in Nat \ {0}
  BY CapAssumption, SMT DEF Cap

\* A forwarder works between two of the channels.
LEMMA FwdChannels == \A f \in Fwd : From[f] \in Chan /\ To[f] \in Chan
  BY SMT

-----------------------------------------------------------------------------
(* The initial states. *)

\* The invariant holds before Run has started anything.
LEMMA InitIInv ==
  ASSUME Init
  PROVE  IInv
<1>. USE DEF Init
<1>1. TypeOK
  <2>1. PlacesOK
    BY ModesAssumption, SMT DEF PlacesOK, Labels
  <2>2. ChannelsOK
    BY CapIsNat, SMT DEF ChannelsOK
  <2>3. FlagsOK
    BY DEF FlagsOK
  <2>4. NumbersOK
    BY BoundsAssumption, WorkersAssumption, SMT DEF NumbersOK
  <2>. QED BY <2>1, <2>2, <2>3, <2>4 DEF TypeOK
<1>2. LinesConserved /\ BucketsConserved /\ AnomaliesConserved
  BY SMT DEF LinesConserved, LinesUnderWay, BucketsConserved, AnomaliesConserved, Held
<1>3. DrainOrder /\ NotStarted
  BY SMT DEF DrainOrder, NotStarted
<1>4. ClosedByOwner /\ AllDone
  BY SMT DEF ClosedByOwner, AllDone, Returned
<1>5. PoolState
  BY WorkersAssumption, SMT DEF PoolState
<1>6. CounterState
  BY SMT DEF CounterState
<1>. QED BY <1>1, <1>2, <1>3, <1>4, <1>5, <1>6 DEF IInv

-----------------------------------------------------------------------------
(* Every step preserves every conjunct. *)

\* The mode never changes and no goroutine leaves its labels.
LEMMA PlacesOKKept ==
  ASSUME IInv, [Next]_vars
  PROVE  PlacesOK'
<1>. USE DEF PlacesOK, Labels
<1>. PlacesOK
  BY DEF IInv, TypeOK
<1>1. CASE Preflight
  BY <1>1, SMT DEF Preflight, Entry
<1>2. CASE Return
  BY <1>2, SMT DEF Return
<1>3. CASE Cancel
  BY <1>3, SMT DEF Cancel
<1>4. CASE Append
  BY <1>4, SMT DEF Append
<1>5. CASE CloseStdin
  BY <1>5, SMT DEF CloseStdin
<1>6. CASE Tailer
  BY <1>6, SMT DEF Tailer, TailReturn, TailOpen, TailPoll, TailScan, TailGot, TailSend, TailDrained, TailStat, TailSleep
<1>7. CASE Pool
  BY <1>7, SMT DEF Pool, WorkerTake, WorkerAccept, WorkerReject, WorkerSend, WorkerQuit, PoolReturn, PoolClose
<1>8. CASE Counter
  BY <1>8, SMT DEF Counter, CtrAdd, CtrInClosed, CtrTick, CtrFlush, CtrStop, CtrDrained, CtrFinal
<1>9. CASE Analyzer
  BY <1>9, SMT DEF Analyzer, AnlTake, AnlEmit, AnlNext, AnlExit
<1>10. CASE Alert
  BY <1>10, SMT DEF Alert, AlertTake, AlertOK, AlertFail, AlertExit
<1>11. CASE Sampler
  BY <1>11, SMT DEF Sampler, SamplerExit
<1>12. ASSUME NEW f \in Fwd, Forward(f) PROVE PlacesOK'
  BY <1>12, SMT DEF Forward, FwdRecv, FwdSend, FwdExit
<1>13. CASE Terminated \/ UNCHANGED vars
  BY <1>13, SMT DEF Terminated
<1>. QED BY <1>1, <1>2, <1>3, <1>4, <1>5, <1>6, <1>7, <1>8, <1>9, <1>10, <1>11, <1>12, <1>13 DEF Next

\* A send waits for room and a receive for an item, so no length leaves its range.
LEMMA ChannelsOKKept ==
  ASSUME IInv, [Next]_vars
  PROVE  ChannelsOK'
<1>. USE DEF ChannelsOK
<1>. ChannelsOK
  BY DEF IInv, TypeOK
<1>1. CASE Preflight
  BY <1>1, CapIsNat, SMT DEF Preflight, Entry
<1>2. CASE Return
  BY <1>2, CapIsNat, SMT DEF Return
<1>3. CASE Cancel
  BY <1>3, CapIsNat, SMT DEF Cancel
<1>4. CASE Append
  BY <1>4, CapIsNat, SMT DEF Append
<1>5. CASE CloseStdin
  BY <1>5, CapIsNat, SMT DEF CloseStdin
<1>6. CASE Tailer
  BY <1>6, CapIsNat, SMT DEF Tailer, TailReturn, TailOpen, TailPoll, TailScan, TailGot, TailSend, TailDrained, TailStat, TailSleep
<1>7. CASE Pool
  BY <1>7, CapIsNat, SMT DEF Pool, WorkerTake, WorkerAccept, WorkerReject, WorkerSend, WorkerQuit, PoolReturn, PoolClose
<1>8. CASE Counter
  BY <1>8, CapIsNat, SMT DEF Counter, CtrAdd, CtrInClosed, CtrTick, CtrFlush, CtrStop, CtrDrained, CtrFinal
<1>9. CASE Analyzer
  BY <1>9, CapIsNat, SMT DEF Analyzer, AnlTake, AnlEmit, AnlNext, AnlExit
<1>10. CASE Alert
  BY <1>10, CapIsNat, SMT DEF Alert, AlertTake, AlertOK, AlertFail, AlertExit
<1>11. CASE Sampler
  BY <1>11, CapIsNat, SMT DEF Sampler, SamplerExit
<1>12. ASSUME NEW f \in Fwd, Forward(f) PROVE ChannelsOK'
  BY <1>12, CapIsNat, SMT DEF Forward, FwdRecv, FwdSend, FwdExit
<1>13. CASE Terminated \/ UNCHANGED vars
  BY <1>13, CapIsNat, SMT DEF Terminated
<1>. QED BY <1>1, <1>2, <1>3, <1>4, <1>5, <1>6, <1>7, <1>8, <1>9, <1>10, <1>11, <1>12, <1>13 DEF Next

\* Only channels are closed; the contexts, the source and the nil-ness of `in` are flags.
LEMMA FlagsOKKept ==
  ASSUME IInv, [Next]_vars
  PROVE  FlagsOK'
<1>. USE DEF FlagsOK
<1>. FlagsOK
  BY DEF IInv, TypeOK
<1>1. CASE Preflight
  BY <1>1 DEF Preflight, Entry
<1>2. CASE Return
  BY <1>2 DEF Return
<1>3. CASE Cancel
  BY <1>3 DEF Cancel
<1>4. CASE Append
  BY <1>4 DEF Append
<1>5. CASE CloseStdin
  BY <1>5 DEF CloseStdin
<1>6. CASE Tailer
  BY <1>6 DEF Tailer, TailReturn, TailOpen, TailPoll, TailScan, TailGot, TailSend, TailDrained, TailStat, TailSleep
<1>7. CASE Pool
  BY <1>7 DEF Pool, WorkerTake, WorkerAccept, WorkerReject, WorkerSend, WorkerQuit, PoolReturn, PoolClose
<1>8. CASE Counter
  BY <1>8 DEF Counter, CtrAdd, CtrInClosed, CtrTick, CtrFlush, CtrStop, CtrDrained, CtrFinal
<1>9. CASE Analyzer
  BY <1>9 DEF Analyzer, AnlTake, AnlEmit, AnlNext, AnlExit
<1>10. CASE Alert
  BY <1>10 DEF Alert, AlertTake, AlertOK, AlertFail, AlertExit
<1>11. CASE Sampler
  BY <1>11 DEF Sampler, SamplerExit
<1>12. ASSUME NEW f \in Fwd, Forward(f) PROVE FlagsOK'
  BY <1>12, FwdChannels DEF Forward, FwdRecv, FwdSend, FwdExit
<1>13. CASE Terminated \/ UNCHANGED vars
  BY <1>13 DEF Terminated
<1>. QED BY <1>1, <1>2, <1>3, <1>4, <1>5, <1>6, <1>7, <1>8, <1>9, <1>10, <1>11, <1>12, <1>13 DEF Next

\* No count of lines, workers, events, buckets or anomalies goes below zero.
LEMMA NumbersOKKept ==
  ASSUME IInv, [Next]_vars
  PROVE  NumbersOK'
<1>. USE DEF NumbersOK
<1>. NumbersOK
  BY DEF IInv, TypeOK
<1>1. CASE Preflight
  BY <1>1, BoundsAssumption, SMT DEF Preflight, Entry
<1>2. CASE Return
  BY <1>2, BoundsAssumption, SMT DEF Return
<1>3. CASE Cancel
  BY <1>3, BoundsAssumption, SMT DEF Cancel
<1>4. CASE Append
  BY <1>4, BoundsAssumption, SMT DEF Append
<1>5. CASE CloseStdin
  BY <1>5, BoundsAssumption, SMT DEF CloseStdin
<1>6. CASE Tailer
  BY <1>6, BoundsAssumption, SMT DEF Tailer, TailReturn, TailOpen, TailPoll, TailScan, TailGot, TailSend, TailDrained, TailStat, TailSleep
<1>7. CASE Pool
  BY <1>7, BoundsAssumption, SMT DEF Pool, WorkerTake, WorkerAccept, WorkerReject, WorkerSend, WorkerQuit, PoolReturn, PoolClose
<1>8. CASE Counter
  BY <1>8, BoundsAssumption, SMT DEF Counter, CtrAdd, CtrInClosed, CtrTick, CtrFlush, CtrStop, CtrDrained, CtrFinal
<1>9. CASE Analyzer
  BY <1>9, BoundsAssumption, SMT DEF Analyzer, AnlTake, AnlEmit, AnlNext, AnlExit
<1>10. CASE Alert
  BY <1>10, BoundsAssumption, SMT DEF Alert, AlertTake, AlertOK, AlertFail, AlertExit
<1>11. CASE Sampler
  BY <1>11, BoundsAssumption, SMT DEF Sampler, SamplerExit
<1>12. ASSUME NEW f \in Fwd, Forward(f) PROVE NumbersOK'
  BY <1>12, BoundsAssumption, SMT DEF Forward, FwdRecv, FwdSend, FwdExit
<1>13. CASE Terminated \/ UNCHANGED vars
  BY <1>13, BoundsAssumption, SMT DEF Terminated
<1>. QED BY <1>1, <1>2, <1>3, <1>4, <1>5, <1>6, <1>7, <1>8, <1>9, <1>10, <1>11, <1>12, <1>13 DEF Next

\* Every step moves a line from one place to the next, or lets one in at the tailer.
LEMMA LinesConservedKept ==
  ASSUME IInv, [Next]_vars
  PROVE  LinesConserved'
<1>. USE DEF PlacesOK, ChannelsOK, NumbersOK, LinesConserved, NotStarted, PoolState, LinesUnderWay, Held
<1>. PlacesOK /\ ChannelsOK /\ NumbersOK /\ LinesConserved /\ NotStarted /\ PoolState
  BY DEF IInv, TypeOK
<1>1. CASE Preflight
  BY <1>1, WorkersAssumption, SMT DEF Preflight, Entry
<1>2. CASE Return
  BY <1>2, WorkersAssumption, SMT DEF Return
<1>3. CASE Cancel
  BY <1>3, WorkersAssumption, SMT DEF Cancel
<1>4. CASE Append
  BY <1>4, WorkersAssumption, SMT DEF Append
<1>5. CASE CloseStdin
  BY <1>5, WorkersAssumption, SMT DEF CloseStdin
<1>6. CASE Tailer
  BY <1>6, WorkersAssumption, SMT DEF Tailer, TailReturn, TailOpen, TailPoll, TailScan, TailGot, TailSend, TailDrained, TailStat, TailSleep
<1>7. CASE Pool
  BY <1>7, WorkersAssumption, SMT DEF Pool, WorkerTake, WorkerAccept, WorkerReject, WorkerSend, WorkerQuit, PoolReturn, PoolClose
<1>8. CASE Counter
  BY <1>8, WorkersAssumption, SMT DEF Counter, CtrAdd, CtrInClosed, CtrTick, CtrFlush, CtrStop, CtrDrained, CtrFinal
<1>9. CASE Analyzer
  BY <1>9, WorkersAssumption, SMT DEF Analyzer, AnlTake, AnlEmit, AnlNext, AnlExit
<1>10. CASE Alert
  BY <1>10, WorkersAssumption, SMT DEF Alert, AlertTake, AlertOK, AlertFail, AlertExit
<1>11. CASE Sampler
  BY <1>11, WorkersAssumption, SMT DEF Sampler, SamplerExit
<1>12. ASSUME NEW f \in Fwd, Forward(f) PROVE LinesConserved'
  BY <1>12, WorkersAssumption, SMT DEF Forward, FwdRecv, FwdSend, FwdExit
<1>13. CASE Terminated \/ UNCHANGED vars
  BY <1>13, WorkersAssumption, SMT DEF Terminated
<1>. QED BY <1>1, <1>2, <1>3, <1>4, <1>5, <1>6, <1>7, <1>8, <1>9, <1>10, <1>11, <1>12, <1>13 DEF Next

\* The same of buckets, between the counter and the analyzer.
LEMMA BucketsConservedKept ==
  ASSUME IInv, [Next]_vars
  PROVE  BucketsConserved'
<1>. USE DEF PlacesOK, ChannelsOK, NumbersOK, BucketsConserved, NotStarted, Held
<1>. PlacesOK /\ ChannelsOK /\ NumbersOK /\ BucketsConserved /\ NotStarted
  BY DEF IInv, TypeOK
<1>1. CASE Preflight
  BY <1>1, WorkersAssumption, SMT DEF Preflight, Entry
<1>2. CASE Return
  BY <1>2, WorkersAssumption, SMT DEF Return
<1>3. CASE Cancel
  BY <1>3, WorkersAssumption, SMT DEF Cancel
<1>4. CASE Append
  BY <1>4, WorkersAssumption, SMT DEF Append
<1>5. CASE CloseStdin
  BY <1>5, WorkersAssumption, SMT DEF CloseStdin
<1>6. CASE Tailer
  BY <1>6, WorkersAssumption, SMT DEF Tailer, TailReturn, TailOpen, TailPoll, TailScan, TailGot, TailSend, TailDrained, TailStat, TailSleep
<1>7. CASE Pool
  BY <1>7, WorkersAssumption, SMT DEF Pool, WorkerTake, WorkerAccept, WorkerReject, WorkerSend, WorkerQuit, PoolReturn, PoolClose
<1>8. CASE Counter
  BY <1>8, WorkersAssumption, SMT DEF Counter, CtrAdd, CtrInClosed, CtrTick, CtrFlush, CtrStop, CtrDrained, CtrFinal
<1>9. CASE Analyzer
  BY <1>9, WorkersAssumption, SMT DEF Analyzer, AnlTake, AnlEmit, AnlNext, AnlExit
<1>10. CASE Alert
  BY <1>10, WorkersAssumption, SMT DEF Alert, AlertTake, AlertOK, AlertFail, AlertExit
<1>11. CASE Sampler
  BY <1>11, WorkersAssumption, SMT DEF Sampler, SamplerExit
<1>12. ASSUME NEW f \in Fwd, Forward(f) PROVE BucketsConserved'
  BY <1>12, WorkersAssumption, SMT DEF Forward, FwdRecv, FwdSend, FwdExit
<1>13. CASE Terminated \/ UNCHANGED vars
  BY <1>13, WorkersAssumption, SMT DEF Terminated
<1>. QED BY <1>1, <1>2, <1>3, <1>4, <1>5, <1>6, <1>7, <1>8, <1>9, <1>10, <1>11, <1>12, <1>13 DEF Next

\* The same of anomalies, between the analyzer and the outcome of Send.
LEMMA AnomaliesConservedKept ==
  ASSUME IInv, [Next]_vars
  PROVE  AnomaliesConserved'
<1>. USE DEF PlacesOK, ChannelsOK, NumbersOK, AnomaliesConserved, NotStarted, Held
<1>. PlacesOK /\ ChannelsOK /\ NumbersOK /\ AnomaliesConserved /\ NotStarted
  BY DEF IInv, TypeOK
<1>1. CASE Preflight
  BY <1>1, WorkersAssumption, SMT DEF Preflight, Entry
<1>2. CASE Return
  BY <1>2, WorkersAssumption, SMT DEF Return
<1>3. CASE Cancel
  BY <1>3, WorkersAssumption, SMT DEF Cancel
<1>4. CASE Append
  BY <1>4, WorkersAssumption, SMT DEF Append
<1>5. CASE CloseStdin
  BY <1>5, WorkersAssumption, SMT DEF CloseStdin
<1>6. CASE Tailer
  BY <1>6, WorkersAssumption, SMT DEF Tailer, TailReturn, TailOpen, TailPoll, TailScan, TailGot, TailSend, TailDrained, TailStat, TailSleep
<1>7. CASE Pool
  BY <1>7, WorkersAssumption, SMT DEF Pool, WorkerTake, WorkerAccept, WorkerReject, WorkerSend, WorkerQuit, PoolReturn, PoolClose
<1>8. CASE Counter
  BY <1>8, WorkersAssumption, SMT DEF Counter, CtrAdd, CtrInClosed, CtrTick, CtrFlush, CtrStop, CtrDrained, CtrFinal
<1>9. CASE Analyzer
  BY <1>9, WorkersAssumption, SMT DEF Analyzer, AnlTake, AnlEmit, AnlNext, AnlExit
<1>10. CASE Alert
  BY <1>10, WorkersAssumption, SMT DEF Alert, AlertTake, AlertOK, AlertFail, AlertExit
<1>11. CASE Sampler
  BY <1>11, WorkersAssumption, SMT DEF Sampler, SamplerExit
<1>12. ASSUME NEW f \in Fwd, Forward(f) PROVE AnomaliesConserved'
  BY <1>12, WorkersAssumption, SMT DEF Forward, FwdRecv, FwdSend, FwdExit
<1>13. CASE Terminated \/ UNCHANGED vars
  BY <1>13, WorkersAssumption, SMT DEF Terminated
<1>. QED BY <1>1, <1>2, <1>3, <1>4, <1>5, <1>6, <1>7, <1>8, <1>9, <1>10, <1>11, <1>12, <1>13 DEF Next

\* What is closed and empty stays so: only its owner could have refilled it, and the owner is done.
LEMMA DrainOrderKept ==
  ASSUME IInv, [Next]_vars
  PROVE  DrainOrder'
<1>. USE DEF PlacesOK, ChannelsOK, NumbersOK, DrainOrder, ClosedByOwner, PoolState, CounterState
<1>. PlacesOK /\ ChannelsOK /\ NumbersOK /\ DrainOrder /\ ClosedByOwner /\ PoolState /\ CounterState
  BY DEF IInv, TypeOK
<1>1. CASE Preflight
  BY <1>1, WorkersAssumption, SMT DEF Preflight, Entry
<1>2. CASE Return
  BY <1>2, WorkersAssumption, SMT DEF Return
<1>3. CASE Cancel
  BY <1>3, WorkersAssumption, SMT DEF Cancel
<1>4. CASE Append
  BY <1>4, WorkersAssumption, SMT DEF Append
<1>5. CASE CloseStdin
  BY <1>5, WorkersAssumption, SMT DEF CloseStdin
<1>6. CASE Tailer
  BY <1>6, WorkersAssumption, SMT DEF Tailer, TailReturn, TailOpen, TailPoll, TailScan, TailGot, TailSend, TailDrained, TailStat, TailSleep
<1>7. CASE Pool
  BY <1>7, WorkersAssumption, SMT DEF Pool, WorkerTake, WorkerAccept, WorkerReject, WorkerSend, WorkerQuit, PoolReturn, PoolClose
<1>8. CASE Counter
  BY <1>8, WorkersAssumption, SMT DEF Counter, CtrAdd, CtrInClosed, CtrTick, CtrFlush, CtrStop, CtrDrained, CtrFinal
<1>9. CASE Analyzer
  BY <1>9, WorkersAssumption, SMT DEF Analyzer, AnlTake, AnlEmit, AnlNext, AnlExit
<1>10. CASE Alert
  BY <1>10, WorkersAssumption, SMT DEF Alert, AlertTake, AlertOK, AlertFail, AlertExit
<1>11. CASE Sampler
  BY <1>11, WorkersAssumption, SMT DEF Sampler, SamplerExit
<1>12. ASSUME NEW f \in Fwd, Forward(f) PROVE DrainOrder'
  BY <1>12, WorkersAssumption, SMT DEF Forward, FwdRecv, FwdSend, FwdExit
<1>13. CASE Terminated \/ UNCHANGED vars
  BY <1>13, WorkersAssumption, SMT DEF Terminated
<1>. QED BY <1>1, <1>2, <1>3, <1>4, <1>5, <1>6, <1>7, <1>8, <1>9, <1>10, <1>11, <1>12, <1>13 DEF Next

\* Nothing moves before Preflight has started the goroutines.
LEMMA NotStartedKept ==
  ASSUME IInv, [Next]_vars
  PROVE  NotStarted'
<1>. USE DEF PlacesOK, ChannelsOK, NumbersOK, NotStarted, PoolState, ClosedByOwner
<1>. PlacesOK /\ ChannelsOK /\ NumbersOK /\ NotStarted /\ PoolState /\ ClosedByOwner
  BY DEF IInv, TypeOK
<1>1. CASE Preflight
  BY <1>1, WorkersAssumption, SMT DEF Preflight, Entry
<1>2. CASE Return
  BY <1>2, WorkersAssumption, SMT DEF Return
<1>3. CASE Cancel
  BY <1>3, WorkersAssumption, SMT DEF Cancel
<1>4. CASE Append
  BY <1>4, WorkersAssumption, SMT DEF Append
<1>5. CASE CloseStdin
  BY <1>5, WorkersAssumption, SMT DEF CloseStdin
<1>6. CASE Tailer
  BY <1>6, WorkersAssumption, SMT DEF Tailer, TailReturn, TailOpen, TailPoll, TailScan, TailGot, TailSend, TailDrained, TailStat, TailSleep
<1>7. CASE Pool
  BY <1>7, WorkersAssumption, SMT DEF Pool, WorkerTake, WorkerAccept, WorkerReject, WorkerSend, WorkerQuit, PoolReturn, PoolClose
<1>8. CASE Counter
  BY <1>8, WorkersAssumption, SMT DEF Counter, CtrAdd, CtrInClosed, CtrTick, CtrFlush, CtrStop, CtrDrained, CtrFinal
<1>9. CASE Analyzer
  BY <1>9, WorkersAssumption, SMT DEF Analyzer, AnlTake, AnlEmit, AnlNext, AnlExit
<1>10. CASE Alert
  BY <1>10, WorkersAssumption, SMT DEF Alert, AlertTake, AlertOK, AlertFail, AlertExit
<1>11. CASE Sampler
  BY <1>11, WorkersAssumption, SMT DEF Sampler, SamplerExit
<1>12. ASSUME NEW f \in Fwd, Forward(f) PROVE NotStarted'
  BY <1>12, WorkersAssumption, SMT DEF Forward, FwdRecv, FwdSend, FwdExit
<1>13. CASE Terminated \/ UNCHANGED vars
  BY <1>13, WorkersAssumption, SMT DEF Terminated
<1>. QED BY <1>1, <1>2, <1>3, <1>4, <1>5, <1>6, <1>7, <1>8, <1>9, <1>10, <1>11, <1>12, <1>13 DEF Next

\* A goroutine closes its channel when it returns, and no other does.
LEMMA ClosedByOwnerKept ==
  ASSUME IInv, [Next]_vars
  PROVE  ClosedByOwner'
<1>. USE DEF PlacesOK, ChannelsOK, NumbersOK, ClosedByOwner, NotStarted, DrainOrder
<1>. PlacesOK /\ ChannelsOK /\ NumbersOK /\ ClosedByOwner /\ NotStarted /\ DrainOrder
  BY DEF IInv, TypeOK
<1>1. CASE Preflight
  BY <1>1, WorkersAssumption, SMT DEF Preflight, Entry
<1>2. CASE Return
  BY <1>2, WorkersAssumption, SMT DEF Return
<1>3. CASE Cancel
  BY <1>3, WorkersAssumption, SMT DEF Cancel
<1>4. CASE Append
  BY <1>4, WorkersAssumption, SMT DEF Append
<1>5. CASE CloseStdin
  BY <1>5, WorkersAssumption, SMT DEF CloseStdin
<1>6. CASE Tailer
  BY <1>6, WorkersAssumption, SMT DEF Tailer, TailReturn, TailOpen, TailPoll, TailScan, TailGot, TailSend, TailDrained, TailStat, TailSleep
<1>7. CASE Pool
  BY <1>7, WorkersAssumption, SMT DEF Pool, WorkerTake, WorkerAccept, WorkerReject, WorkerSend, WorkerQuit, PoolReturn, PoolClose
<1>8. CASE Counter
  BY <1>8, WorkersAssumption, SMT DEF Counter, CtrAdd, CtrInClosed, CtrTick, CtrFlush, CtrStop, CtrDrained, CtrFinal
<1>9. CASE Analyzer
  BY <1>9, WorkersAssumption, SMT DEF Analyzer, AnlTake, AnlEmit, AnlNext, AnlExit
<1>10. CASE Alert
  BY <1>10, WorkersAssumption, SMT DEF Alert, AlertTake, AlertOK, AlertFail, AlertExit
<1>11. CASE Sampler
  BY <1>11, WorkersAssumption, SMT DEF Sampler, SamplerExit
<1>12. ASSUME NEW f \in Fwd, Forward(f) PROVE ClosedByOwner'
  BY <1>12, WorkersAssumption, SMT DEF Forward, FwdRecv, FwdSend, FwdExit
<1>13. CASE Terminated \/ UNCHANGED vars
  BY <1>13, WorkersAssumption, SMT DEF Terminated
<1>. QED BY <1>1, <1>2, <1>3, <1>4, <1>5, <1>6, <1>7, <1>8, <1>9, <1>10, <1>11, <1>12, <1>13 DEF Next

\* A worker is lost only to ctx or to the end of its input, and the pool waits for them all.
LEMMA PoolStateKept ==
  ASSUME IInv, [Next]_vars
  PROVE  PoolState'
<1>. USE DEF PlacesOK, ChannelsOK, NumbersOK, PoolState, ClosedByOwner, NotStarted, DrainOrder
<1>. PlacesOK /\ ChannelsOK /\ NumbersOK /\ PoolState /\ ClosedByOwner /\ NotStarted /\ DrainOrder
  BY DEF IInv, TypeOK
<1>1. CASE Preflight
  BY <1>1, WorkersAssumption, SMT DEF Preflight, Entry
<1>2. CASE Return
  BY <1>2, WorkersAssumption, SMT DEF Return
<1>3. CASE Cancel
  BY <1>3, WorkersAssumption, SMT DEF Cancel
<1>4. CASE Append
  BY <1>4, WorkersAssumption, SMT DEF Append
<1>5. CASE CloseStdin
  BY <1>5, WorkersAssumption, SMT DEF CloseStdin
<1>6. CASE Tailer
  BY <1>6, WorkersAssumption, SMT DEF Tailer, TailReturn, TailOpen, TailPoll, TailScan, TailGot, TailSend, TailDrained, TailStat, TailSleep
<1>7. CASE Pool
  BY <1>7, WorkersAssumption, SMT DEF Pool, WorkerTake, WorkerAccept, WorkerReject, WorkerSend, WorkerQuit, PoolReturn, PoolClose
<1>8. CASE Counter
  BY <1>8, WorkersAssumption, SMT DEF Counter, CtrAdd, CtrInClosed, CtrTick, CtrFlush, CtrStop, CtrDrained, CtrFinal
<1>9. CASE Analyzer
  BY <1>9, WorkersAssumption, SMT DEF Analyzer, AnlTake, AnlEmit, AnlNext, AnlExit
<1>10. CASE Alert
  BY <1>10, WorkersAssumption, SMT DEF Alert, AlertTake, AlertOK, AlertFail, AlertExit
<1>11. CASE Sampler
  BY <1>11, WorkersAssumption, SMT DEF Sampler, SamplerExit
<1>12. ASSUME NEW f \in Fwd, Forward(f) PROVE PoolState'
  BY <1>12, WorkersAssumption, SMT DEF Forward, FwdRecv, FwdSend, FwdExit
<1>13. CASE Terminated \/ UNCHANGED vars
  BY <1>13, WorkersAssumption, SMT DEF Terminated
<1>. QED BY <1>1, <1>2, <1>3, <1>4, <1>5, <1>6, <1>7, <1>8, <1>9, <1>10, <1>11, <1>12, <1>13 DEF Next

\* The counter's context is cancelled by ctx or by the pool, and the counter stops after it.
LEMMA CounterStateKept ==
  ASSUME IInv, [Next]_vars
  PROVE  CounterState'
<1>. USE DEF PlacesOK, ChannelsOK, NumbersOK, CounterState, PoolState, ClosedByOwner, NotStarted, DrainOrder
<1>. PlacesOK /\ ChannelsOK /\ NumbersOK /\ CounterState /\ PoolState /\ ClosedByOwner /\ NotStarted /\ DrainOrder
  BY DEF IInv, TypeOK
<1>1. CASE Preflight
  BY <1>1, WorkersAssumption, SMT DEF Preflight, Entry
<1>2. CASE Return
  BY <1>2, WorkersAssumption, SMT DEF Return
<1>3. CASE Cancel
  BY <1>3, WorkersAssumption, SMT DEF Cancel
<1>4. CASE Append
  BY <1>4, WorkersAssumption, SMT DEF Append
<1>5. CASE CloseStdin
  BY <1>5, WorkersAssumption, SMT DEF CloseStdin
<1>6. CASE Tailer
  BY <1>6, WorkersAssumption, SMT DEF Tailer, TailReturn, TailOpen, TailPoll, TailScan, TailGot, TailSend, TailDrained, TailStat, TailSleep
<1>7. CASE Pool
  BY <1>7, WorkersAssumption, SMT DEF Pool, WorkerTake, WorkerAccept, WorkerReject, WorkerSend, WorkerQuit, PoolReturn, PoolClose
<1>8. CASE Counter
  BY <1>8, WorkersAssumption, SMT DEF Counter, CtrAdd, CtrInClosed, CtrTick, CtrFlush, CtrStop, CtrDrained, CtrFinal
<1>9. CASE Analyzer
  BY <1>9, WorkersAssumption, SMT DEF Analyzer, AnlTake, AnlEmit, AnlNext, AnlExit
<1>10. CASE Alert
  BY <1>10, WorkersAssumption, SMT DEF Alert, AlertTake, AlertOK, AlertFail, AlertExit
<1>11. CASE Sampler
  BY <1>11, WorkersAssumption, SMT DEF Sampler, SamplerExit
<1>12. ASSUME NEW f \in Fwd, Forward(f) PROVE CounterState'
  BY <1>12, WorkersAssumption, SMT DEF Forward, FwdRecv, FwdSend, FwdExit
<1>13. CASE Terminated \/ UNCHANGED vars
  BY <1>13, WorkersAssumption, SMT DEF Terminated
<1>. QED BY <1>1, <1>2, <1>3, <1>4, <1>5, <1>6, <1>7, <1>8, <1>9, <1>10, <1>11, <1>12, <1>13 DEF Next

\* Run returns after every goroutine.
LEMMA AllDoneKept ==
  ASSUME IInv, [Next]_vars
  PROVE  AllDone'
<1>. USE DEF PlacesOK, ChannelsOK, NumbersOK, AllDone, Returned
<1>. PlacesOK /\ ChannelsOK /\ NumbersOK /\ AllDone
  BY DEF IInv, TypeOK
<1>1. CASE Preflight
  BY <1>1, WorkersAssumption, SMT DEF Preflight, Entry
<1>2. CASE Return
  BY <1>2, WorkersAssumption, SMT DEF Return
<1>3. CASE Cancel
  BY <1>3, WorkersAssumption, SMT DEF Cancel
<1>4. CASE Append
  BY <1>4, WorkersAssumption, SMT DEF Append
<1>5. CASE CloseStdin
  BY <1>5, WorkersAssumption, SMT DEF CloseStdin
<1>6. CASE Tailer
  BY <1>6, WorkersAssumption, SMT DEF Tailer, TailReturn, TailOpen, TailPoll, TailScan, TailGot, TailSend, TailDrained, TailStat, TailSleep
<1>7. CASE Pool
  BY <1>7, WorkersAssumption, SMT DEF Pool, WorkerTake, WorkerAccept, WorkerReject, WorkerSend, WorkerQuit, PoolReturn, PoolClose
<1>8. CASE Counter
  BY <1>8, WorkersAssumption, SMT DEF Counter, CtrAdd, CtrInClosed, CtrTick, CtrFlush, CtrStop, CtrDrained, CtrFinal
<1>9. CASE Analyzer
  BY <1>9, WorkersAssumption, SMT DEF Analyzer, AnlTake, AnlEmit, AnlNext, AnlExit
<1>10. CASE Alert
  BY <1>10, WorkersAssumption, SMT DEF Alert, AlertTake, AlertOK, AlertFail, AlertExit
<1>11. CASE Sampler
  BY <1>11, WorkersAssumption, SMT DEF Sampler, SamplerExit
<1>12. ASSUME NEW f \in Fwd, Forward(f) PROVE AllDone'
  BY <1>12, WorkersAssumption, SMT DEF Forward, FwdRecv, FwdSend, FwdExit
<1>13. CASE Terminated \/ UNCHANGED vars
  BY <1>13, WorkersAssumption, SMT DEF Terminated
<1>. QED BY <1>1, <1>2, <1>3, <1>4, <1>5, <1>6, <1>7, <1>8, <1>9, <1>10, <1>11, <1>12, <1>13 DEF Next

-----------------------------------------------------------------------------
(* The theorems. *)

\* Every step keeps the whole of the invariant: the lemmas above, put together.
LEMMA StepIInv ==
  ASSUME IInv, [Next]_vars
  PROVE  IInv'
<1>1. TypeOK'
  BY PlacesOKKept, ChannelsOKKept, FlagsOKKept, NumbersOKKept DEF TypeOK
<1>2. LinesConserved' /\ BucketsConserved' /\ AnomaliesConserved'
  BY LinesConservedKept, BucketsConservedKept, AnomaliesConservedKept
<1>3. DrainOrder' /\ NotStarted' /\ ClosedByOwner'
  BY DrainOrderKept, NotStartedKept, ClosedByOwnerKept
<1>4. PoolState' /\ CounterState' /\ AllDone'
  BY PoolStateKept, CounterStateKept, AllDoneKept
<1>. QED BY <1>1, <1>2, <1>3, <1>4 DEF IInv

\* The inductive invariant holds throughout every behaviour of the pipeline,
\* whatever the number of workers and the capacities of the channels.
THEOREM Invariance == Spec => []IInv
<1>1. Init => IInv
  BY InitIInv
<1>2. IInv /\ [Next]_vars => IInv'
  BY StepIInv
<1>. QED BY <1>1, <1>2, PTL DEF Spec

\* Type correctness: in particular no channel ever holds more than its capacity.
THEOREM TypeCorrect == Spec => []TypeOK
<1>1. IInv => TypeOK
  BY DEF IInv
<1>. QED BY <1>1, Invariance, PTL

\* No goroutine of the pipeline ever sends on a closed channel, so no run of it
\* ends in that panic.
THEOREM NoPanic == Spec => []NoSendOnClosed
<1>1. IInv => NoSendOnClosed
  <2>. SUFFICES ASSUME IInv PROVE NoSendOnClosed
    OBVIOUS
  <2>. ClosedByOwner /\ PoolState /\ CounterState /\ NumbersOK
    BY DEF IInv, TypeOK
  <2>. QED BY SMT DEF ClosedByOwner, PoolState, CounterState, NumbersOK, NoSendOnClosed
<1>. QED BY <1>1, Invariance, PTL

\* When Run returns, lines are missing from the buckets only if they are left in
\* raw (and then ctx was cancelled) or in evt; no bucket and no anomaly is left.
THEOREM Settlement == Spec => []SettledAtReturn
<1>1. IInv => SettledAtReturn
  <2>. SUFFICES ASSUME IInv, Returned PROVE
         /\ scanned = rejected + counted + buf["raw"] + buf["evt"]
         /\ ctx \/ buf["raw"] = 0
         /\ flushed = evaluated
         /\ emitted = delivered + failed
    BY DEF SettledAtReturn
  <2>1. \A p \in Stages : pc[p] = "done"
    BY DEF IInv, AllDone
  <2>2. /\ buf["instrRaw"] = 0 /\ buf["instrEvt"] = 0 /\ buf["instrCnt"] = 0
        /\ buf["cnt"] = 0 /\ buf["anom"] = 0
        /\ sending = 0
        /\ ctx \/ buf["raw"] = 0
    BY <2>1, SMT DEF IInv, DrainOrder, ClosedByOwner, PoolState
  <2>3. \A p \in Stages : Held(p) = 0
    BY <2>1 DEF Held
  <2>. QED
    BY <2>2, <2>3, SMT DEF IInv, TypeOK, ChannelsOK, NumbersOK, LinesConserved,
       LinesUnderWay, BucketsConserved, AnomaliesConserved
<1>. QED BY <1>1, Invariance, PTL

\* The pipeline implements the contract on lines: each is settled at most once,
\* and nothing happens to any line after Run has returned.
THEOREM Implements == Spec => FlowSpec
<1>. USE DEF Flow!flowVars
<1>1. Init => Flow!FlowInit
  BY SMT DEF Init, Flow!FlowInit
<1>2. IInv /\ [Next]_vars => [Flow!FlowNext]_(Flow!flowVars)
  <2>. SUFFICES ASSUME IInv, [Next]_vars
                PROVE  [Flow!FlowNext]_(Flow!flowVars)
    OBVIOUS
  <2>. USE DEF Flow!FlowNext, Flow!Read, Flow!Reject, Flow!Count, Flow!End, Flow!Unsettled
  <2>0. /\ PlacesOK /\ ChannelsOK /\ NumbersOK
        /\ LinesConserved /\ NotStarted /\ PoolState /\ AllDone
    BY DEF IInv, TypeOK
  <2>1. CASE Preflight
    BY <2>0, <2>1, SMT DEF PlacesOK, Preflight, Entry
  <2>2. CASE Return
    BY <2>0, <2>2, SMT DEF PlacesOK, Return
  <2>3. CASE Cancel \/ Append \/ CloseStdin
    BY <2>3, SMT DEF Cancel, Append, CloseStdin
  <2>4. CASE Tailer
    BY <2>0, <2>4, SMT DEF PlacesOK, NotStarted, AllDone, Returned, Tailer, TailReturn,
       TailOpen, TailPoll, TailScan, TailGot, TailSend, TailDrained, TailStat, TailSleep
  <2>5. CASE Pool
    <3>1. pc["main"] \notin {"returned", "failed"}
      BY <2>0, <2>5, SMT DEF NotStarted, AllDone, Returned, PoolState, NumbersOK, Pool,
         WorkerTake, WorkerSend, WorkerQuit, PoolReturn, PoolClose
    <3>2. pc'["main"] = pc["main"]
      BY <2>0, <2>5, SMT DEF PlacesOK, Pool, WorkerTake, WorkerSend, WorkerQuit, PoolReturn, PoolClose
    <3>3. CanRecv("raw") => rejected + counted < scanned
      BY <2>0, SMT DEF ChannelsOK, NumbersOK, LinesConserved, LinesUnderWay, Held
    <3>. QED
      BY <2>5, <3>1, <3>2, <3>3, SMT DEF Pool, WorkerTake, WorkerAccept, WorkerReject,
         WorkerSend, WorkerQuit, PoolReturn, PoolClose
  <2>6. CASE Counter
    <3>1. pc["main"] \notin {"returned", "failed"}
      BY <2>0, <2>6, SMT DEF NotStarted, AllDone, Returned, Counter, CtrAdd, CtrInClosed,
         CtrTick, CtrFlush, CtrStop, CtrDrained, CtrFinal
    <3>2. pc'["main"] = pc["main"]
      BY <2>0, <2>6, SMT DEF PlacesOK, Counter, CtrAdd, CtrInClosed, CtrTick, CtrFlush,
         CtrStop, CtrDrained, CtrFinal
    <3>3. CanRecv("evt") => rejected + counted < scanned
      BY <2>0, SMT DEF ChannelsOK, NumbersOK, LinesConserved, LinesUnderWay, Held
    <3>. QED
      BY <2>6, <3>1, <3>2, <3>3, SMT DEF Counter, CtrAdd, CtrInClosed, CtrTick, CtrFlush,
         CtrStop, CtrDrained, CtrFinal
  <2>7. CASE Analyzer
    BY <2>0, <2>7, SMT DEF PlacesOK, Analyzer, AnlTake, AnlEmit, AnlNext, AnlExit
  <2>8. CASE Alert
    BY <2>0, <2>8, SMT DEF PlacesOK, Alert, AlertTake, AlertOK, AlertFail, AlertExit
  <2>9. CASE Sampler
    BY <2>0, <2>9, SMT DEF PlacesOK, Sampler, SamplerExit
  <2>10. ASSUME NEW f \in Fwd, Forward(f) PROVE [Flow!FlowNext]_(Flow!flowVars)
    BY <2>0, <2>10, SMT DEF PlacesOK, Forward, FwdRecv, FwdSend, FwdExit
  <2>11. CASE Terminated \/ UNCHANGED vars
    BY <2>11, SMT DEF Terminated
  <2>. QED
    BY <2>1, <2>2, <2>3, <2>4, <2>5, <2>6, <2>7, <2>8, <2>9, <2>10, <2>11 DEF Next
<1>. QED BY <1>1, <1>2, Invariance, PTL DEF Spec, FlowSpec, Flow!FlowSpec

-----------------------------------------------------------------------------
(* Where the pipeline can stand still. *)

\* The labels of each goroutine; "off" only until Preflight has started it.
Places ==
  /\ pc["main"] \in {"preflight", "wait", "returned", "failed"}
  /\ pc["tailer"] \in {"off", "open", "poll", "scan", "got", "send", "stat", "sleep", "done"}
  /\ \A f \in Fwd : pc[f] \in {"off", "recv", "send", "done"}
  /\ pc["pool"] \in {"off", "run", "close", "done"}
  /\ pc["counter"] \in {"off", "select", "flush", "drain", "final", "done"}
  /\ pc["analyzer"] \in {"off", "recv", "eval", "done"}
  /\ pc["alert"] \in {"off", "recv", "send", "done"}
  /\ pc["sampler"] \in {"off", "run", "done"}
  /\ pc["main"] = "wait" => \A p \in Stages : pc[p] # "off"

\* Each goroutine moves among its own labels and none is switched off again.
LEMMA PlacesKept ==
  ASSUME PlacesOK, Places, [Next]_vars
  PROVE  Places'
<1>. USE DEF PlacesOK, Places
<1>1. CASE Preflight
  BY <1>1, SMT DEF Preflight, Entry
<1>2. CASE Return
  BY <1>2, SMT DEF Return
<1>3. CASE Cancel \/ Append \/ CloseStdin
  BY <1>3, SMT DEF Cancel, Append, CloseStdin
<1>6. CASE Tailer
  BY <1>6, SMT DEF Tailer, TailReturn, TailOpen, TailPoll, TailScan, TailGot, TailSend, TailDrained, TailStat, TailSleep
<1>7. CASE Pool
  BY <1>7, SMT DEF Pool, WorkerTake, WorkerAccept, WorkerReject, WorkerSend, WorkerQuit, PoolReturn, PoolClose
<1>8. CASE Counter
  BY <1>8, SMT DEF Counter, CtrAdd, CtrInClosed, CtrTick, CtrFlush, CtrStop, CtrDrained, CtrFinal
<1>9. CASE Analyzer
  BY <1>9, SMT DEF Analyzer, AnlTake, AnlEmit, AnlNext, AnlExit
<1>10. CASE Alert
  BY <1>10, SMT DEF Alert, AlertTake, AlertOK, AlertFail, AlertExit
<1>11. CASE Sampler
  BY <1>11, SMT DEF Sampler, SamplerExit
<1>12. ASSUME NEW f \in Fwd, Forward(f) PROVE Places'
  BY <1>12, SMT DEF Forward, FwdRecv, FwdSend, FwdExit
<1>13. CASE Terminated \/ UNCHANGED vars
  BY <1>13, SMT DEF Terminated
<1>. QED BY <1>1, <1>2, <1>3, <1>6, <1>7, <1>8, <1>9, <1>10, <1>11, <1>12, <1>13 DEF Next

\* So each goroutine is always at a label of its own.
LEMMA AtPlaces == Spec => []Places
<1>1. Init => Places
  BY SMT DEF Init, Places
<1>2. IInv /\ Places /\ [Next]_vars => Places'
  BY PlacesKept DEF IInv, TypeOK
<1>. QED BY <1>1, <1>2, Invariance, PTL DEF Spec

\* Run is waiting and the counter's context is cancelled: ctx was, or the pool
\* is through with every line.
Stopping == pc["main"] = "wait" /\ ctrCtx

(* When each goroutine can take a step: the guards of its actions, joined. *)

TailerReady ==
  \/ pc["tailer"] \in {"open", "poll", "got", "stat", "sleep"}
  \/ pc["tailer"] = "scan" /\ (unread > 0 \/ mode # "stdin" \/ ~srcOpen \/ Faults)
  \/ pc["tailer"] = "send" /\ CanSend("instrRaw")

ForwardReady(f) ==
  \/ pc[f] = "recv" /\ (CanRecv(From[f]) \/ Exhausted(From[f]))
  \/ pc[f] = "send" /\ CanSend(To[f])

PoolReady ==
  \/ pc["pool"] = "run" /\ idle > 0 /\ (CanRecv("raw") \/ ctx \/ Exhausted("raw"))
  \/ sending > 0 /\ CanSend("instrEvt")
  \/ pc["pool"] = "run" /\ idle = 0 /\ sending = 0
  \/ pc["pool"] = "close"

CounterReady ==
  \/ pc["counter"] = "select" /\
       (ctrCtx \/ ticks < MaxTicks \/ (inOpen /\ (CanRecv("evt") \/ Exhausted("evt"))))
  \/ pc["counter"] = "drain"
  \/ pc["counter"] \in {"flush", "final"} /\ CanSend("instrCnt")

AnalyzerReady ==
  \/ pc["analyzer"] = "recv" /\ (CanRecv("cnt") \/ Exhausted("cnt"))
  \/ pc["analyzer"] = "eval" /\ (firing = 0 \/ CanSend("anom"))

AlertReady ==
  \/ pc["alert"] = "recv" /\ (CanRecv("anom") \/ Exhausted("anom"))
  \/ pc["alert"] = "send"

SamplerReady == pc["sampler"] = "run" /\ (ctx \/ pc["alert"] = "done")

RunReady == \A p \in Stages : pc[p] = "done"

\* The stages from the counter on.
BackReady == CounterReady \/ ForwardReady("fwdCnt") \/ AnalyzerReady \/ AlertReady

\* Once stopping, the back half never stands still before the alert loop has ended.
BackNotBlocked == Stopping => BackReady \/ pc["alert"] = "done"

\* Once stopping, the pipeline stands still in no state but the three named ones.
NotBlocked ==
  Stopping =>
    \/ TailerReady \/ PoolReady \/ BackReady \/ SamplerReady \/ RunReady
    \/ \E f \in Fwd : ForwardReady(f)
    \/ StuckOnEvt \/ StuckOnRaw \/ StuckOnStdin

\* A back half that cannot move has nothing to move: each of its stages in turn
\* would have room for what the one before it holds.
LEMMA BackMoves ==
  ASSUME IInv, Places, Stopping, ~BackReady
  PROVE  pc["alert"] = "done"
<1>. SUFFICES ASSUME pc["alert"] # "done" PROVE FALSE
  OBVIOUS
<1>0. ChannelsOK /\ NumbersOK /\ ClosedByOwner
  BY DEF IInv, TypeOK
<1>1. \A c \in Chan : buf[c] \in Nat /\ Cap[c] \in Nat \ {0}
  BY <1>0, CapIsNat DEF ChannelsOK
<1>2. pc["alert"] = "recv" /\ ~CanRecv("anom") /\ ~Exhausted("anom")
  BY SMT DEF Places, Stopping, BackReady, AlertReady
<1>3. pc["analyzer"] # "done" /\ CanSend("anom")
  BY <1>0, <1>1, <1>2, SMT DEF ClosedByOwner
<1>4. pc["analyzer"] = "recv" /\ ~CanRecv("cnt") /\ ~Exhausted("cnt")
  BY <1>3, SMT DEF Places, Stopping, BackReady, AnalyzerReady
<1>5. pc["fwdCnt"] # "done" /\ CanSend("cnt")
  BY <1>0, <1>1, <1>4, SMT DEF ClosedByOwner
<1>6. pc["fwdCnt"] = "recv" /\ ~CanRecv("instrCnt") /\ ~Exhausted("instrCnt")
  BY <1>5, SMT DEF Places, Stopping, BackReady, ForwardReady
<1>7. pc["counter"] # "done" /\ CanSend("instrCnt")
  BY <1>0, <1>1, <1>6, SMT DEF ClosedByOwner
<1>. QED BY <1>7, SMT DEF Places, Stopping, BackReady, CounterReady

\* Likewise the front half: whoever cannot move there waits, through the stages
\* behind it, for a channel that nobody reads any more, or on stdin.
LEMMA FrontMoves ==
  ASSUME IInv, Places, Stopping, ~BackReady,
         ~TailerReady, ~PoolReady, ~SamplerReady, ~RunReady,
         \A f \in Fwd : ~ForwardReady(f)
  PROVE  StuckOnEvt \/ StuckOnRaw \/ StuckOnStdin
<1>. SUFFICES ASSUME ~StuckOnEvt, ~StuckOnRaw, ~StuckOnStdin PROVE FALSE
  OBVIOUS
<1>0. PlacesOK /\ ChannelsOK /\ NumbersOK /\ ClosedByOwner /\ DrainOrder
  BY DEF IInv, TypeOK
<1>1. \A c \in Chan : buf[c] \in Nat /\ buf[c] <= Cap[c] /\ Cap[c] \in Nat \ {0}
  BY <1>0, CapIsNat DEF ChannelsOK
<1>2. pc["alert"] = "done"
  BY BackMoves
<1>3. pc["analyzer"] = "done" /\ pc["fwdCnt"] = "done" /\ pc["counter"] = "done"
  BY <1>0, <1>2, SMT DEF DrainOrder, ClosedByOwner
<1>4. pc["sampler"] = "done"
  BY <1>2, SMT DEF Places, Stopping, SamplerReady
<1>5. pc["fwdEvt"] = "done" \/ (pc["fwdEvt"] = "recv" /\ buf["instrEvt"] = 0 /\ "instrEvt" \notin closed)
  BY <1>1, <1>3, SMT DEF Places, Stopping, ForwardReady, StuckOnEvt
<1>6. CanSend("instrEvt")
  BY <1>0, <1>1, <1>5, SMT DEF DrainOrder, ClosedByOwner
<1>7. pc["pool"] = "done" \/ (pc["pool"] = "run" /\ buf["raw"] = 0 /\ "raw" \notin closed)
  BY <1>0, <1>1, <1>6, SMT DEF NumbersOK, Places, Stopping, PoolReady
<1>8. pc["fwdRaw"] = "done" \/ (pc["fwdRaw"] = "recv" /\ buf["instrRaw"] = 0 /\ "instrRaw" \notin closed)
  BY <1>1, <1>7, SMT DEF Places, Stopping, ForwardReady, StuckOnRaw
<1>9. CanSend("instrRaw")
  BY <1>0, <1>1, <1>8, SMT DEF DrainOrder, ClosedByOwner
<1>10. pc["tailer"] = "done"
  BY <1>0, <1>9, SMT DEF NumbersOK, Places, Stopping, TailerReady, StuckOnStdin
<1>11. pc["fwdRaw"] = "done"
  BY <1>0, <1>8, <1>10, SMT DEF ClosedByOwner
<1>12. pc["pool"] = "done"
  BY <1>0, <1>7, <1>11, SMT DEF ClosedByOwner
<1>13. pc["fwdEvt"] = "done"
  BY <1>0, <1>5, <1>12, SMT DEF ClosedByOwner
<1>. QED BY <1>2, <1>3, <1>4, <1>10, <1>11, <1>12, <1>13, SMT DEF RunReady

\* Once the pipeline is stopping the stages from the counter on are never all
\* blocked before the alert loop has ended, whatever the front half does
\* (pipeline.go:206-209).
THEOREM BackHalfFree == Spec => []BackNotBlocked
<1>1. IInv /\ Places => BackNotBlocked
  BY BackMoves DEF BackNotBlocked
<1>. QED BY <1>1, Invariance, AtPlaces, PTL

\* Once the pipeline is stopping somebody can always move, Run itself included,
\* except in the three states of HangsOnlyThere: an item in the hand of fwdEvt
\* or of fwdRaw before a full channel nobody reads, or a read of an open stdin.
THEOREM OnlyThere == Spec => []NotBlocked
<1>1. IInv /\ Places => NotBlocked
  BY FrontMoves DEF NotBlocked
<1>. QED BY <1>1, Invariance, AtPlaces, PTL

-----------------------------------------------------------------------------
(* The work left, once the pipeline is stopping. *)

One(b) == IF b THEN 1 ELSE 0

\* The steps the tailer has before it returns: ten for a line, since what is
\* read goes on to cost a step at every stage, and less for what it has in hand.
TailerLeft ==
  IF pc["tailer"] \in {"scan", "got", "send"}
  THEN 4 + 10 * unread + 9 * One(pc["tailer"] = "got") + 8 * One(pc["tailer"] = "send")
  ELSE One(pc["tailer"] = "poll") + 2 * One(pc["tailer"] \in {"open", "sleep"}) + 3 * One(pc["tailer"] = "stat")

\* A forwarder's return, and w for the item in its hand.
FwdLeft(f, w) == One(pc[f] # "done") + w * One(pc[f] = "send")

\* One return for each worker, the two steps of the pool, and five for each event
\* in hand: its send, and the steps of the stages behind.
PoolLeft == idle + 5 * sending + One(pc["pool"] # "done") + One(pc["pool"] = "run")

\* The counter's way to its return; after a flush it comes back to the select.
CounterLeft ==
  4 * One(pc["counter"] = "final") + 5 * One(pc["counter"] = "drain") + 6 * One(pc["counter"] = "select")
    + 10 * One(pc["counter"] = "flush") + One(inOpen)

\* The front half, from the tailer to the channel the analyzer reads, in order.
Tailing == One(~ctx) + One(srcOpen) + TailerLeft + 7 * buf["instrRaw"]
Parsing == FwdLeft("fwdRaw", 6) + 5 * buf["raw"] + PoolLeft + 3 * buf["instrEvt"]
Counting == FwdLeft("fwdEvt", 2) + buf["evt"] + CounterLeft + 3 * buf["instrCnt"]
Handing == FwdLeft("fwdCnt", 2) + buf["cnt"]
Front == Tailing + Parsing + Counting + Handing

\* The back half: evaluations, anomalies, the alert loop, the sampler and Run.
Back ==
  One(pc["analyzer"] # "done") + One(pc["analyzer"] = "eval") + 3 * firing + 2 * buf["anom"]
    + One(pc["alert"] # "done") + One(pc["alert"] = "send") + One(pc["sampler"] # "done") + One(pc["main"] = "wait")

\* The front half loses a step, or it stays as it is and the back half does.
Closer == Front' < Front \/ (Front' = Front /\ Back' < Back)

\* Once stopping, every step but a tick and a line that others append is a step
\* closer to the end.
WindsDown == [][Stopping => Append \/ CtrTick \/ Closer]_vars

\* The counter's context is cancelled before ctx only by a pool that has seen the
\* end of its input, and that end begins with the tailer's return.
LEMMA TailerGone ==
  ASSUME IInv, Stopping, ~ctx
  PROVE  pc["tailer"] = "done"
<1>0. CounterState /\ PoolState /\ DrainOrder /\ ClosedByOwner
  BY DEF IInv
<1>1. pc["pool"] \in {"close", "done"}
  BY <1>0 DEF CounterState, Stopping
<1>2. Exhausted("raw")
  BY <1>0, <1>1, WorkersAssumption, SMT DEF PoolState
<1>. QED BY <1>0, <1>2, SMT DEF DrainOrder, ClosedByOwner

\* Every part of the measure is a natural number.
Segments ==
  /\ TailerLeft \in Nat /\ PoolLeft \in Nat /\ CounterLeft \in Nat
  /\ Tailing \in Nat /\ Parsing \in Nat /\ Counting \in Nat /\ Handing \in Nat

\* No part of the measure is ever negative.
LEMMA LeftIsNat ==
  ASSUME TypeOK
  PROVE  Segments /\ Front \in Nat /\ Back \in Nat
<1>0. NumbersOK
  BY DEF TypeOK
<1>1. \A c \in Chan : buf[c] \in Nat
  BY DEF TypeOK, ChannelsOK
<1>2. TailerLeft \in Nat
  BY <1>0, SMT DEF NumbersOK, TailerLeft, One
<1>3. PoolLeft \in Nat
  BY <1>0, SMT DEF NumbersOK, PoolLeft, One
<1>4. CounterLeft \in Nat
  BY SMT DEF CounterLeft, One
<1>5. FwdLeft("fwdRaw", 6) \in Nat /\ FwdLeft("fwdEvt", 2) \in Nat /\ FwdLeft("fwdCnt", 2) \in Nat
  BY SMT DEF FwdLeft, One
<1>6. Tailing \in Nat
  BY <1>1, <1>2, SMT DEF Tailing, One
<1>7. Parsing \in Nat
  BY <1>1, <1>3, <1>5, SMT DEF Parsing
<1>8. Counting \in Nat /\ Handing \in Nat
  BY <1>1, <1>4, <1>5, SMT DEF Counting, Handing
<1>9. Front \in Nat
  BY <1>6, <1>7, <1>8, SMT DEF Front
<1>10. Back \in Nat
  BY <1>0, <1>1, SMT DEF NumbersOK, Back, One
<1>. QED BY <1>2, <1>3, <1>4, <1>6, <1>7, <1>8, <1>9, <1>10 DEF Segments

\* The same in the next state.
LEMMA LeftIsNatNext == TypeOK' => (Segments /\ Front \in Nat /\ Back \in Nat)'
<1>1. TypeOK => Segments /\ Front \in Nat /\ Back \in Nat
  BY LeftIsNat
<1>. QED BY <1>1, PTL

\* What the arithmetic of a step needs to know of both its states.
LEMMA NatsKept ==
  ASSUME IInv, Next
  PROVE  Segments /\ Segments' /\ \A c \in Chan : buf[c] \in Nat /\ buf'[c] \in Nat
<1>1. Segments /\ Segments'
  BY StepIInv, LeftIsNat, LeftIsNatNext DEF IInv
<1>2. ChannelsOK /\ ChannelsOK'
  BY ChannelsOKKept DEF IInv, TypeOK
<1>. QED BY <1>1, <1>2 DEF ChannelsOK

\* With ctx cancelled the tailer passes the top of its loop no more, so what it
\* still reads is what its scanner finds before the end of the file.
LEMMA TailerWindsDown ==
  ASSUME IInv, Stopping, Tailer
  PROVE  Tailing' < Tailing /\ Parsing' = Parsing /\ Counting' = Counting /\ Handing' = Handing
<1>0. PlacesOK /\ ChannelsOK /\ NumbersOK
  BY DEF IInv, TypeOK
<1>. USE DEF PlacesOK, ChannelsOK, NumbersOK, Tailing, TailerLeft, One
<1>1. pc["tailer"] # "done"
  BY SMT DEF Tailer, TailOpen, TailPoll, TailScan, TailGot, TailSend, TailDrained, TailStat, TailSleep
<1>2. ctx
  BY <1>1, TailerGone
<1>3. TailOpen \/ TailPoll \/ TailStat \/ TailSleep => Tailing' < Tailing
  BY <1>0, <1>2, SMT DEF Tailer, TailReturn, TailOpen, TailPoll, TailStat, TailSleep
<1>4. TailScan => Tailing' < Tailing
  BY <1>0, SMT DEF Tailer, TailScan
<1>5. TailGot \/ TailDrained => Tailing' < Tailing
  BY <1>0, <1>2, SMT DEF Tailer, TailReturn, TailGot, TailDrained
<1>6. TailSend => Tailing' < Tailing
  BY <1>0, SMT DEF Tailer, TailSend
<1>7. Tailing' < Tailing
  BY <1>3, <1>4, <1>5, <1>6 DEF Tailer
<1>8. /\ \A p \in Proc \ {"tailer"} : pc'[p] = pc[p]
      /\ \A c \in Chan \ {"instrRaw"} : buf'[c] = buf[c]
      /\ UNCHANGED <<poolVars, ctrVars>>
  BY <1>0, SMT DEF Tailer, TailReturn, TailOpen, TailPoll, TailScan, TailGot, TailSend, TailDrained, TailStat, TailSleep
<1>9. Parsing' = Parsing
  BY <1>8, SMT DEF Parsing, FwdLeft, PoolLeft
<1>10. Counting' = Counting
  BY <1>8, SMT DEF Counting, FwdLeft, CounterLeft
<1>11. Handing' = Handing
  BY <1>8, SMT DEF Handing, FwdLeft
<1>. QED BY <1>7, <1>9, <1>10, <1>11

\* Each step of the pool takes a line, hands an event on, or retires a worker.
LEMMA PoolWindsDown ==
  ASSUME IInv, Stopping, Pool
  PROVE  Tailing' = Tailing /\ Parsing' < Parsing /\ Counting' = Counting /\ Handing' = Handing
<1>0. PlacesOK /\ ChannelsOK /\ NumbersOK /\ PoolState /\ CounterState
  BY DEF IInv, TypeOK
<1>1. FwdLeft("fwdRaw", 6)' = FwdLeft("fwdRaw", 6)
  BY <1>0, SMT DEF PlacesOK, FwdLeft, Pool, WorkerTake, WorkerSend, WorkerQuit, PoolReturn, PoolClose
<1>2. FwdLeft("fwdRaw", 6) \in Nat
  BY SMT DEF FwdLeft, One
<1>3. PoolLeft' + 5 * buf'["raw"] + 3 * buf'["instrEvt"] < PoolLeft + 5 * buf["raw"] + 3 * buf["instrEvt"]
  <2>. USE <1>0 DEF PlacesOK, ChannelsOK, NumbersOK, PoolLeft, One
  <2>1. CASE WorkerTake
    BY <2>1, SMT DEF WorkerTake, WorkerAccept, WorkerReject
  <2>2. CASE WorkerSend
    BY <2>2, SMT DEF WorkerSend
  <2>3. CASE WorkerQuit
    BY <2>3, SMT DEF WorkerQuit
  <2>4. CASE PoolReturn \/ PoolClose
    BY <2>4, SMT DEF PoolReturn, PoolClose
  <2>. QED BY <2>1, <2>2, <2>3, <2>4 DEF Pool
<1>4. /\ PoolLeft \in Nat /\ PoolLeft' \in Nat
      /\ buf["raw"] \in Nat /\ buf'["raw"] \in Nat /\ buf["instrEvt"] \in Nat /\ buf'["instrEvt"] \in Nat
  BY NatsKept, SMT DEF Next, Segments
<1>5. Parsing' < Parsing
  BY <1>1, <1>2, <1>3, <1>4, SMT DEF Parsing
<1>6. /\ \A p \in Proc \ {"pool"} : pc'[p] = pc[p]
      /\ \A c \in Chan \ {"raw", "instrEvt"} : buf'[c] = buf[c]
      /\ UNCHANGED <<srcVars, ctrVars>>
      /\ ctx' = ctx
  BY <1>0, SMT DEF PlacesOK, ChannelsOK, Pool, WorkerTake, WorkerSend, WorkerQuit, PoolReturn, PoolClose
<1>7. Tailing' = Tailing
  BY <1>6, SMT DEF Tailing, TailerLeft
<1>8. Counting' = Counting
  BY <1>6, SMT DEF Counting, FwdLeft, CounterLeft
<1>9. Handing' = Handing
  BY <1>6, SMT DEF Handing, FwdLeft
<1>. QED BY <1>5, <1>7, <1>8, <1>9

\* Each step of the counter but a tick takes an event, sends a bucket, or
\* brings it closer to its return.
LEMMA CounterWindsDown ==
  ASSUME IInv, Stopping, Counter, ~CtrTick
  PROVE  Tailing' = Tailing /\ Parsing' = Parsing /\ Counting' < Counting /\ Handing' = Handing
<1>0. PlacesOK /\ ChannelsOK /\ NumbersOK
  BY DEF IInv, TypeOK
<1>1. FwdLeft("fwdEvt", 2)' = FwdLeft("fwdEvt", 2)
  BY <1>0, SMT DEF PlacesOK, FwdLeft, Counter, CtrAdd, CtrInClosed, CtrTick, CtrFlush, CtrStop, CtrDrained, CtrFinal
<1>2. FwdLeft("fwdEvt", 2) \in Nat
  BY SMT DEF FwdLeft, One
<1>3. buf'["evt"] + CounterLeft' + 3 * buf'["instrCnt"] < buf["evt"] + CounterLeft + 3 * buf["instrCnt"]
  <2>. USE <1>0 DEF PlacesOK, ChannelsOK, CounterLeft, One
  <2>1. CASE CtrAdd
    BY <2>1, SMT DEF CtrAdd
  <2>2. CASE CtrInClosed
    BY <2>2, SMT DEF CtrInClosed
  <2>3. CASE CtrFlush
    BY <2>3, SMT DEF CtrFlush
  <2>4. CASE CtrStop \/ CtrDrained
    BY <2>4, SMT DEF CtrStop, CtrDrained
  <2>5. CASE CtrFinal
    BY <2>5, SMT DEF CtrFinal
  <2>. QED BY <2>1, <2>2, <2>3, <2>4, <2>5 DEF Counter
<1>4. /\ CounterLeft \in Nat /\ CounterLeft' \in Nat
      /\ buf["evt"] \in Nat /\ buf'["evt"] \in Nat /\ buf["instrCnt"] \in Nat /\ buf'["instrCnt"] \in Nat
  BY NatsKept, SMT DEF Next, Segments
<1>5. Counting' < Counting
  BY <1>1, <1>2, <1>3, <1>4, SMT DEF Counting
<1>6. /\ \A p \in Proc \ {"counter"} : pc'[p] = pc[p]
      /\ \A c \in Chan \ {"evt", "instrCnt"} : buf'[c] = buf[c]
      /\ UNCHANGED <<ctxVars, srcVars, poolVars>>
  BY <1>0, SMT DEF PlacesOK, ChannelsOK, Counter, CtrAdd, CtrInClosed, CtrTick, CtrFlush, CtrStop, CtrDrained, CtrFinal
<1>7. Tailing' = Tailing
  BY <1>6, SMT DEF Tailing, TailerLeft
<1>8. Parsing' = Parsing
  BY <1>6, SMT DEF Parsing, FwdLeft, PoolLeft
<1>9. Handing' = Handing
  BY <1>6, SMT DEF Handing, FwdLeft
<1>. QED BY <1>5, <1>7, <1>8, <1>9

\* One part of the front half shrinks and the others stay: the sum shrinks.
LEMMA FrontDown ==
  ASSUME Segments, Segments',
         \/ Tailing' < Tailing /\ Parsing' = Parsing /\ Counting' = Counting
         \/ Tailing' = Tailing /\ Parsing' < Parsing /\ Counting' = Counting
         \/ Tailing' = Tailing /\ Parsing' = Parsing /\ Counting' < Counting,
         Handing' = Handing
  PROVE  Front' < Front
<1>. DEFINE t == Tailing  p == Parsing  c == Counting  h == Handing
             T == Tailing'  P == Parsing'  C == Counting'  H == Handing'
<1>1. t \in Nat /\ p \in Nat /\ c \in Nat /\ h \in Nat /\ T \in Nat /\ P \in Nat /\ C \in Nat /\ H \in Nat
  BY DEF Segments
<1>2. \/ T < t /\ P = p /\ C = c
      \/ T = t /\ P < p /\ C = c
      \/ T = t /\ P = p /\ C < c
  OBVIOUS
<1>3. Front = t + p + c + h /\ Front' = T + P + C + H /\ H = h
  BY DEF Front
<1>4. T + P + C + H < t + p + c + h
  <2>. HIDE DEF t, p, c, h, T, P, C, H
  <2>. QED BY <1>1, <1>2, <1>3, SMT
<1>. QED BY <1>3, <1>4

\* A forwarder's receive frees more than it takes in hand, and its send likewise.
LEMMA ForwardWindsDown ==
  ASSUME IInv, Stopping, NEW f \in Fwd, Forward(f)
  PROVE  Front' < Front
<1>0. PlacesOK /\ ChannelsOK
  BY DEF IInv, TypeOK
<1>1. Segments /\ Segments'
  BY NatsKept DEF Next
<1>2. /\ \A p \in Proc \ {f} : pc'[p] = pc[p]
      /\ \A c \in Chan \ {From[f], To[f]} : buf'[c] = buf[c]
      /\ UNCHANGED <<ctxVars, srcVars, poolVars, ctrVars>>
  BY <1>0, SMT DEF PlacesOK, ChannelsOK, Forward, FwdRecv, FwdSend, FwdExit
<1>3. \/ /\ pc[f] = "recv" /\ pc'[f] = "send"
         /\ buf'[From[f]] = buf[From[f]] - 1 /\ buf'[To[f]] = buf[To[f]]
      \/ /\ pc[f] = "send" /\ pc'[f] = "recv"
         /\ buf'[From[f]] = buf[From[f]] /\ buf'[To[f]] = buf[To[f]] + 1
      \/ /\ pc[f] = "recv" /\ pc'[f] = "done"
         /\ buf'[From[f]] = buf[From[f]] /\ buf'[To[f]] = buf[To[f]]
  BY <1>0, SMT DEF PlacesOK, ChannelsOK, Forward, FwdRecv, FwdSend, FwdExit
<1>4. TailerLeft' = TailerLeft /\ PoolLeft' = PoolLeft /\ CounterLeft' = CounterLeft
  BY <1>2, SMT DEF TailerLeft, PoolLeft, CounterLeft
<1>5. /\ TailerLeft \in Nat /\ PoolLeft \in Nat /\ CounterLeft \in Nat
      /\ \A c \in Chan : buf[c] \in Nat
  BY LeftIsNat, SMT DEF IInv, TypeOK, ChannelsOK, Segments
<1>6. CASE f = "fwdRaw"
  <2>1. Counting' = Counting /\ Handing' = Handing
    BY <1>2, <1>4, <1>6, SMT DEF Counting, Handing, FwdLeft
  <2>2. CASE buf'["instrRaw"] = buf["instrRaw"] - 1
    <3>1. Tailing' = Tailing - 7
      BY <1>2, <1>4, <1>5, <2>2, SMT DEF Tailing, One
    <3>2. Parsing' = Parsing + 6
      BY <1>2, <1>3, <1>4, <1>5, <1>6, <2>2, SMT DEF Parsing, FwdLeft, One
    <3>. QED BY <1>1, <2>1, <3>1, <3>2, SMT DEF Front, Segments
  <2>3. CASE buf'["instrRaw"] = buf["instrRaw"]
    <3>1. Tailing' = Tailing
      BY <1>2, <1>4, <1>5, <2>3, SMT DEF Tailing, One
    <3>2. Parsing' = Parsing - 1
      BY <1>2, <1>3, <1>4, <1>5, <1>6, <2>3, SMT DEF Parsing, FwdLeft, One
    <3>. QED BY <1>1, <2>1, <3>1, <3>2, SMT DEF Front, Segments
  <2>. QED BY <1>3, <1>6, <2>2, <2>3
<1>7. CASE f = "fwdEvt"
  <2>1. Tailing' = Tailing /\ Handing' = Handing
    BY <1>2, <1>4, <1>7, SMT DEF Tailing, Handing, FwdLeft
  <2>2. CASE buf'["instrEvt"] = buf["instrEvt"] - 1
    <3>1. Parsing' = Parsing - 3
      BY <1>2, <1>4, <1>5, <1>7, <2>2, SMT DEF Parsing, FwdLeft, One
    <3>2. Counting' = Counting + 2
      BY <1>2, <1>3, <1>4, <1>5, <1>7, <2>2, SMT DEF Counting, FwdLeft, One
    <3>. QED BY <1>1, <2>1, <3>1, <3>2, SMT DEF Front, Segments
  <2>3. CASE buf'["instrEvt"] = buf["instrEvt"]
    <3>1. Parsing' = Parsing
      BY <1>2, <1>4, <1>5, <1>7, <2>3, SMT DEF Parsing, FwdLeft, One
    <3>2. Counting' = Counting - 1
      BY <1>2, <1>3, <1>4, <1>5, <1>7, <2>3, SMT DEF Counting, FwdLeft, One
    <3>. QED BY <1>1, <2>1, <3>1, <3>2, SMT DEF Front, Segments
  <2>. QED BY <1>3, <1>7, <2>2, <2>3
<1>8. CASE f = "fwdCnt"
  <2>1. Tailing' = Tailing /\ Parsing' = Parsing
    BY <1>2, <1>4, <1>8, SMT DEF Tailing, Parsing, FwdLeft
  <2>2. CASE buf'["instrCnt"] = buf["instrCnt"] - 1
    <3>1. Counting' = Counting - 3
      BY <1>2, <1>4, <1>5, <1>8, <2>2, SMT DEF Counting, FwdLeft, One
    <3>2. Handing' = Handing + 2
      BY <1>2, <1>3, <1>4, <1>5, <1>8, <2>2, SMT DEF Handing, FwdLeft, One
    <3>. QED BY <1>1, <2>1, <3>1, <3>2, SMT DEF Front, Segments
  <2>3. CASE buf'["instrCnt"] = buf["instrCnt"]
    <3>1. Counting' = Counting
      BY <1>2, <1>4, <1>5, <1>8, <2>3, SMT DEF Counting, FwdLeft, One
    <3>2. Handing' = Handing - 1
      BY <1>2, <1>3, <1>4, <1>5, <1>8, <2>3, SMT DEF Handing, FwdLeft, One
    <3>. QED BY <1>1, <2>1, <3>1, <3>2, SMT DEF Front, Segments
  <2>. QED BY <1>3, <1>8, <2>2, <2>3
<1>. QED BY <1>6, <1>7, <1>8

\* Receiving a bucket shrinks the front half, whatever the rules then say; every
\* other step of the back half shrinks the back half and leaves the front alone.
LEMMA BackWindsDown ==
  ASSUME IInv, Stopping, Analyzer \/ Alert \/ Sampler \/ Return
  PROVE  Closer
<1>0. PlacesOK /\ ChannelsOK /\ NumbersOK /\ CounterState
  BY DEF IInv, TypeOK
<1>1. Segments /\ Segments'
  BY NatsKept DEF Next
<1>2. /\ \A p \in Proc \ {"analyzer", "alert", "sampler", "main"} : pc'[p] = pc[p]
      /\ \A c \in Chan \ {"cnt", "anom"} : buf'[c] = buf[c]
      /\ UNCHANGED <<ctxVars, srcVars, poolVars, ctrVars>>
  BY <1>0, SMT DEF PlacesOK, ChannelsOK, Analyzer, AnlTake, AnlEmit, AnlNext, AnlExit, Alert, AlertTake, AlertOK, AlertFail, AlertExit, Sampler, SamplerExit, Return
<1>3. Tailing' = Tailing
  BY <1>2, SMT DEF Tailing, TailerLeft
<1>4. Parsing' = Parsing
  BY <1>2, SMT DEF Parsing, FwdLeft, PoolLeft
<1>5. Counting' = Counting
  BY <1>2, SMT DEF Counting, FwdLeft, CounterLeft
<1>6. ASSUME buf'["cnt"] = buf["cnt"]
      PROVE  Front' = Front
  <2>1. Handing' = Handing
    BY <1>2, <1>6, SMT DEF Handing, FwdLeft
  <2>. QED BY <1>3, <1>4, <1>5, <2>1 DEF Front
<1>. USE DEF PlacesOK, ChannelsOK, NumbersOK, Closer, One
<1>7. CASE Analyzer /\ AnlTake
  <2>1. buf'["cnt"] = buf["cnt"] - 1 /\ buf["cnt"] \in Nat
    BY <1>0, <1>7, SMT DEF AnlTake
  <2>2. Handing' = Handing - 1
    BY <1>2, <2>1, SMT DEF Handing, FwdLeft
  <2>. QED BY <1>1, <1>3, <1>4, <1>5, <2>2, SMT DEF Front, Segments
<1>8. CASE Analyzer /\ (AnlEmit \/ AnlNext \/ AnlExit)
  <2>1. buf'["cnt"] = buf["cnt"]
    BY <1>0, <1>8, SMT DEF AnlEmit, AnlNext, AnlExit
  <2>2. UNCHANGED alertVars /\ \A p \in {"alert", "sampler", "main"} : pc'[p] = pc[p]
    BY <1>0, <1>8, SMT DEF Analyzer, AnlEmit, AnlNext, AnlExit
  <2>3. AnlEmit => Back' < Back
    BY <1>0, <2>2, SMT DEF Back, AnlEmit
  <2>4. AnlNext => Back' < Back
    BY <1>0, <2>2, SMT DEF Back, AnlNext
  <2>5. AnlExit => Back' < Back
    BY <1>0, <2>2, SMT DEF Back, AnlExit
  <2>. QED BY <1>6, <1>8, <2>1, <2>3, <2>4, <2>5
<1>9. CASE Alert
  <2>1. buf'["cnt"] = buf["cnt"]
    BY <1>0, <1>9, SMT DEF Alert, AlertTake, AlertOK, AlertFail, AlertExit
  <2>2. Back' < Back
    BY <1>0, <1>9, SMT DEF Back, Alert, AlertTake, AlertOK, AlertFail, AlertExit
  <2>. QED BY <1>6, <2>1, <2>2
<1>10. CASE Sampler \/ Return
  <2>1. buf'["cnt"] = buf["cnt"]
    BY <1>10, SMT DEF Sampler, Return
  <2>2. Back' < Back
    BY <1>0, <1>10, SMT DEF Back, Sampler, SamplerExit, Return
  <2>. QED BY <1>6, <2>1, <2>2
<1>. QED BY <1>7, <1>8, <1>9, <1>10 DEF Analyzer

\* ctx is cancelled once, and the other end of stdin is closed once.
LEMMA EndingWindsDown ==
  ASSUME IInv, Stopping, Cancel \/ CloseStdin
  PROVE  Front' < Front
<1>1. Segments /\ Segments'
  BY NatsKept DEF Next
<1>2. UNCHANGED <<pc, buf, unread, idle, sending, inOpen>>
  BY SMT DEF Cancel, CloseStdin
<1>3. TailerLeft' = TailerLeft /\ PoolLeft' = PoolLeft /\ CounterLeft' = CounterLeft
  BY <1>2 DEF TailerLeft, PoolLeft, CounterLeft
<1>4. Parsing' = Parsing /\ Counting' = Counting /\ Handing' = Handing
  BY <1>2, <1>3 DEF Parsing, Counting, Handing, FwdLeft
<1>5. TailerLeft \in Nat /\ buf["instrRaw"] \in Nat
  BY LeftIsNat, SMT DEF IInv, TypeOK, ChannelsOK, Segments
<1>6. Tailing' < Tailing
  BY <1>2, <1>3, <1>5, SMT DEF Tailing, One, Cancel, CloseStdin
<1>. QED BY <1>1, <1>4, <1>6, FrontDown

\* Every step of the pipeline, put together.
LEMMA WindsDownStep ==
  ASSUME IInv, Stopping, Next
  PROVE  Append \/ CtrTick \/ Closer \/ UNCHANGED vars
<1>1. Segments /\ Segments'
  BY NatsKept DEF Next
<1>2. CASE Cancel \/ CloseStdin
  BY <1>2, EndingWindsDown DEF Closer
<1>3. CASE Tailer
  BY <1>1, <1>3, FrontDown, TailerWindsDown DEF Closer
<1>4. CASE Pool
  BY <1>1, <1>4, FrontDown, PoolWindsDown DEF Closer
<1>5. CASE Counter /\ ~CtrTick
  BY <1>1, <1>5, FrontDown, CounterWindsDown DEF Closer
<1>6. ASSUME NEW f \in Fwd, Forward(f) PROVE Closer
  BY <1>6, ForwardWindsDown DEF Closer
<1>7. CASE Analyzer \/ Alert \/ Sampler \/ Return
  BY <1>7, BackWindsDown
<1>8. ~Preflight
  BY SMT DEF Preflight, Stopping
<1>. QED BY <1>2, <1>3, <1>4, <1>5, <1>6, <1>7, <1>8 DEF Next, Terminated

\* Once the pipeline is stopping, its goroutines can only take a bounded number
\* of steps between two ticks or appended lines: nothing circulates, no retry,
\* no livelock. Each step makes the pair (Front, Back) of natural numbers smaller
\* in the order of pairs.
THEOREM WindingDown == Spec => [](Front \in Nat /\ Back \in Nat) /\ WindsDown
<1>1. IInv => Front \in Nat /\ Back \in Nat
  BY LeftIsNat DEF IInv
<1>2. IInv /\ [Next]_vars => [Stopping => Append \/ CtrTick \/ Closer]_vars
  BY WindsDownStep
<1>. QED BY <1>1, <1>2, Invariance, PTL DEF Spec, WindsDown
=============================================================================
