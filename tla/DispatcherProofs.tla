-------------------------- MODULE DispatcherProofs --------------------------
(***************************************************************************)
(* Proofs about Dispatcher, for every set of runs, agents and clients and  *)
(* every retention time: the inductive invariant IInv and the properties   *)
(* of the session table that it implies.                                   *)
(***************************************************************************)
EXTENDS Dispatcher, TLAPS

(* handleAgentFindPath. *)
LEMMA FindPathKeepsInv ==
  ASSUME IInv, NEW r \in Runs, FindPathStep(r) PROVE IInv'
<1> USE DispatcherAssumption DEF table, request, comm, stopping, lookups
<1>1. CASE FindPath(r)
  <2>1. CASE state = "Running"
    <3>1. TypeOK'
      <4>1. stage' \in [Runs -> Stages]
        BY <1>1, <2>1 DEF IInv, TypeOK, Stages, FindPath, Goto
      <4>2. UNCHANGED <<state, tab, results, timers, latest, now, id, prev,
          expiry, life, cancelled, err, shutdown, comms, todo, aim, client,
          answer, absent, renewed>>
        BY <1>1, <2>1 DEF FindPath, Goto
      <4> QED BY <4>1, <4>2 DEF IInv, TypeOK
    <3>2. StageInv'
      BY <1>1, <2>1 DEF IInv, TypeOK, StageInv, FindPath, Goto
    <3>3. TabInv'
      BY <1>1, <2>1 DEF IInv, TypeOK, TabInv, Owning, FindPath, Goto
    <3>4. ExpiryInv'
      BY <1>1, <2>1 DEF IInv, TypeOK, ExpiryInv, FindPath, Goto
    <3>5. NoOrphanRun'
      BY <1>1, <2>1 DEF IInv, TypeOK, NoOrphanRun, Targeted, FindPath, Goto
    <3>6. RetainedUntilExpiry'
      BY <1>1, <2>1 DEF IInv, TypeOK, RetainedUntilExpiry, Unexpired, FindPath,
          Goto
    <3>7. ShutdownInv' /\ LookupInv' /\ ResultOfLatestRun' /\ StoppedIsEmpty' /\
        NotFoundIsJustified'
      BY <1>1, <2>1 DEF IInv, ShutdownInv, LookupInv, Looking,
          ResultOfLatestRun, StoppedIsEmpty, NotFoundIsJustified, FindPath, Goto
    <3> QED BY <3>1, <3>2, <3>3, <3>4, <3>5, <3>6, <3>7 DEF IInv
  <2>2. CASE state # "Running"
    <3>1. TypeOK'
      <4>1. stage' \in [Runs -> Stages]
        BY <1>1, <2>2 DEF IInv, TypeOK, Stages, FindPath, Goto
      <4>2. UNCHANGED <<state, tab, results, timers, latest, now, id, prev,
          expiry, life, cancelled, err, shutdown, comms, todo, aim, client,
          answer, absent, renewed>>
        BY <1>1, <2>2 DEF FindPath, Goto
      <4> QED BY <4>1, <4>2 DEF IInv, TypeOK
    <3>2. StageInv'
      BY <1>1, <2>2 DEF IInv, TypeOK, StageInv, FindPath, Goto
    <3>3. TabInv'
      BY <1>1, <2>2 DEF IInv, TypeOK, TabInv, Owning, FindPath, Goto
    <3>4. ExpiryInv'
      BY <1>1, <2>2 DEF IInv, TypeOK, ExpiryInv, FindPath, Goto
    <3>5. NoOrphanRun'
      BY <1>1, <2>2 DEF IInv, TypeOK, NoOrphanRun, Targeted, FindPath, Goto
    <3>6. RetainedUntilExpiry'
      BY <1>1, <2>2 DEF IInv, TypeOK, RetainedUntilExpiry, Unexpired, FindPath,
          Goto
    <3>7. ShutdownInv' /\ LookupInv' /\ ResultOfLatestRun' /\ StoppedIsEmpty' /\
        NotFoundIsJustified'
      BY <1>1, <2>2 DEF IInv, ShutdownInv, LookupInv, Looking,
          ResultOfLatestRun, StoppedIsEmpty, NotFoundIsJustified, FindPath, Goto
    <3> QED BY <3>1, <3>2, <3>3, <3>4, <3>5, <3>6, <3>7 DEF IInv
  <2> QED BY <1>1, <2>1, <2>2 DEF FindPath
<1>2. CASE StartRun(r)
  <2>1. CASE life' = [life EXCEPT ![r] = "live"] /\ Goto(r, "made")
    <3>1. TypeOK'
      <4>1. stage' \in [Runs -> Stages]
        BY <1>2, <2>1 DEF IInv, TypeOK, Stages, StartRun, Goto
      <4>2. life' \in [Runs -> {"none", "live", "ended"}]
        BY <1>2, <2>1 DEF IInv, TypeOK, StartRun, Goto
      <4>3. UNCHANGED <<state, tab, results, timers, latest, now, id, prev,
          expiry, cancelled, err, shutdown, comms, todo, aim, client, answer,
          absent, renewed>>
        BY <1>2, <2>1 DEF StartRun, Goto
      <4> QED BY <4>1, <4>2, <4>3 DEF IInv, TypeOK
    <3>2. StageInv'
      BY <1>2, <2>1 DEF IInv, TypeOK, StageInv, StartRun, Goto
    <3>3. TabInv'
      BY <1>2, <2>1 DEF IInv, TypeOK, TabInv, Owning, StartRun, Goto
    <3>4. ShutdownInv'
      BY <1>2, <2>1 DEF IInv, TypeOK, ShutdownInv, StageInv, StartRun, Goto
    <3>5. ExpiryInv'
      BY <1>2, <2>1 DEF IInv, TypeOK, ExpiryInv, StartRun, Goto
    <3>6. NoOrphanRun'
      BY <1>2, <2>1 DEF IInv, TypeOK, NoOrphanRun, Targeted, StartRun, Goto
    <3>7. ResultOfLatestRun'
      BY <1>2, <2>1 DEF IInv, TypeOK, ResultOfLatestRun, StageInv, ExpiryInv,
          StartRun, Goto
    <3>8. RetainedUntilExpiry'
      BY <1>2, <2>1 DEF IInv, TypeOK, RetainedUntilExpiry, Unexpired, StartRun,
          Goto
    <3>9. LookupInv' /\ StoppedIsEmpty' /\ NotFoundIsJustified'
      BY <1>2, <2>1 DEF IInv, LookupInv, Looking, StoppedIsEmpty,
          NotFoundIsJustified, StartRun, Goto
    <3> QED BY <3>1, <3>2, <3>3, <3>4, <3>5, <3>6, <3>7, <3>8, <3>9 DEF IInv
  <2>2. CASE UNCHANGED life /\ Goto(r, "rejected")
    <3>1. TypeOK'
      <4>1. stage' \in [Runs -> Stages]
        BY <1>2, <2>2 DEF IInv, TypeOK, Stages, StartRun, Goto
      <4>2. life' \in [Runs -> {"none", "live", "ended"}]
        BY <1>2, <2>2 DEF IInv, TypeOK, StartRun, Goto
      <4>3. UNCHANGED <<state, tab, results, timers, latest, now, id, prev,
          expiry, cancelled, err, shutdown, comms, todo, aim, client, answer,
          absent, renewed>>
        BY <1>2, <2>2 DEF StartRun, Goto
      <4> QED BY <4>1, <4>2, <4>3 DEF IInv, TypeOK
    <3>2. StageInv'
      BY <1>2, <2>2 DEF IInv, TypeOK, StageInv, StartRun, Goto
    <3>3. TabInv'
      BY <1>2, <2>2 DEF IInv, TypeOK, TabInv, Owning, StartRun, Goto
    <3>4. ShutdownInv'
      BY <1>2, <2>2 DEF IInv, TypeOK, ShutdownInv, StageInv, StartRun, Goto
    <3>5. ExpiryInv'
      BY <1>2, <2>2 DEF IInv, TypeOK, ExpiryInv, StartRun, Goto
    <3>6. NoOrphanRun'
      BY <1>2, <2>2 DEF IInv, TypeOK, NoOrphanRun, Targeted, StartRun, Goto
    <3>7. ResultOfLatestRun'
      BY <1>2, <2>2 DEF IInv, TypeOK, ResultOfLatestRun, StageInv, ExpiryInv,
          StartRun, Goto
    <3>8. RetainedUntilExpiry'
      BY <1>2, <2>2 DEF IInv, TypeOK, RetainedUntilExpiry, Unexpired, StartRun,
          Goto
    <3>9. LookupInv' /\ StoppedIsEmpty' /\ NotFoundIsJustified'
      BY <1>2, <2>2 DEF IInv, LookupInv, Looking, StoppedIsEmpty,
          NotFoundIsJustified, StartRun, Goto
    <3> QED BY <3>1, <3>2, <3>3, <3>4, <3>5, <3>6, <3>7, <3>8, <3>9 DEF IInv
  <2> QED BY <1>2, <2>1, <2>2 DEF StartRun
<1>3. CASE Register(r)
  <2>1. CASE tab[id[r]] = NoRun
    <3>1. TypeOK'
      <4>1. tab' \in [Ids -> MaybeRun]
        BY <1>3, <2>1 DEF IInv, TypeOK, MaybeRun, Register, Goto, Nothing,
            Looking
      <4>2. results' \in [Ids -> [run : MaybeRun, err : ExitErrors, at : Nat]]
        BY <1>3, <2>1 DEF IInv, TypeOK, MaybeRun, ExitErrors, Register, Goto,
            Nothing, Looking
      <4>3. prev' \in [Runs -> MaybeRun]
        BY <1>3, <2>1 DEF IInv, TypeOK, MaybeRun, Register, Goto, Nothing,
            Looking
      <4>4. stage' \in [Runs -> Stages]
        BY <1>3, <2>1 DEF IInv, TypeOK, Stages, Register, Goto, Nothing, Looking
      <4>5. latest' \in [Ids -> MaybeRun]
        BY <1>3, <2>1 DEF IInv, TypeOK, MaybeRun, Register, Goto, Nothing,
            Looking
      <4>6. renewed' \in [Clients -> BOOLEAN]
        BY <1>3, <2>1 DEF IInv, TypeOK, Register, Goto, Nothing, Looking
      <4>7. UNCHANGED <<state, timers, now, id, expiry, life, cancelled, err,
          shutdown, comms, todo, aim, client, answer, absent>>
        BY <1>3, <2>1 DEF Register, Goto, Nothing, Looking
      <4> QED BY <4>1, <4>2, <4>3, <4>4, <4>5, <4>6, <4>7 DEF IInv, TypeOK
    <3>2. StageInv'
      <4>1. /\ stage' = [stage EXCEPT ![r] = IF tab[id[r]] = NoRun THEN "watch" ELSE "replace"]
            /\ prev' = [prev EXCEPT ![r] = tab[id[r]]]
            /\ life' = life /\ cancelled' = cancelled /\ stage[r] = "made"
        BY <1>3, <2>1 DEF Register, Goto
      <4>2. tab[id[r]] # NoRun => tab[id[r]] \in Runs
        BY DEF IInv, TypeOK, MaybeRun
      <4>3. stage \in [Runs -> Stages] /\ prev \in [Runs -> MaybeRun]
        BY DEF IInv, TypeOK
      <4>4. stage'[r] \in {"watch", "replace"} /\ (stage'[r] = "replace" => prev'[r] \in Runs)
        BY <4>1, <4>2, <4>3
      <4>5. \A q \in Runs : q # r => stage'[q] = stage[q] /\ prev'[q] = prev[q]
        BY <4>1, <4>3
      <4> QED BY <4>1, <4>4, <4>5 DEF IInv, StageInv
    <3>3. TabInv'
      BY <1>3, <2>1 DEF IInv, TypeOK, TabInv, Owning, Register, Goto, Nothing,
          Looking
    <3>4. ShutdownInv'
      BY <1>3, <2>1 DEF IInv, TypeOK, ShutdownInv, Register, Goto, Nothing,
          Looking
    <3>5. ExpiryInv'
      BY <1>3, <2>1 DEF IInv, TypeOK, ExpiryInv, Register, Goto, Nothing,
          Looking
    <3>6. LookupInv'
      BY <1>3, <2>1 DEF IInv, TypeOK, LookupInv, Looking, Register, Goto,
          Nothing
    <3>7. NoOrphanRun'
      BY <1>3, <2>1 DEF IInv, TypeOK, NoOrphanRun, Targeted, Register, Goto,
          Nothing, Looking
    <3>8. ResultOfLatestRun'
      BY <1>3, <2>1 DEF IInv, TypeOK, ResultOfLatestRun, Register, Goto,
          Nothing, Looking
    <3>9. RetainedUntilExpiry'
      BY <1>3, <2>1 DEF IInv, TypeOK, RetainedUntilExpiry, Unexpired, Register,
          Goto, Nothing, Looking
    <3>10. StoppedIsEmpty'
      BY <1>3, <2>1 DEF IInv, TypeOK, StoppedIsEmpty, Register, Goto, Nothing,
          Looking
    <3>11. NotFoundIsJustified'
      BY <1>3, <2>1 DEF IInv, TypeOK, NotFoundIsJustified, Register, Goto,
          Nothing, Looking
    <3> QED BY <3>1, <3>2, <3>3, <3>4, <3>5, <3>6, <3>7, <3>8, <3>9, <3>10,
        <3>11 DEF IInv
  <2>2. CASE tab[id[r]] # NoRun
    <3>1. TypeOK'
      <4>1. tab' \in [Ids -> MaybeRun]
        BY <1>3, <2>2 DEF IInv, TypeOK, MaybeRun, Register, Goto, Nothing,
            Looking
      <4>2. results' \in [Ids -> [run : MaybeRun, err : ExitErrors, at : Nat]]
        BY <1>3, <2>2 DEF IInv, TypeOK, MaybeRun, ExitErrors, Register, Goto,
            Nothing, Looking
      <4>3. prev' \in [Runs -> MaybeRun]
        BY <1>3, <2>2 DEF IInv, TypeOK, MaybeRun, Register, Goto, Nothing,
            Looking
      <4>4. stage' \in [Runs -> Stages]
        BY <1>3, <2>2 DEF IInv, TypeOK, Stages, Register, Goto, Nothing, Looking
      <4>5. latest' \in [Ids -> MaybeRun]
        BY <1>3, <2>2 DEF IInv, TypeOK, MaybeRun, Register, Goto, Nothing,
            Looking
      <4>6. renewed' \in [Clients -> BOOLEAN]
        BY <1>3, <2>2 DEF IInv, TypeOK, Register, Goto, Nothing, Looking
      <4>7. UNCHANGED <<state, timers, now, id, expiry, life, cancelled, err,
          shutdown, comms, todo, aim, client, answer, absent>>
        BY <1>3, <2>2 DEF Register, Goto, Nothing, Looking
      <4> QED BY <4>1, <4>2, <4>3, <4>4, <4>5, <4>6, <4>7 DEF IInv, TypeOK
    <3>2. StageInv'
      <4>1. /\ stage' = [stage EXCEPT ![r] = IF tab[id[r]] = NoRun THEN "watch" ELSE "replace"]
            /\ prev' = [prev EXCEPT ![r] = tab[id[r]]]
            /\ life' = life /\ cancelled' = cancelled /\ stage[r] = "made"
        BY <1>3, <2>2 DEF Register, Goto
      <4>2. tab[id[r]] # NoRun => tab[id[r]] \in Runs
        BY DEF IInv, TypeOK, MaybeRun
      <4>3. stage \in [Runs -> Stages] /\ prev \in [Runs -> MaybeRun]
        BY DEF IInv, TypeOK
      <4>4. stage'[r] \in {"watch", "replace"} /\ (stage'[r] = "replace" => prev'[r] \in Runs)
        BY <4>1, <4>2, <4>3
      <4>5. \A q \in Runs : q # r => stage'[q] = stage[q] /\ prev'[q] = prev[q]
        BY <4>1, <4>3
      <4> QED BY <4>1, <4>4, <4>5 DEF IInv, StageInv
    <3>3. TabInv'
      BY <1>3, <2>2 DEF IInv, TypeOK, TabInv, Owning, Register, Goto, Nothing,
          Looking
    <3>4. ShutdownInv'
      BY <1>3, <2>2 DEF IInv, TypeOK, ShutdownInv, Register, Goto, Nothing,
          Looking
    <3>5. ExpiryInv'
      BY <1>3, <2>2 DEF IInv, TypeOK, ExpiryInv, Register, Goto, Nothing,
          Looking
    <3>6. LookupInv'
      BY <1>3, <2>2 DEF IInv, TypeOK, LookupInv, Looking, Register, Goto,
          Nothing
    <3>7. NoOrphanRun'
      BY <1>3, <2>2 DEF IInv, TypeOK, NoOrphanRun, Targeted, Register, Goto,
          Nothing, Looking
    <3>8. ResultOfLatestRun'
      BY <1>3, <2>2 DEF IInv, TypeOK, ResultOfLatestRun, Register, Goto,
          Nothing, Looking
    <3>9. RetainedUntilExpiry'
      BY <1>3, <2>2 DEF IInv, TypeOK, RetainedUntilExpiry, Unexpired, Register,
          Goto, Nothing, Looking
    <3>10. StoppedIsEmpty'
      BY <1>3, <2>2 DEF IInv, TypeOK, StoppedIsEmpty, Register, Goto, Nothing,
          Looking
    <3>11. NotFoundIsJustified'
      BY <1>3, <2>2 DEF IInv, TypeOK, NotFoundIsJustified, Register, Goto,
          Nothing, Looking
    <3> QED BY <3>1, <3>2, <3>3, <3>4, <3>5, <3>6, <3>7, <3>8, <3>9, <3>10,
        <3>11 DEF IInv
  <2> QED BY <1>3, <2>1, <2>2 DEF Register
<1>4. CASE Refuse(r)
  <2>1. TypeOK'
    <3>1. stage' \in [Runs -> Stages]
      BY <1>4 DEF IInv, TypeOK, Stages, Refuse, Goto
    <3>2. UNCHANGED <<state, tab, results, timers, latest, now, id, prev,
        expiry, life, cancelled, err, shutdown, comms, todo, aim, client,
        answer, absent, renewed>>
      BY <1>4 DEF Refuse, Goto
    <3> QED BY <3>1, <3>2 DEF IInv, TypeOK
  <2>2. StageInv'
    BY <1>4 DEF IInv, TypeOK, StageInv, Refuse, Goto
  <2>3. TabInv'
    BY <1>4 DEF IInv, TypeOK, TabInv, Owning, Refuse, Goto
  <2>4. ExpiryInv'
    BY <1>4 DEF IInv, TypeOK, ExpiryInv, Refuse, Goto
  <2>5. NoOrphanRun'
    BY <1>4 DEF IInv, TypeOK, NoOrphanRun, Targeted, Refuse, Goto
  <2>6. RetainedUntilExpiry'
    BY <1>4 DEF IInv, TypeOK, RetainedUntilExpiry, Unexpired, Refuse, Goto
  <2>7. ShutdownInv' /\ LookupInv' /\ ResultOfLatestRun' /\ StoppedIsEmpty' /\
      NotFoundIsJustified'
    BY <1>4 DEF IInv, ShutdownInv, LookupInv, Looking, ResultOfLatestRun,
        StoppedIsEmpty, NotFoundIsJustified, Refuse, Goto
  <2> QED BY <2>1, <2>2, <2>3, <2>4, <2>5, <2>6, <2>7 DEF IInv
<1>5. CASE LookAtTarget(r)
  <2>1. CASE stage[r] = "replace" /\ life[prev[r]] = "live" /\ Goto(r, "strikePrev")
    <3>1. TypeOK'
      <4>1. stage' \in [Runs -> Stages]
        BY <1>5, <2>1 DEF IInv, TypeOK, Stages, LookAtTarget, Goto
      <4>2. UNCHANGED <<state, tab, results, timers, latest, now, id, prev,
          expiry, life, cancelled, err, shutdown, comms, todo, aim, client,
          answer, absent, renewed>>
        BY <1>5, <2>1 DEF LookAtTarget, Goto
      <4> QED BY <4>1, <4>2 DEF IInv, TypeOK
    <3>2. StageInv'
      BY <1>5, <2>1 DEF IInv, TypeOK, StageInv, LookAtTarget, Goto
    <3>3. TabInv'
      BY <1>5, <2>1 DEF IInv, TypeOK, TabInv, Owning, LookAtTarget, Goto
    <3>4. ExpiryInv'
      BY <1>5, <2>1 DEF IInv, TypeOK, ExpiryInv, LookAtTarget, Goto
    <3>5. NoOrphanRun'
      BY <1>5, <2>1 DEF IInv, TypeOK, NoOrphanRun, Targeted, LookAtTarget, Goto
    <3>6. RetainedUntilExpiry'
      BY <1>5, <2>1 DEF IInv, TypeOK, RetainedUntilExpiry, Unexpired,
          LookAtTarget, Goto
    <3>7. ShutdownInv' /\ LookupInv' /\ ResultOfLatestRun' /\ StoppedIsEmpty' /\
        NotFoundIsJustified'
      BY <1>5, <2>1 DEF IInv, ShutdownInv, LookupInv, Looking,
          ResultOfLatestRun, StoppedIsEmpty, NotFoundIsJustified, LookAtTarget,
          Goto
    <3> QED BY <3>1, <3>2, <3>3, <3>4, <3>5, <3>6, <3>7 DEF IInv
  <2>2. CASE stage[r] = "replace" /\ life[prev[r]] # "live" /\ Goto(r, "watch")
    <3>1. TypeOK'
      <4>1. stage' \in [Runs -> Stages]
        BY <1>5, <2>2 DEF IInv, TypeOK, Stages, LookAtTarget, Goto
      <4>2. UNCHANGED <<state, tab, results, timers, latest, now, id, prev,
          expiry, life, cancelled, err, shutdown, comms, todo, aim, client,
          answer, absent, renewed>>
        BY <1>5, <2>2 DEF LookAtTarget, Goto
      <4> QED BY <4>1, <4>2 DEF IInv, TypeOK
    <3>2. StageInv'
      BY <1>5, <2>2 DEF IInv, TypeOK, StageInv, LookAtTarget, Goto
    <3>3. TabInv'
      BY <1>5, <2>2 DEF IInv, TypeOK, TabInv, Owning, LookAtTarget, Goto
    <3>4. ExpiryInv'
      BY <1>5, <2>2 DEF IInv, TypeOK, ExpiryInv, LookAtTarget, Goto
    <3>5. NoOrphanRun'
      BY <1>5, <2>2 DEF IInv, TypeOK, NoOrphanRun, Targeted, LookAtTarget, Goto
    <3>6. RetainedUntilExpiry'
      BY <1>5, <2>2 DEF IInv, TypeOK, RetainedUntilExpiry, Unexpired,
          LookAtTarget, Goto
    <3>7. ShutdownInv' /\ LookupInv' /\ ResultOfLatestRun' /\ StoppedIsEmpty' /\
        NotFoundIsJustified'
      BY <1>5, <2>2 DEF IInv, ShutdownInv, LookupInv, Looking,
          ResultOfLatestRun, StoppedIsEmpty, NotFoundIsJustified, LookAtTarget,
          Goto
    <3> QED BY <3>1, <3>2, <3>3, <3>4, <3>5, <3>6, <3>7 DEF IInv
  <2>3. CASE stage[r] = "refuse" /\ life[r] = "live" /\ Goto(r, "strikeSelf")
    <3>1. TypeOK'
      <4>1. stage' \in [Runs -> Stages]
        BY <1>5, <2>3 DEF IInv, TypeOK, Stages, LookAtTarget, Goto
      <4>2. UNCHANGED <<state, tab, results, timers, latest, now, id, prev,
          expiry, life, cancelled, err, shutdown, comms, todo, aim, client,
          answer, absent, renewed>>
        BY <1>5, <2>3 DEF LookAtTarget, Goto
      <4> QED BY <4>1, <4>2 DEF IInv, TypeOK
    <3>2. StageInv'
      BY <1>5, <2>3 DEF IInv, TypeOK, StageInv, LookAtTarget, Goto
    <3>3. TabInv'
      BY <1>5, <2>3 DEF IInv, TypeOK, TabInv, Owning, LookAtTarget, Goto
    <3>4. ExpiryInv'
      BY <1>5, <2>3 DEF IInv, TypeOK, ExpiryInv, LookAtTarget, Goto
    <3>5. NoOrphanRun'
      BY <1>5, <2>3 DEF IInv, TypeOK, NoOrphanRun, Targeted, LookAtTarget, Goto
    <3>6. RetainedUntilExpiry'
      BY <1>5, <2>3 DEF IInv, TypeOK, RetainedUntilExpiry, Unexpired,
          LookAtTarget, Goto
    <3>7. ShutdownInv' /\ LookupInv' /\ ResultOfLatestRun' /\ StoppedIsEmpty' /\
        NotFoundIsJustified'
      BY <1>5, <2>3 DEF IInv, ShutdownInv, LookupInv, Looking,
          ResultOfLatestRun, StoppedIsEmpty, NotFoundIsJustified, LookAtTarget,
          Goto
    <3> QED BY <3>1, <3>2, <3>3, <3>4, <3>5, <3>6, <3>7 DEF IInv
  <2>4. CASE stage[r] = "refuse" /\ life[r] # "live" /\ Goto(r, "refused")
    <3>1. TypeOK'
      <4>1. stage' \in [Runs -> Stages]
        BY <1>5, <2>4 DEF IInv, TypeOK, Stages, LookAtTarget, Goto
      <4>2. UNCHANGED <<state, tab, results, timers, latest, now, id, prev,
          expiry, life, cancelled, err, shutdown, comms, todo, aim, client,
          answer, absent, renewed>>
        BY <1>5, <2>4 DEF LookAtTarget, Goto
      <4> QED BY <4>1, <4>2 DEF IInv, TypeOK
    <3>2. StageInv'
      BY <1>5, <2>4 DEF IInv, TypeOK, StageInv, LookAtTarget, Goto
    <3>3. TabInv'
      BY <1>5, <2>4 DEF IInv, TypeOK, TabInv, Owning, LookAtTarget, Goto
    <3>4. ExpiryInv'
      BY <1>5, <2>4 DEF IInv, TypeOK, ExpiryInv, LookAtTarget, Goto
    <3>5. NoOrphanRun'
      BY <1>5, <2>4 DEF IInv, TypeOK, NoOrphanRun, Targeted, LookAtTarget, Goto
    <3>6. RetainedUntilExpiry'
      BY <1>5, <2>4 DEF IInv, TypeOK, RetainedUntilExpiry, Unexpired,
          LookAtTarget, Goto
    <3>7. ShutdownInv' /\ LookupInv' /\ ResultOfLatestRun' /\ StoppedIsEmpty' /\
        NotFoundIsJustified'
      BY <1>5, <2>4 DEF IInv, ShutdownInv, LookupInv, Looking,
          ResultOfLatestRun, StoppedIsEmpty, NotFoundIsJustified, LookAtTarget,
          Goto
    <3> QED BY <3>1, <3>2, <3>3, <3>4, <3>5, <3>6, <3>7 DEF IInv
  <2> QED BY <1>5, <2>1, <2>2, <2>3, <2>4 DEF LookAtTarget
<1>6. CASE StrikeTarget(r)
  <2>1. CASE stage[r] = "strikePrev" /\ Strike(prev[r]) /\ Goto(r, "watch")
    <3>1. TypeOK'
      <4>1. stage' \in [Runs -> Stages]
        BY <1>6, <2>1 DEF IInv, TypeOK, Stages, StrikeTarget, Goto, Strike,
            SetExitError
      <4>2. err' \in [Runs -> ExitErrors]
        BY <1>6, <2>1 DEF IInv, TypeOK, ExitErrors, StrikeTarget, Goto, Strike,
            SetExitError
      <4>3. cancelled' \in [Runs -> BOOLEAN]
        BY <1>6, <2>1 DEF IInv, TypeOK, StrikeTarget, Goto, Strike, SetExitError
      <4>4. UNCHANGED <<state, tab, results, timers, latest, now, id, prev,
          expiry, life, shutdown, comms, todo, aim, client, answer, absent,
          renewed>>
        BY <1>6, <2>1 DEF StrikeTarget, Goto, Strike, SetExitError
      <4> QED BY <4>1, <4>2, <4>3, <4>4 DEF IInv, TypeOK
    <3>2. StageInv'
      BY <1>6, <2>1 DEF IInv, TypeOK, StageInv, StrikeTarget, Goto, Strike,
          SetExitError
    <3>3. TabInv'
      BY <1>6, <2>1 DEF IInv, TypeOK, TabInv, Owning, StrikeTarget, Goto,
          Strike, SetExitError
    <3>4. ExpiryInv'
      BY <1>6, <2>1 DEF IInv, TypeOK, ExpiryInv, StrikeTarget, Goto, Strike,
          SetExitError
    <3>5. NoOrphanRun'
      BY <1>6, <2>1 DEF IInv, TypeOK, NoOrphanRun, Targeted, StrikeTarget, Goto,
          Strike, SetExitError
    <3>6. RetainedUntilExpiry'
      BY <1>6, <2>1 DEF IInv, TypeOK, RetainedUntilExpiry, Unexpired,
          StrikeTarget, Goto, Strike, SetExitError
    <3>7. ShutdownInv' /\ LookupInv' /\ ResultOfLatestRun' /\ StoppedIsEmpty' /\
        NotFoundIsJustified'
      BY <1>6, <2>1 DEF IInv, ShutdownInv, LookupInv, Looking,
          ResultOfLatestRun, StoppedIsEmpty, NotFoundIsJustified, StrikeTarget,
          Goto, Strike, SetExitError
    <3> QED BY <3>1, <3>2, <3>3, <3>4, <3>5, <3>6, <3>7 DEF IInv
  <2>2. CASE stage[r] = "strikeSelf" /\ Strike(r) /\ Goto(r, "refused")
    <3>1. TypeOK'
      <4>1. stage' \in [Runs -> Stages]
        BY <1>6, <2>2 DEF IInv, TypeOK, Stages, StrikeTarget, Goto, Strike,
            SetExitError
      <4>2. err' \in [Runs -> ExitErrors]
        BY <1>6, <2>2 DEF IInv, TypeOK, ExitErrors, StrikeTarget, Goto, Strike,
            SetExitError
      <4>3. cancelled' \in [Runs -> BOOLEAN]
        BY <1>6, <2>2 DEF IInv, TypeOK, StrikeTarget, Goto, Strike, SetExitError
      <4>4. UNCHANGED <<state, tab, results, timers, latest, now, id, prev,
          expiry, life, shutdown, comms, todo, aim, client, answer, absent,
          renewed>>
        BY <1>6, <2>2 DEF StrikeTarget, Goto, Strike, SetExitError
      <4> QED BY <4>1, <4>2, <4>3, <4>4 DEF IInv, TypeOK
    <3>2. StageInv'
      BY <1>6, <2>2 DEF IInv, TypeOK, StageInv, StrikeTarget, Goto, Strike,
          SetExitError
    <3>3. TabInv'
      BY <1>6, <2>2 DEF IInv, TypeOK, TabInv, Owning, StrikeTarget, Goto,
          Strike, SetExitError
    <3>4. ExpiryInv'
      BY <1>6, <2>2 DEF IInv, TypeOK, ExpiryInv, StrikeTarget, Goto, Strike,
          SetExitError
    <3>5. NoOrphanRun'
      BY <1>6, <2>2 DEF IInv, TypeOK, NoOrphanRun, Targeted, StrikeTarget, Goto,
          Strike, SetExitError
    <3>6. RetainedUntilExpiry'
      BY <1>6, <2>2 DEF IInv, TypeOK, RetainedUntilExpiry, Unexpired,
          StrikeTarget, Goto, Strike, SetExitError
    <3>7. ShutdownInv' /\ LookupInv' /\ ResultOfLatestRun' /\ StoppedIsEmpty' /\
        NotFoundIsJustified'
      BY <1>6, <2>2 DEF IInv, ShutdownInv, LookupInv, Looking,
          ResultOfLatestRun, StoppedIsEmpty, NotFoundIsJustified, StrikeTarget,
          Goto, Strike, SetExitError
    <3> QED BY <3>1, <3>2, <3>3, <3>4, <3>5, <3>6, <3>7 DEF IInv
  <2> QED BY <1>6, <2>1, <2>2 DEF StrikeTarget
<1>7. CASE AnswerRefused(r)
  <2>1. TypeOK'
    <3>1. stage' \in [Runs -> Stages]
      BY <1>7 DEF IInv, TypeOK, Stages, AnswerRefused, Goto
    <3>2. UNCHANGED <<state, tab, results, timers, latest, now, id, prev,
        expiry, life, cancelled, err, shutdown, comms, todo, aim, client,
        answer, absent, renewed>>
      BY <1>7 DEF AnswerRefused, Goto
    <3> QED BY <3>1, <3>2 DEF IInv, TypeOK
  <2>2. StageInv'
    BY <1>7 DEF IInv, TypeOK, StageInv, AnswerRefused, Goto
  <2>3. TabInv'
    BY <1>7 DEF IInv, TypeOK, TabInv, Owning, AnswerRefused, Goto
  <2>4. ExpiryInv'
    BY <1>7 DEF IInv, TypeOK, ExpiryInv, AnswerRefused, Goto
  <2>5. NoOrphanRun'
    BY <1>7 DEF IInv, TypeOK, NoOrphanRun, Targeted, AnswerRefused, Goto
  <2>6. RetainedUntilExpiry'
    BY <1>7 DEF IInv, TypeOK, RetainedUntilExpiry, Unexpired, AnswerRefused,
        Goto
  <2>7. ShutdownInv' /\ LookupInv' /\ ResultOfLatestRun' /\ StoppedIsEmpty' /\
      NotFoundIsJustified'
    BY <1>7 DEF IInv, ShutdownInv, LookupInv, Looking, ResultOfLatestRun,
        StoppedIsEmpty, NotFoundIsJustified, AnswerRefused, Goto
  <2> QED BY <2>1, <2>2, <2>3, <2>4, <2>5, <2>6, <2>7 DEF IInv
<1> QED BY <1>1, <1>2, <1>3, <1>4, <1>5, <1>6, <1>7 DEF FindPathStep

(* The completion goroutine. *)
LEMMA CompletionKeepsInv ==
  ASSUME IInv, NEW r \in Runs, CompletionStep(r) PROVE IInv'
<1> USE DispatcherAssumption DEF table, request, comm, stopping, lookups
<1>1. CASE StampExpiry(r)
  <2>1. TypeOK'
    <3>1. stage' \in [Runs -> Stages]
      BY <1>1 DEF IInv, TypeOK, Stages, StampExpiry, Goto
    <3>2. expiry' \in [Runs -> Nat]
      BY <1>1 DEF IInv, TypeOK, StampExpiry, Goto
    <3>3. UNCHANGED <<state, tab, results, timers, latest, now, id, prev, life,
        cancelled, err, shutdown, comms, todo, aim, client, answer, absent,
        renewed>>
      BY <1>1 DEF StampExpiry, Goto
    <3> QED BY <3>1, <3>2, <3>3 DEF IInv, TypeOK
  <2>2. StageInv'
    BY <1>1 DEF IInv, TypeOK, StageInv, StampExpiry, Goto
  <2>3. TabInv'
    BY <1>1 DEF IInv, TypeOK, TabInv, Owning, StampExpiry, Goto
  <2>4. ExpiryInv'
    BY <1>1 DEF IInv, TypeOK, ExpiryInv, StampExpiry, Goto
  <2>5. NoOrphanRun'
    BY <1>1 DEF IInv, TypeOK, NoOrphanRun, Targeted, StampExpiry, Goto
  <2>6. RetainedUntilExpiry'
    BY <1>1 DEF IInv, TypeOK, RetainedUntilExpiry, Unexpired, StampExpiry, Goto
  <2>7. ShutdownInv' /\ LookupInv' /\ ResultOfLatestRun' /\ StoppedIsEmpty' /\
      NotFoundIsJustified'
    BY <1>1 DEF IInv, ShutdownInv, LookupInv, Looking, ResultOfLatestRun,
        StoppedIsEmpty, NotFoundIsJustified, StampExpiry, Goto
  <2> QED BY <2>1, <2>2, <2>3, <2>4, <2>5, <2>6, <2>7 DEF IInv
<1>2. CASE CompleteComm(r)
  <2>1. TypeOK'
    <3>1. tab' \in [Ids -> MaybeRun]
      BY <1>2 DEF IInv, TypeOK, MaybeRun, CompleteComm, Goto
    <3>2. results' \in [Ids -> [run : MaybeRun, err : ExitErrors, at : Nat]]
      BY <1>2 DEF IInv, TypeOK, MaybeRun, ExitErrors, CompleteComm, Goto
    <3>3. stage' \in [Runs -> Stages]
      BY <1>2 DEF IInv, TypeOK, Stages, CompleteComm, Goto
    <3>4. UNCHANGED <<state, timers, latest, now, id, prev, expiry, life,
        cancelled, err, shutdown, comms, todo, aim, client, answer, absent,
        renewed>>
      BY <1>2 DEF CompleteComm, Goto
    <3> QED BY <3>1, <3>2, <3>3, <3>4 DEF IInv, TypeOK
  <2>2. StageInv'
    BY <1>2 DEF IInv, TypeOK, StageInv, CompleteComm, Goto
  <2>3. TabInv'
    BY <1>2 DEF IInv, TypeOK, TabInv, Owning, CompleteComm, Goto
  <2>4. ShutdownInv'
    BY <1>2 DEF IInv, TypeOK, ShutdownInv, CompleteComm, Goto
  <2>5. ExpiryInv'
    BY <1>2 DEF IInv, TypeOK, ExpiryInv, CompleteComm, Goto
  <2>6. LookupInv'
    BY <1>2 DEF IInv, TypeOK, LookupInv, Looking, CompleteComm, Goto
  <2>7. NoOrphanRun'
    <3>1. /\ life[r] = "ended" /\ id[r] \in Ids /\ tab[id[r]] = r
          /\ \A q \in Runs : Targeted(q) => Targeted(q)'
      BY <1>2 DEF IInv, TypeOK, StageInv, Targeted, CompleteComm, Goto
    <3>2. \A q \in Runs : tab[id[q]] = q /\ q # r => tab'[id[q]] = q
      BY <1>2, <3>1 DEF IInv, TypeOK, CompleteComm
    <3>3. life' = life /\ cancelled' = cancelled /\ id' = id
          /\ \A q \in Runs : stage[q] = "made" => stage'[q] = "made"
      BY <1>2 DEF IInv, TypeOK, CompleteComm, Goto
    <3> QED BY <3>1, <3>2, <3>3 DEF IInv, NoOrphanRun
  <2>8. ResultOfLatestRun'
    BY <1>2 DEF IInv, TypeOK, ResultOfLatestRun, TabInv, Owning, StageInv,
        CompleteComm, Goto
  <2>9. RetainedUntilExpiry'
    BY <1>2 DEF IInv, TypeOK, RetainedUntilExpiry, Unexpired, TabInv, Owning,
        CompleteComm, Goto
  <2>10. StoppedIsEmpty'
    BY <1>2 DEF IInv, TypeOK, StoppedIsEmpty, CompleteComm, Goto
  <2>11. NotFoundIsJustified'
    BY <1>2 DEF IInv, NotFoundIsJustified, CompleteComm, Goto
  <2> QED BY <2>1, <2>2, <2>3, <2>4, <2>5, <2>6, <2>7, <2>8, <2>9, <2>10, <2>11
      DEF IInv
<1>3. CASE SkipComplete(r)
  <2>1. TypeOK'
    <3>1. stage' \in [Runs -> Stages]
      BY <1>3 DEF IInv, TypeOK, Stages, SkipComplete, Goto
    <3>2. UNCHANGED <<state, tab, results, timers, latest, now, id, prev,
        expiry, life, cancelled, err, shutdown, comms, todo, aim, client,
        answer, absent, renewed>>
      BY <1>3 DEF SkipComplete, Goto
    <3> QED BY <3>1, <3>2 DEF IInv, TypeOK
  <2>2. StageInv'
    BY <1>3 DEF IInv, TypeOK, StageInv, SkipComplete, Goto
  <2>3. TabInv'
    BY <1>3 DEF IInv, TypeOK, TabInv, Owning, SkipComplete, Goto
  <2>4. ExpiryInv'
    BY <1>3 DEF IInv, TypeOK, ExpiryInv, SkipComplete, Goto
  <2>5. NoOrphanRun'
    BY <1>3 DEF IInv, TypeOK, NoOrphanRun, Targeted, SkipComplete, Goto
  <2>6. RetainedUntilExpiry'
    BY <1>3 DEF IInv, TypeOK, RetainedUntilExpiry, Unexpired, TabInv, Owning,
        SkipComplete, Goto
  <2>7. ShutdownInv' /\ LookupInv' /\ ResultOfLatestRun' /\ StoppedIsEmpty' /\
      NotFoundIsJustified'
    BY <1>3 DEF IInv, ShutdownInv, LookupInv, Looking, ResultOfLatestRun,
        StoppedIsEmpty, NotFoundIsJustified, SkipComplete, Goto
  <2> QED BY <2>1, <2>2, <2>3, <2>4, <2>5, <2>6, <2>7 DEF IInv
<1>4. CASE ArmTimer(r)
  <2>1. TypeOK'
    <3>1. timers' \in SUBSET [id : Ids, run : Runs, at : Nat, due : Nat]
      BY <1>4 DEF IInv, TypeOK, ArmTimer, Goto
    <3>2. stage' \in [Runs -> Stages]
      BY <1>4 DEF IInv, TypeOK, Stages, ArmTimer, Goto
    <3>3. UNCHANGED <<state, tab, results, latest, now, id, prev, expiry, life,
        cancelled, err, shutdown, comms, todo, aim, client, answer, absent,
        renewed>>
      BY <1>4 DEF ArmTimer, Goto
    <3> QED BY <3>1, <3>2, <3>3 DEF IInv, TypeOK
  <2>2. StageInv'
    BY <1>4 DEF IInv, TypeOK, StageInv, ArmTimer, Goto
  <2>3. TabInv'
    BY <1>4 DEF IInv, TypeOK, TabInv, Owning, ArmTimer, Goto
  <2>4. ExpiryInv'
    BY <1>4 DEF IInv, TypeOK, ExpiryInv, ArmTimer, Goto
  <2>5. NoOrphanRun'
    BY <1>4 DEF IInv, TypeOK, NoOrphanRun, Targeted, ArmTimer, Goto
  <2>6. RetainedUntilExpiry'
    BY <1>4 DEF IInv, TypeOK, RetainedUntilExpiry, Unexpired, ArmTimer, Goto
  <2>7. ShutdownInv' /\ LookupInv' /\ ResultOfLatestRun' /\ StoppedIsEmpty' /\
      NotFoundIsJustified'
    BY <1>4 DEF IInv, ShutdownInv, LookupInv, Looking, ResultOfLatestRun,
        StoppedIsEmpty, NotFoundIsJustified, ArmTimer, Goto
  <2> QED BY <2>1, <2>2, <2>3, <2>4, <2>5, <2>6, <2>7 DEF IInv
<1> QED BY <1>1, <1>2, <1>3, <1>4 DEF CompletionStep

(* Runs, timers and the clock. *)
LEMMA RunKeepsInv ==
  ASSUME IInv, (\E r \in Runs : RunEnds(r)) \/ (\E t \in timers : TimerFires(t)) \/ Tick PROVE IInv'
<1> USE DispatcherAssumption DEF table, request, comm, stopping, lookups
<1>1. ASSUME NEW r \in Runs, RunEnds(r) PROVE IInv'
  <2>1. TypeOK'
    <3>1. life' \in [Runs -> {"none", "live", "ended"}]
      BY <1>1 DEF IInv, TypeOK, RunEnds, SetExitError
    <3>2. cancelled' \in [Runs -> BOOLEAN]
      BY <1>1 DEF IInv, TypeOK, RunEnds, SetExitError
    <3>3. err' \in [Runs -> ExitErrors]
      BY <1>1 DEF IInv, TypeOK, ExitErrors, RunEnds, SetExitError
    <3>4. UNCHANGED <<state, tab, results, timers, latest, now, stage, id, prev,
        expiry, shutdown, comms, todo, aim, client, answer, absent, renewed>>
      BY <1>1 DEF RunEnds, SetExitError
    <3> QED BY <3>1, <3>2, <3>3, <3>4 DEF IInv, TypeOK
  <2>2. StageInv'
    BY <1>1 DEF IInv, TypeOK, StageInv, RunEnds, SetExitError
  <2>3. ShutdownInv'
    BY <1>1 DEF IInv, TypeOK, ShutdownInv, RunEnds, SetExitError
  <2>4. NoOrphanRun'
    BY <1>1 DEF IInv, TypeOK, NoOrphanRun, Targeted, RunEnds, SetExitError
  <2>5. ResultOfLatestRun'
    BY <1>1 DEF IInv, TypeOK, ResultOfLatestRun, RunEnds, SetExitError
  <2>6. TabInv' /\ ExpiryInv' /\ LookupInv' /\ RetainedUntilExpiry' /\
      StoppedIsEmpty' /\ NotFoundIsJustified'
    BY <1>1 DEF IInv, TabInv, Owning, ExpiryInv, LookupInv, Looking,
        RetainedUntilExpiry, Unexpired, StoppedIsEmpty, NotFoundIsJustified,
        RunEnds, SetExitError
  <2> QED BY <2>1, <2>2, <2>3, <2>4, <2>5, <2>6 DEF IInv
<1>2. ASSUME NEW t \in timers, TimerFires(t) PROVE IInv'
  <2>1. TypeOK'
    <3>1. timers' \in SUBSET [id : Ids, run : Runs, at : Nat, due : Nat]
      BY <1>2 DEF IInv, TypeOK, TimerFires, Observe, Looking, Nothing
    <3>2. results' \in [Ids -> [run : MaybeRun, err : ExitErrors, at : Nat]]
      BY <1>2 DEF IInv, TypeOK, MaybeRun, ExitErrors, TimerFires, Observe,
          Looking, Nothing
    <3>3. absent' \in [Clients -> BOOLEAN]
      BY <1>2 DEF IInv, TypeOK, TimerFires, Observe, Looking, Nothing
    <3>4. UNCHANGED <<state, tab, latest, now, stage, id, prev, expiry, life,
        cancelled, err, shutdown, comms, todo, aim, client, answer, renewed>>
      BY <1>2 DEF TimerFires, Observe, Looking, Nothing
    <3> QED BY <3>1, <3>2, <3>3, <3>4 DEF IInv, TypeOK
  <2>2. ExpiryInv'
    BY <1>2 DEF IInv, TypeOK, ExpiryInv, TimerFires, Observe, Looking, Nothing
  <2>3. LookupInv'
    BY <1>2 DEF IInv, TypeOK, LookupInv, Looking, ResultOfLatestRun, TimerFires,
        Observe, Nothing
  <2>4. ResultOfLatestRun'
    <3>1. t.id \in Ids
      BY DEF IInv, TypeOK
    <3>2. \A i \in Ids : results'[i].run # NoRun => results'[i] = results[i]
      BY <1>2, <3>1 DEF IInv, TypeOK, TimerFires, Nothing
    <3>3. tab' = tab /\ latest' = latest /\ life' = life
      BY <1>2 DEF TimerFires
    <3> QED BY <3>2, <3>3 DEF IInv, ResultOfLatestRun
  <2>5. RetainedUntilExpiry'
    BY <1>2 DEF IInv, TypeOK, RetainedUntilExpiry, Unexpired, ExpiryInv,
        TimerFires, Observe, Looking, Nothing
  <2>6. StoppedIsEmpty'
    BY <1>2 DEF IInv, TypeOK, StoppedIsEmpty, TimerFires, Observe, Looking,
        Nothing
  <2>7. NotFoundIsJustified'
    BY <1>2 DEF IInv, TypeOK, NotFoundIsJustified, TimerFires, Observe, Looking,
        Nothing
  <2>8. StageInv' /\ TabInv' /\ ShutdownInv' /\ NoOrphanRun'
    BY <1>2 DEF IInv, StageInv, TabInv, Owning, ShutdownInv, NoOrphanRun,
        Targeted, TimerFires, Observe, Looking, Nothing
  <2> QED BY <2>1, <2>2, <2>3, <2>4, <2>5, <2>6, <2>7, <2>8 DEF IInv
<1>3. CASE Tick
  <2>1. TypeOK'
    <3>1. now' \in Nat
      BY <1>3 DEF IInv, TypeOK, Tick
    <3>2. UNCHANGED <<state, tab, results, timers, latest, stage, id, prev,
        expiry, life, cancelled, err, shutdown, comms, todo, aim, client,
        answer, absent, renewed>>
      BY <1>3 DEF Tick
    <3> QED BY <3>1, <3>2 DEF IInv, TypeOK
  <2>2. ExpiryInv'
    BY <1>3 DEF IInv, TypeOK, ExpiryInv, Tick
  <2>3. RetainedUntilExpiry'
    BY <1>3 DEF IInv, TypeOK, RetainedUntilExpiry, Unexpired, Tick
  <2>4. StageInv' /\ TabInv' /\ ShutdownInv' /\ LookupInv' /\ NoOrphanRun' /\
      ResultOfLatestRun' /\ StoppedIsEmpty' /\ NotFoundIsJustified'
    BY <1>3 DEF IInv, StageInv, TabInv, Owning, ShutdownInv, LookupInv, Looking,
        NoOrphanRun, Targeted, ResultOfLatestRun, StoppedIsEmpty,
        NotFoundIsJustified, Tick
  <2> QED BY <2>1, <2>2, <2>3, <2>4 DEF IInv
<1> QED BY <1>1, <1>2, <1>3

(* stopActiveAgents. *)
LEMMA ShutdownKeepsInv ==
  ASSUME IInv, BeginShutdown \/ ShutdownStep PROVE IInv'
<1> USE DispatcherAssumption DEF table, request, comm, stopping, lookups
<1>1. CASE BeginShutdown
  <2>1. TypeOK'
    <3>1. state' \in {"Running", "ShuttingDown", "Stopped"}
      BY <1>1 DEF IInv, TypeOK, BeginShutdown
    <3>2. comms' \in SUBSET Runs
      BY <1>1 DEF IInv, TypeOK, BeginShutdown, MaybeRun
    <3>3. todo' \in SUBSET Runs
      BY <1>1 DEF IInv, TypeOK, BeginShutdown, MaybeRun
    <3>4. shutdown' \in {"up", "terminate", "clear", "done"}
      BY <1>1 DEF IInv, TypeOK, BeginShutdown
    <3>5. UNCHANGED <<tab, results, timers, latest, now, stage, id, prev,
        expiry, life, cancelled, err, aim, client, answer, absent, renewed>>
      BY <1>1 DEF BeginShutdown
    <3> QED BY <3>1, <3>2, <3>3, <3>4, <3>5 DEF IInv, TypeOK
  <2>2. TabInv'
    BY <1>1 DEF IInv, TypeOK, TabInv, Owning, ShutdownInv, BeginShutdown
  <2>3. ShutdownInv'
    BY <1>1 DEF IInv, TypeOK, ShutdownInv, BeginShutdown
  <2>4. RetainedUntilExpiry'
    BY <1>1 DEF IInv, TypeOK, RetainedUntilExpiry, Unexpired, ShutdownInv,
        BeginShutdown
  <2>5. StoppedIsEmpty'
    BY <1>1 DEF IInv, TypeOK, StoppedIsEmpty, BeginShutdown
  <2>6. StageInv' /\ ExpiryInv' /\ LookupInv' /\ NoOrphanRun' /\
      ResultOfLatestRun' /\ NotFoundIsJustified'
    BY <1>1 DEF IInv, StageInv, ExpiryInv, LookupInv, Looking, NoOrphanRun,
        Targeted, ResultOfLatestRun, NotFoundIsJustified, BeginShutdown
  <2> QED BY <2>1, <2>2, <2>3, <2>4, <2>5, <2>6 DEF IInv
<1>2. ASSUME NEW r \in Runs, LookAtComm(r) PROVE IInv'
  <2>1. TypeOK'
    <3>1. aim' \in MaybeRun
      BY <1>2 DEF IInv, TypeOK, MaybeRun, LookAtComm
    <3>2. todo' \in SUBSET Runs
      BY <1>2 DEF IInv, TypeOK, LookAtComm
    <3>3. UNCHANGED <<state, tab, results, timers, latest, now, stage, id, prev,
        expiry, life, cancelled, err, shutdown, comms, client, answer, absent,
        renewed>>
      BY <1>2 DEF LookAtComm
    <3> QED BY <3>1, <3>2, <3>3 DEF IInv, TypeOK
  <2>2. StageInv' /\ TabInv' /\ ShutdownInv' /\ ExpiryInv' /\ LookupInv' /\
      NoOrphanRun' /\ ResultOfLatestRun' /\ RetainedUntilExpiry' /\
      StoppedIsEmpty' /\ NotFoundIsJustified'
    BY <1>2 DEF IInv, StageInv, TabInv, Owning, ShutdownInv, ExpiryInv,
        LookupInv, Looking, NoOrphanRun, Targeted, ResultOfLatestRun,
        RetainedUntilExpiry, Unexpired, StoppedIsEmpty, NotFoundIsJustified,
        LookAtComm
  <2> QED BY <2>1, <2>2 DEF IInv
<1>3. CASE StrikeComm
  <2>1. TypeOK'
    <3>1. err' \in [Runs -> ExitErrors]
      BY <1>3 DEF IInv, TypeOK, ExitErrors, StrikeComm, Strike, SetExitError
    <3>2. cancelled' \in [Runs -> BOOLEAN]
      BY <1>3 DEF IInv, TypeOK, StrikeComm, Strike, SetExitError
    <3>3. aim' \in MaybeRun
      BY <1>3 DEF IInv, TypeOK, MaybeRun, StrikeComm, Strike, SetExitError
    <3>4. UNCHANGED <<state, tab, results, timers, latest, now, stage, id, prev,
        expiry, life, shutdown, comms, todo, client, answer, absent, renewed>>
      BY <1>3 DEF StrikeComm, Strike, SetExitError
    <3> QED BY <3>1, <3>2, <3>3, <3>4 DEF IInv, TypeOK
  <2>2. StageInv'
    BY <1>3 DEF IInv, TypeOK, StageInv, StrikeComm, Strike, SetExitError
  <2>3. NoOrphanRun'
    BY <1>3 DEF IInv, TypeOK, NoOrphanRun, Targeted, StrikeComm, Strike,
        SetExitError
  <2>4. TabInv' /\ ShutdownInv' /\ ExpiryInv' /\ LookupInv' /\
      ResultOfLatestRun' /\ RetainedUntilExpiry' /\ StoppedIsEmpty' /\
      NotFoundIsJustified'
    BY <1>3 DEF IInv, TabInv, Owning, ShutdownInv, ExpiryInv, LookupInv,
        Looking, ResultOfLatestRun, RetainedUntilExpiry, Unexpired,
        StoppedIsEmpty, NotFoundIsJustified, StrikeComm, Strike, SetExitError
  <2> QED BY <2>1, <2>2, <2>3, <2>4 DEF IInv
<1>4. CASE JoinComms
  <2>1. TypeOK'
    <3>1. shutdown' \in {"up", "terminate", "clear", "done"}
      BY <1>4 DEF IInv, TypeOK, JoinComms
    <3>2. UNCHANGED <<state, tab, results, timers, latest, now, stage, id, prev,
        expiry, life, cancelled, err, comms, todo, aim, client, answer, absent,
        renewed>>
      BY <1>4 DEF JoinComms
    <3> QED BY <3>1, <3>2 DEF IInv, TypeOK
  <2>2. ShutdownInv'
    BY <1>4 DEF IInv, TypeOK, ShutdownInv, JoinComms
  <2>3. StageInv' /\ TabInv' /\ ExpiryInv' /\ LookupInv' /\ NoOrphanRun' /\
      ResultOfLatestRun' /\ RetainedUntilExpiry' /\ StoppedIsEmpty' /\
      NotFoundIsJustified'
    BY <1>4 DEF IInv, StageInv, TabInv, Owning, ExpiryInv, LookupInv, Looking,
        NoOrphanRun, Targeted, ResultOfLatestRun, RetainedUntilExpiry,
        Unexpired, StoppedIsEmpty, NotFoundIsJustified, JoinComms
  <2> QED BY <2>1, <2>2, <2>3 DEF IInv
<1>5. CASE ClearTables
  <2>1. TypeOK'
    <3>1. tab' \in [Ids -> MaybeRun]
      BY <1>5 DEF IInv, TypeOK, MaybeRun, ClearTables, Observe, Looking, Nothing
    <3>2. results' \in [Ids -> [run : MaybeRun, err : ExitErrors, at : Nat]]
      BY <1>5 DEF IInv, TypeOK, MaybeRun, ExitErrors, ClearTables, Observe,
          Looking, Nothing
    <3>3. state' \in {"Running", "ShuttingDown", "Stopped"}
      BY <1>5 DEF IInv, TypeOK, ClearTables, Observe, Looking, Nothing
    <3>4. shutdown' \in {"up", "terminate", "clear", "done"}
      BY <1>5 DEF IInv, TypeOK, ClearTables, Observe, Looking, Nothing
    <3>5. absent' \in [Clients -> BOOLEAN]
      BY <1>5 DEF IInv, TypeOK, ClearTables, Observe, Looking, Nothing
    <3>6. UNCHANGED <<timers, latest, now, stage, id, prev, expiry, life,
        cancelled, err, comms, todo, aim, client, answer, renewed>>
      BY <1>5 DEF ClearTables, Observe, Looking, Nothing
    <3> QED BY <3>1, <3>2, <3>3, <3>4, <3>5, <3>6 DEF IInv, TypeOK
  <2>2. TabInv'
    BY <1>5 DEF IInv, TypeOK, TabInv, Owning, ClearTables, Observe, Looking,
        Nothing
  <2>3. ShutdownInv'
    BY <1>5 DEF IInv, TypeOK, ShutdownInv, ClearTables, Observe, Looking,
        Nothing
  <2>4. ExpiryInv'
    BY <1>5 DEF IInv, TypeOK, ExpiryInv, ClearTables, Observe, Looking, Nothing
  <2>5. LookupInv'
    BY <1>5 DEF IInv, TypeOK, LookupInv, Looking, ClearTables, Observe, Nothing
  <2>6. NoOrphanRun'
    <3>1. /\ \A q \in comms : life[q] = "ended"
          /\ \A j \in Ids : tab[j] \in comms \cup {NoRun}
      BY <1>5 DEF ClearTables, IInv, ShutdownInv
    <3>2. \A q \in Runs : life[q] = "live" => tab[id[q]] # q
      BY <3>1 DEF IInv, TypeOK
    <3>3. UNCHANGED <<life, cancelled, id, stage, prev>>
      BY <1>5 DEF ClearTables
    <3> QED BY <3>2, <3>3 DEF IInv, NoOrphanRun, Targeted
  <2>7. ResultOfLatestRun'
    BY <1>5 DEF IInv, TypeOK, ResultOfLatestRun, ClearTables, Observe, Looking,
        Nothing
  <2>8. RetainedUntilExpiry'
    BY <1>5 DEF IInv, TypeOK, RetainedUntilExpiry, Unexpired, ClearTables,
        Observe, Looking, Nothing
  <2>9. StoppedIsEmpty'
    BY <1>5 DEF IInv, TypeOK, StoppedIsEmpty, ClearTables, Observe, Looking,
        Nothing
  <2>10. NotFoundIsJustified'
    BY <1>5 DEF IInv, TypeOK, NotFoundIsJustified, ClearTables, Observe,
        Looking, Nothing
  <2>11. StageInv'
    BY <1>5 DEF IInv, StageInv, ClearTables, Observe, Looking, Nothing
  <2> QED BY <2>1, <2>2, <2>3, <2>4, <2>5, <2>6, <2>7, <2>8, <2>9, <2>10, <2>11
      DEF IInv
<1> QED BY <1>1, <1>2, <1>3, <1>4, <1>5 DEF ShutdownStep

(* A lookup begins. *)
LEMMA AskKeepsInv ==
  ASSUME IInv, NEW c \in Clients, NEW at \in {"exitError", "wait", "terminate"}, BeginLookup(c, at) PROVE IInv'
<1> USE DispatcherAssumption DEF table, request, comm, stopping, lookups
<1>1. CASE BeginLookup(c, at)
  <2>1. TypeOK'
    <3>1. client' \in [Clients -> [at : Places, id : Ids, run : MaybeRun]]
      BY <1>1 DEF IInv, TypeOK, Places, MaybeRun, BeginLookup, Looking
    <3>2. absent' \in [Clients -> BOOLEAN]
      BY <1>1 DEF IInv, TypeOK, BeginLookup, Looking
    <3>3. renewed' \in [Clients -> BOOLEAN]
      BY <1>1 DEF IInv, TypeOK, BeginLookup, Looking
    <3>4. answer' \in [Clients -> Answers]
      BY <1>1 DEF IInv, TypeOK, Answers, ExitErrors, BeginLookup, Looking
    <3>5. UNCHANGED <<state, tab, results, timers, latest, now, stage, id, prev,
        expiry, life, cancelled, err, shutdown, comms, todo, aim>>
      BY <1>1 DEF BeginLookup, Looking
    <3> QED BY <3>1, <3>2, <3>3, <3>4, <3>5 DEF IInv, TypeOK
  <2>2. LookupInv'
    <3>1. PICK i \in Ids :
            /\ client' = [client EXCEPT ![c] = [at |-> at, id |-> i, run |-> NoRun]]
            /\ absent' = [absent EXCEPT ![c] = tab[i] = NoRun /\ results[i].run = NoRun]
      BY <1>1 DEF BeginLookup
    <3>2. /\ client'[c] = [at |-> at, id |-> i, run |-> NoRun]
          /\ absent'[c] <=> tab[i] = NoRun /\ results[i].run = NoRun
      BY <3>1 DEF IInv, TypeOK
    <3>3. \A d \in Clients : d # c => /\ client'[d] = client[d]
                                      /\ absent'[d] = absent[d] /\ renewed'[d] = renewed[d]
      BY <1>1, <3>1 DEF BeginLookup, IInv, TypeOK
    <3>4. tab' = tab /\ results' = results
      BY <1>1 DEF BeginLookup
    <3> QED BY <3>2, <3>3, <3>4 DEF IInv, LookupInv, Looking
  <2>3. NotFoundIsJustified'
    BY <1>1 DEF IInv, TypeOK, NotFoundIsJustified, BeginLookup, Looking
  <2>4. StageInv' /\ TabInv' /\ ShutdownInv' /\ ExpiryInv' /\ NoOrphanRun' /\
      ResultOfLatestRun' /\ RetainedUntilExpiry' /\ StoppedIsEmpty'
    BY <1>1 DEF IInv, StageInv, TabInv, Owning, ShutdownInv, ExpiryInv,
        NoOrphanRun, Targeted, ResultOfLatestRun, RetainedUntilExpiry,
        Unexpired, StoppedIsEmpty, BeginLookup, Looking
  <2> QED BY <2>1, <2>2, <2>3, <2>4 DEF IInv
<1> QED BY <1>1

(* A handler moves one lookup on, and perhaps answers it.  The table does   *)
(* not change, so what the lookup may rely on stays true.                   *)
Lookup == [at : Places, id : Ids, run : MaybeRun]

LEMMA AwayType == Away \in Lookup
BY DispatcherAssumption DEF Away, Lookup, Places, MaybeRun

LEMMA OneLookupMoves ==
  ASSUME IInv, NEW c \in Clients, NEW p \in Lookup, NEW a \in Answers,
         client' = [client EXCEPT ![c] = p], answer' = [answer EXCEPT ![c] = a],
         UNCHANGED <<tab, results, absent, renewed>>,
         p.at # "away" => p.id = client[c].id /\ Looking(c),
         p.at \in {"retained", "waitRetained"}
           => absent[c] \/ renewed[c] \/ results[p.id].run # NoRun,
         p.at \in {"isMoving", "readErr", "join", "look", "strike"} => p.run \in Runs,
         a = "NotFound" => absent[c] \/ renewed[c]
  PROVE  /\ client' \in [Clients -> Lookup] /\ answer' \in [Clients -> Answers]
         /\ LookupInv' /\ NotFoundIsJustified'
<1>1. client \in [Clients -> Lookup] /\ answer \in [Clients -> Answers]
  BY DEF IInv, TypeOK, Lookup
<1>2. client' \in [Clients -> Lookup] /\ answer' \in [Clients -> Answers]
  BY <1>1
<1>3. client'[c] = p /\ answer'[c] = a
  BY <1>1
<1>4. \A d \in Clients : d # c => client'[d] = client[d] /\ answer'[d] = answer[d]
  BY <1>1
<1>5. LookupInv'
  BY <1>3, <1>4 DEF IInv, LookupInv, Looking
<1>6. NotFoundIsJustified'
  BY <1>3, <1>4 DEF IInv, NotFoundIsJustified
<1> QED BY <1>2, <1>5, <1>6

(* An answer ends the lookup.                                               *)
LEMMA AnswerKeepsLookups ==
  ASSUME IInv, NEW c \in Clients, NEW a \in Answers, Answer(c, a),
         UNCHANGED <<tab, results, absent, renewed>>,
         a = "NotFound" => absent[c] \/ renewed[c]
  PROVE  /\ client' \in [Clients -> Lookup] /\ answer' \in [Clients -> Answers]
         /\ LookupInv' /\ NotFoundIsJustified'
<1>1. Away \in Lookup /\ Away.at = "away"
  BY AwayType DEF Away
<1> QED BY <1>1, OneLookupMoves DEF Answer

(* A lookup that goes on answers nothing yet.                               *)
LEMMA MoveKeepsLookups ==
  ASSUME IInv, NEW c \in Clients, NEW p \in Lookup, Looking(c),
         client' = [client EXCEPT ![c] = p], answer' = answer,
         UNCHANGED <<tab, results, absent, renewed>>, p.id = client[c].id,
         p.at \in {"retained", "waitRetained"}
           => absent[c] \/ renewed[c] \/ results[p.id].run # NoRun,
         p.at \in {"isMoving", "readErr", "join", "look", "strike"} => p.run \in Runs
  PROVE  /\ client' \in [Clients -> Lookup] /\ answer' \in [Clients -> Answers]
         /\ LookupInv' /\ NotFoundIsJustified'
<1>1. answer[c] \in Answers /\ answer' = [answer EXCEPT ![c] = answer[c]]
  BY DEF IInv, TypeOK
<1>2. answer[c] = "NotFound" => absent[c] \/ renewed[c]
  BY DEF IInv, NotFoundIsJustified
<1> QED BY <1>1, <1>2, OneLookupMoves

(* Away from the communicators, that is the whole invariant.                *)
LEMMA LookupsOnly ==
  ASSUME IInv, client' \in [Clients -> Lookup], answer' \in [Clients -> Answers],
         LookupInv', NotFoundIsJustified',
         UNCHANGED <<table, now, request, comm, stopping, absent, renewed>>
  PROVE  IInv'
<1> USE DEF table, request, comm, stopping
<1>1. TypeOK'
  BY DEF IInv, TypeOK, Lookup
<1>2. /\ StageInv' /\ TabInv' /\ ShutdownInv' /\ ExpiryInv' /\ NoOrphanRun'
      /\ ResultOfLatestRun' /\ RetainedUntilExpiry' /\ StoppedIsEmpty'
  BY DEF IInv, StageInv, TabInv, Owning, ShutdownInv, ExpiryInv, NoOrphanRun, Targeted,
         ResultOfLatestRun, RetainedUntilExpiry, Unexpired, StoppedIsEmpty
<1> QED BY <1>1, <1>2 DEF IInv

(* handleExitError, handleBlockingWait and handleTerminate.                 *)
LEMMA LookupKeepsInv ==
  ASSUME IInv, NEW c \in Clients, LookupStep(c) PROVE IInv'
<1> USE DispatcherAssumption DEF table, request, comm, stopping
<1>1. /\ client[c] \in Lookup /\ client[c].id \in Ids /\ tab[client[c].id] \in MaybeRun
      /\ client[c].run \in MaybeRun /\ results[client[c].id].err \in ExitErrors
      /\ \A r \in Runs : err[r] \in ExitErrors
  BY DEF IInv, TypeOK, Lookup
<1>2. \A q \in Places, s \in MaybeRun : [at |-> q, id |-> client[c].id, run |-> s] \in Lookup
  BY <1>1 DEF Lookup
<1>3. client[c] = [at |-> client[c].at, id |-> client[c].id, run |-> client[c].run]
  BY <1>1 DEF Lookup
<1>4. client[c].at \in {"isMoving", "readErr", "join", "look", "strike"} => client[c].run \in Runs
  BY DEF IInv, LookupInv
<1>5. CASE Dispatch(c)
  <2>1. Looking(c)
    BY <1>5 DEF Dispatch, Looking
  <2>2. CASE Found(c)
    <3> DEFINE next(q) == [at |-> q, id |-> client[c].id, run |-> tab[client[c].id]]
    <3>1. PICK q \in {"isMoving", "join", "look"} : client' = [client EXCEPT ![c] = next(q)]
      <4>1. client' = [client EXCEPT ![c] = next(Handling[client[c].at])]
        BY <1>5, <2>2 DEF Dispatch
      <4>2. Handling[client[c].at] \in {"isMoving", "join", "look"}
        BY <1>5 DEF Dispatch, Handling
      <4> QED BY <4>1, <4>2
    <3>2. tab[client[c].id] \in Runs /\ q \in Places
      BY <1>1, <2>2 DEF Found, MaybeRun, Places
    <3> QED BY <1>1, <1>2, <1>5, <2>1, <2>2, <3>1, <3>2, MoveKeepsLookups, LookupsOnly
            DEF Dispatch, Found
  <2>3. CASE ~Found(c) /\ client[c].at # "terminate"
    <3>1. PICK q \in {"retained", "waitRetained"} :
            client' = [client EXCEPT ![c] = [at |-> q, id |-> client[c].id, run |-> client[c].run]]
      BY <1>3, <1>5, <2>3 DEF Dispatch, Found
    <3>2. absent[c] \/ results[client[c].id].run # NoRun
      BY <2>1, <2>3 DEF Found, IInv, LookupInv
    <3> QED BY <1>1, <1>2, <1>5, <2>1, <2>3, <3>1, <3>2, MoveKeepsLookups, LookupsOnly
            DEF Dispatch, Found, Places
  <2>4. CASE ~Found(c) /\ client[c].at = "terminate"
    BY <1>5, <2>4, AnswerKeepsLookups, LookupsOnly DEF Dispatch, Answers
  <2> QED BY <2>2, <2>3, <2>4
<1>6. CASE Retained(c)
  <2>1. PICK a \in Answers : Answer(c, a) /\ (a = "NotFound" => results[client[c].id].run = NoRun)
    BY <1>1, <1>6 DEF Retained, Answers, ExitErrors
  <2>2. results[client[c].id].run = NoRun => absent[c] \/ renewed[c]
    BY <1>6 DEF Retained, IInv, LookupInv
  <2> QED BY <1>6, <2>1, <2>2, AnswerKeepsLookups, LookupsOnly DEF Retained
<1>7. CASE AskIsMoving(c) \/ LookAtActive(c)
  <2>1. Looking(c) /\ UNCHANGED <<table, now, request, comm, stopping, absent, renewed>>
    BY <1>7 DEF AskIsMoving, LookAtActive, Looking
  <2>2. CASE \E a \in {"StillRunning", "ok"} : Answer(c, a)
    BY <2>1, <2>2, AnswerKeepsLookups, LookupsOnly DEF Answers
  <2>3. CASE ~\E a \in {"StillRunning", "ok"} : Answer(c, a)
    <3>1. PICK q \in {"readErr", "strike"} :
            /\ client' = [client EXCEPT ![c] = [at |-> q, id |-> client[c].id, run |-> client[c].run]]
            /\ answer' = answer /\ client[c].run \in Runs
      BY <1>3, <1>4, <1>7, <2>3 DEF AskIsMoving, LookAtActive
    <3> QED BY <1>1, <1>2, <2>1, <3>1, MoveKeepsLookups, LookupsOnly DEF Places
  <2> QED BY <2>2, <2>3
<1>8. CASE ReadErr(c) \/ Join(c)
  <2>1. PICK a \in ExitErrors \cup {"over"} : Answer(c, a)
    BY <1>1, <1>4, <1>8 DEF ReadErr, Join
  <2>2. a \in Answers /\ a # "NotFound"
    BY <2>1 DEF Answers, ExitErrors
  <2> QED BY <1>8, <2>1, <2>2, AnswerKeepsLookups, LookupsOnly DEF ReadErr, Join
<1>9. CASE StrikeActive(c)
  <2>1. /\ client' \in [Clients -> Lookup] /\ answer' \in [Clients -> Answers]
        /\ LookupInv' /\ NotFoundIsJustified'
    BY <1>9, AnswerKeepsLookups DEF StrikeActive, Answers
  <2>2. /\ client[c].run \in Runs /\ life' = life
        /\ err' = [err EXCEPT ![client[c].run] = IF @ = "nil" THEN "Terminated" ELSE @]
        /\ cancelled' = [cancelled EXCEPT ![client[c].run] = TRUE]
    BY <1>4, <1>9 DEF StrikeActive, Strike, SetExitError
  <2>3. UNCHANGED <<table, now, request, stopping, absent, renewed>>
    BY <1>9 DEF StrikeActive
  <2>4. /\ cancelled' \in [Runs -> BOOLEAN] /\ err' \in [Runs -> ExitErrors]
        /\ \A r \in Runs : cancelled[r] => cancelled'[r]
    BY <2>2 DEF IInv, TypeOK, ExitErrors
  <2>5. TypeOK'
    BY <2>1, <2>2, <2>3, <2>4 DEF IInv, TypeOK, Lookup
  <2>6. StageInv' /\ NoOrphanRun'
    BY <2>2, <2>3, <2>4 DEF IInv, StageInv, NoOrphanRun, Targeted
  <2>7. /\ TabInv' /\ ShutdownInv' /\ ExpiryInv' /\ ResultOfLatestRun'
        /\ RetainedUntilExpiry' /\ StoppedIsEmpty'
    BY <2>2, <2>3 DEF IInv, TabInv, Owning, ShutdownInv, ExpiryInv, ResultOfLatestRun,
           RetainedUntilExpiry, Unexpired, StoppedIsEmpty
  <2> QED BY <2>1, <2>5, <2>6, <2>7 DEF IInv
<1> QED BY <1>5, <1>6, <1>7, <1>8, <1>9 DEF LookupStep

-----------------------------------------------------------------------------
LEMMA InitInv == Init => IInv
<1> SUFFICES ASSUME Init PROVE IInv
  OBVIOUS
<1> USE DispatcherAssumption DEF Init, Nothing
<1>1. TypeOK
  <2>1. client \in [Clients -> Lookup]
    BY AwayType
  <2>2. results \in [Ids -> [run : MaybeRun, err : ExitErrors, at : Nat]]
    BY DEF MaybeRun, ExitErrors
  <2> QED BY <2>1, <2>2 DEF TypeOK, Lookup, MaybeRun, Stages, ExitErrors, Answers
<1>2. StageInv /\ TabInv /\ ShutdownInv /\ ExpiryInv
  BY DEF StageInv, TabInv, Owning, ShutdownInv, ExpiryInv
<1>3. LookupInv /\ NotFoundIsJustified
  BY DEF LookupInv, Looking, Away, NotFoundIsJustified
<1>4. NoOrphanRun /\ ResultOfLatestRun /\ RetainedUntilExpiry /\ StoppedIsEmpty
  BY DEF NoOrphanRun, ResultOfLatestRun, RetainedUntilExpiry, Unexpired, StoppedIsEmpty
<1> QED BY <1>1, <1>2, <1>3, <1>4 DEF IInv

LEMMA NextKeepsInv == IInv /\ [Next]_vars => IInv'
<1> SUFFICES ASSUME IInv, [Next]_vars PROVE IInv'
  OBVIOUS
<1>1. CASE UNCHANGED vars
  <2> USE <1>1 DEF vars, table, request, comm, stopping, lookups
  <2>1. TypeOK' /\ StageInv' /\ TabInv' /\ ShutdownInv' /\ ExpiryInv'
    BY DEF IInv, TypeOK, StageInv, TabInv, Owning, ShutdownInv, ExpiryInv
  <2>2. LookupInv' /\ NoOrphanRun' /\ ResultOfLatestRun'
    BY DEF IInv, LookupInv, Looking, NoOrphanRun, Targeted, ResultOfLatestRun
  <2>3. RetainedUntilExpiry' /\ StoppedIsEmpty' /\ NotFoundIsJustified'
    BY DEF IInv, RetainedUntilExpiry, Unexpired, StoppedIsEmpty, NotFoundIsJustified
  <2> QED BY <2>1, <2>2, <2>3 DEF IInv
<1>2. ASSUME NEW c \in Clients, AskExitError(c) \/ AskWait(c) \/ AskTerminate(c) PROVE IInv'
  BY <1>2, AskKeepsInv DEF AskExitError, AskWait, AskTerminate
<1> QED BY <1>1, <1>2, FindPathKeepsInv, CompletionKeepsInv, RunKeepsInv, ShutdownKeepsInv,
           LookupKeepsInv DEF Next

(* Every reachable state of the session table satisfies the invariant.      *)
THEOREM Invariance == Spec => []IInv
<1>1. Init => IInv
  BY InitInv
<1>2. IInv /\ [Next]_vars => IInv'
  BY NextKeepsInv
<1> QED BY <1>1, <1>2, PTL DEF Spec

-----------------------------------------------------------------------------
(* Every variable keeps its type. *)
THEOREM TypeCorrect == Spec => []TypeOK
<1>1. IInv => TypeOK
  BY DEF IInv
<1> QED BY Invariance, <1>1, PTL

(* No run escapes: whoever replaced it, refused it or shut the service down *)
(* has cancelled it or is about to (handleAgentFindPath, addCommIfRunning,  *)
(* stopActiveAgents).                                                       *)
THEOREM NoRunEscapes == Spec => []NoOrphanRun
<1>1. IInv => NoOrphanRun
  BY DEF IInv
<1> QED BY Invariance, <1>1, PTL

(* A retained result is the end of the latest run of its agent, and no      *)
(* timer of an earlier run takes it away (completeComm).                    *)
THEOREM ResultsAreRetained == Spec => []RetentionIsRight
<1>1. IInv => RetentionIsRight
  BY DEF IInv, RetentionIsRight
<1> QED BY Invariance, <1>1, PTL

(* Once shutdown has cleared the tables they stay empty (addCommIfRunning,  *)
(* stopActiveAgents).                                                       *)
THEOREM StoppedStaysEmpty == Spec => []StoppedIsEmpty
<1>1. IInv => StoppedIsEmpty
  BY DEF IInv
<1> QED BY Invariance, <1>1, PTL

(* NotFound has a reason: the agent was absent at some moment of the        *)
(* lookup, or was restarted during it (dispatch, completedExitError).       *)
THEOREM NotFoundHasAReason == Spec => []NotFoundIsJustified
<1>1. IInv => NotFoundIsJustified
  BY DEF IInv
<1> QED BY Invariance, <1>1, PTL
=============================================================================
