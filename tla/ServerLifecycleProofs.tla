----------------------- MODULE ServerLifecycleProofs -----------------------
(***************************************************************************)
(* What ServerLifecycle guarantees for any groups, topics, addresses,      *)
(* callers of Stop and numbers of starts and faults.  The argument: the    *)
(* goroutine that owns the listener is the only one that registers or      *)
(* deregisters (OwnerInv), so what it reads of the subscriptions stays     *)
(* true until it uses it (SubsInv), and it deregisters before it closes    *)
(* the listener (GoneInv).                                                 *)
(***************************************************************************)
EXTENDS ServerLifecycle, TLAPS

\* A goroutine that goes to another pc keeps the type of proc ...
LEMMA GotoType ==
  ASSUME TypeOK, NEW p \in Procs, NEW pc \in Pcs, Goto(p, pc)
  PROVE  proc' \in [Procs -> ProcType]
  BY DEF TypeOK, Goto, ProcType

\* ... and so does one that returns from Register.
LEMMA ReturnType ==
  ASSUME TypeOK, NEW p \in Procs, Return(p)
  PROVE  proc' \in [Procs -> ProcType]
  <1>1. [pc |-> Back(p), addr |-> NoAddr, todo |-> {}] \in ProcType
    BY DEF Back, ProcType, Pcs
  <1> QED  BY <1>1 DEF TypeOK, Return

\* Where the goroutines are after a step to another pc.
LEMMA GotoAt ==
  ASSUME TypeOK, NEW p \in Procs, NEW pc, Goto(p, pc)
  PROVE  /\ proc'[p].pc = pc /\ proc'[p].todo = proc[p].todo
         /\ \A q \in Procs : q # p => proc'[q] = proc[q]
  BY DEF TypeOK, Goto, ProcType

\* Where they are after Register has returned.
LEMMA ReturnAt ==
  ASSUME TypeOK, NEW p \in Procs, Return(p)
  PROVE  /\ proc'[p].pc = Back(p) /\ proc'[p].todo = {}
         /\ \A q \in Procs : q # p => proc'[q] = proc[q]
  BY DEF TypeOK, Return

\* Every step keeps the types; a subscription is added only where there is none.
LEMMA TypeStep ==
  ASSUME TypeOK, ServerInv, [Next]_vars
  PROVE  TypeOK'
  <1> USE DEF ServerInv
  <1>1. CASE Listen
    <2>1. proc' \in [Procs -> ProcType]  BY <1>1, GotoType DEF Listen, Pcs, Procs
    <2> QED  BY <1>1, <2>1, ServerAssumption
        DEF Listen, server, broker, outside, history, At, TypeOK, Loops
  <1>2. CASE BrokerStart
    <2>1. proc' \in [Procs -> ProcType]  BY <1>2, GotoType
        DEF BrokerStart, Pcs, Procs
    <2> QED  BY <1>2, <2>1, ServerAssumption
        DEF BrokerStart, server, broker, outside, history, At, TypeOK
  <1>3. CASE BrokerStartFails
    <2>1. proc' \in [Procs -> ProcType]  BY <1>3, GotoType
        DEF BrokerStartFails, Pcs, Procs
    <2>2. faults' \in Nat  BY <1>3 DEF BrokerStartFails, Fails, TypeOK
    <2>3. failed' \in BOOLEAN /\ listening' \in BOOLEAN  BY <1>3, Zenon
        DEF BrokerStartFails, Fails
    <2> QED  BY <1>3, <2>1, <2>2, <2>3
        DEF BrokerStartFails, server, broker, outside, history, At, TypeOK
  <1>4. CASE Spawn
    <2>1. starts \in Procs /\ starts # Main /\ Main \in Procs
      BY <1>4, ServerAssumption DEF Spawn, At, OwnerInv, Active, Procs, Main, Loops
    <2>2. /\ [proc[Main] EXCEPT !.pc = "idle"] \in ProcType
          /\ [proc[starts] EXCEPT !.pc = "select"] \in ProcType
      BY <2>1 DEF TypeOK, ProcType, Pcs
    <2>3. proc' = [q \in Procs |-> IF q = Main THEN [proc[Main] EXCEPT !.pc = "idle"]
                                  ELSE IF q = starts THEN [proc[starts] EXCEPT !.pc = "select"]
                                  ELSE proc[q]]
      BY <1>4, <2>1 DEF Spawn, TypeOK
    <2>4. proc' \in [Procs -> ProcType]
      BY <2>1, <2>2, <2>3 DEF TypeOK
    <2> QED  BY <1>4, <2>4 DEF Spawn, server, broker, outside, history, At, TypeOK
  <1>5. CASE Move
    BY <1>5, ServerAssumption
    DEF Move, server, broker, outside, history, At, TypeOK
  <1>6. CASE Check
    BY <1>6, ServerAssumption
    DEF Check, server, broker, outside, history, At, TypeOK
  <1>7. ASSUME NEW p \in Procs, RegisterBegins(p)  PROVE  TypeOK'
    <2>1. proc' \in [Procs -> ProcType]
      BY <1>7 DEF RegisterBegins, TypeOK, ProcType, Pcs
    <2> QED  BY <1>7, <2>1
        DEF RegisterBegins, server, broker, outside, history, At, TypeOK
  <1>8. ASSUME NEW p \in Procs, RegisterService(p)  PROVE  TypeOK'
    <2>1. proc' \in [Procs -> ProcType]
      BY <1>8 DEF RegisterService, TypeOK, ProcType
    <2>2. proc[p].addr \in Addrs \cup {NoAddr}  BY DEF TypeOK, ProcType
    <2>3. records' \in [Names -> Addrs \cup {NoAddr}]
      BY <1>8, <2>2 DEF RegisterService, TypeOK
    <2> QED  BY <1>8, <2>1, <2>3
        DEF RegisterService, server, broker, outside, history, At, TypeOK
  <1>9. ASSUME NEW p \in Procs, RegisterServiceFails(p)  PROVE  TypeOK'
    <2>1. proc' \in [Procs -> ProcType]  BY <1>9, ReturnType
        DEF RegisterServiceFails
    <2> QED  BY <1>9, <2>1
        DEF RegisterServiceFails, Fails, server, broker, outside, history, At,
            TypeOK
  <1>10. ASSUME NEW p \in Procs, Registered(p)  PROVE  TypeOK'
    <2>1. proc' \in [Procs -> ProcType]
      BY <1>10, GotoType, ReturnType DEF Registered, Pcs
    <2>2. proc[p].addr \in Addrs \cup {NoAddr}  BY DEF TypeOK, ProcType
    <2>3. services' \in Addrs \cup {NoAddr} /\ registered' \in BOOLEAN
      BY <1>10, <2>2 DEF Registered, TypeOK, server
    <2> QED  BY <1>10, <2>1, <2>3
        DEF Registered, server, broker, outside, history, At, TypeOK
  <1>11. ASSUME NEW p \in Procs, SubscribeName(p)  PROVE  TypeOK'
    <2>1. proc' \in [Procs -> ProcType]
      BY <1>11 DEF SubscribeName, TypeOK, ProcType, Pcs
    <2>2. subs' \in [Topics \cup {Own} -> 0 .. 1]
      BY <1>11 DEF SubscribeName, Subscribe, TypeOK, SubsInv
    <2> QED  BY <1>11, <2>1, <2>2
        DEF SubscribeName, Subscribe, server, broker, outside, history, At, TypeOK
  <1>12. ASSUME NEW p \in Procs, SubscribeTopic(p)  PROVE  TypeOK'
    <2>1. CASE proc[p].todo = {}
      BY <1>12, <2>1, ReturnType
      DEF SubscribeTopic, server, broker, outside, history, At, TypeOK
    <2>2. ASSUME NEW t \in proc[p].todo, Subscribe(t),
                 proc' = [proc EXCEPT ![p].todo = @ \ {t}]
          PROVE  TypeOK'
      <3>1. proc' \in [Procs -> ProcType]  BY <2>2 DEF TypeOK, ProcType
      <3>2. subs' \in [Topics \cup {Own} -> 0 .. 1]
        BY <1>12, <2>2 DEF SubscribeTopic, Subscribe, TypeOK, SubsInv, At
      <3> QED  BY <1>12, <2>2, <3>1, <3>2
          DEF SubscribeTopic, Subscribe, server, broker, outside, history, At,
              TypeOK
    <2> QED  BY <1>12, <2>1, <2>2 DEF SubscribeTopic
  <1>13. ASSUME NEW p \in Procs, SubscribeFails(p)  PROVE  TypeOK'
    <2>1. proc' \in [Procs -> ProcType]  BY <1>13, ReturnType DEF SubscribeFails
    <2>2. faults' \in Nat  BY <1>13 DEF SubscribeFails, Fails, TypeOK
    <2>3. failed' \in BOOLEAN /\ subFailed' \in BOOLEAN  BY <1>13, Zenon
        DEF SubscribeFails, Fails
    <2> QED  BY <1>13, <2>1, <2>2, <2>3
        DEF SubscribeFails, server, broker, outside, history, At, TypeOK
  <1>14. ASSUME NEW p \in Procs, Deregister(p)  PROVE  TypeOK'
    <2>1. proc' \in [Procs -> ProcType]  BY <1>14, GotoType
        DEF Deregister, Onwards, Pcs
    <2>2. subs' \in [Topics \cup {Own} -> 0 .. 1] /\ records' \in [Names -> Addrs \cup {NoAddr}]
      BY <1>14 DEF Deregister, TypeOK, Names
    <2> QED  BY <1>14, <2>1, <2>2 DEF Deregister, TypeOK
  <1>15. ASSUME NEW p \in Procs, DeregisterFails(p)  PROVE  TypeOK'
    <2>1. proc' \in [Procs -> ProcType]  BY <1>15, GotoType
        DEF DeregisterFails, Onwards, Pcs, Procs
    <2> QED  BY <1>15, <2>1, ServerAssumption
        DEF DeregisterFails, Fails, server, broker, outside, history, At, TypeOK
  <1>16. ASSUME NEW p \in Loops, Tick(p)  PROVE  TypeOK'
    <2>1. proc' \in [Procs -> ProcType]  BY <1>16, GotoType DEF Tick, Pcs, Procs
    <2> QED  BY <1>16, <2>1, ServerAssumption
        DEF Tick, server, broker, outside, history, At, TypeOK
  <1>17. ASSUME NEW p \in Loops, CloseListener(p)  PROVE  TypeOK'
    <2>1. proc' \in [Procs -> ProcType]  BY <1>17, GotoType
        DEF CloseListener, Pcs, Procs
    <2> QED  BY <1>17, <2>1, ServerAssumption
        DEF CloseListener, server, broker, outside, history, At, TypeOK
  <1>18. ASSUME NEW p \in Loops, CloseBroker(p)  PROVE  TypeOK'
    <2>1. proc' \in [Procs -> ProcType]  BY <1>18, GotoType
        DEF CloseBroker, Pcs, Procs
    <2> QED  BY <1>18, <2>1, ServerAssumption
        DEF CloseBroker, server, broker, outside, history, At, TypeOK
  <1>19. ASSUME NEW p \in Loops, Answer(p)  PROVE  TypeOK'
    <2>1. proc' \in [Procs -> ProcType]  BY <1>19, GotoType DEF Answer, Pcs, Procs
    <2> QED  BY <1>19, <2>1, ServerAssumption
        DEF Answer, server, broker, outside, history, At, TypeOK
  <1>20. ASSUME NEW p \in Loops, NEW s \in Stoppers, ReceiveExit(p, s)  PROVE  TypeOK'
    <2>1. proc' \in [Procs -> ProcType]  BY <1>20, GotoType
        DEF ReceiveExit, Pcs, Procs
    <2> QED  BY <1>20, <2>1, ServerAssumption
        DEF ReceiveExit, server, broker, outside, history, At, TypeOK
  <1>21. ASSUME NEW s \in Stoppers, Stop(s)  PROVE  TypeOK'
    BY <1>21, ServerAssumption
    DEF Stop, server, broker, outside, history, At, TypeOK
  <1>22. ASSUME NEW n \in Names, Lapse(n)  PROVE  TypeOK'
    BY <1>22, ServerAssumption
    DEF Lapse, Fails, server, broker, outside, history, At, TypeOK
  <1>23. CASE UNCHANGED vars
    BY <1>23 DEF vars, server, broker, outside, history, At, TypeOK
  <1> QED  BY <1>1, <1>2, <1>3, <1>4, <1>5, <1>6, <1>7, <1>8, <1>9, <1>10, <1>11,
      <1>12, <1>13, <1>14, <1>15, <1>16, <1>17, <1>18, <1>19, <1>20, <1>21, <1>22,
      <1>23
    DEF Next, StartStep, LoopStep, RegisterStep, Procs

\* Every step keeps one owner of the listener.
LEMMA OwnerStep ==
  ASSUME TypeOK, ServerInv, [Next]_vars
  PROVE  OwnerInv'
  <1> USE DEF ServerInv
  <1>1. CASE Listen
    BY <1>1, ServerAssumption
    DEF Listen, Goto, server, broker, outside, history, At, OwnerInv,
        ListenerOwned, Active, Procs, Main, Loops, TypeOK
  <1>2. CASE BrokerStart
    BY <1>2, ServerAssumption
    DEF BrokerStart, Goto, server, broker, outside, history, At, OwnerInv,
        ListenerOwned, Active, Procs, Main, Loops, TypeOK
  <1>3. CASE BrokerStartFails
    BY <1>3, ServerAssumption
    DEF BrokerStartFails, Goto, Fails, server, broker, outside, history, At,
        OwnerInv, ListenerOwned, Active, Procs, Main, Loops, TypeOK
  <1>4. CASE Spawn
    <2>1. starts \in Procs /\ starts # Main /\ Main \in Procs /\ starts \in Nat
      BY <1>4, ServerAssumption DEF Spawn, At, OwnerInv, Active, Procs, Main, Loops
    <2>2. /\ proc'[Main].pc = "idle" /\ proc'[starts].pc = "select"
          /\ \A q \in Procs : q # Main /\ q # starts => proc'[q] = proc[q]
      BY <1>4, <2>1 DEF Spawn, TypeOK, ProcType
    <2>3. starts' = starts /\ listening' = listening /\ registered' = registered /\ services' = services
      BY <1>4 DEF Spawn
    <2>4. \A q \in Procs : Active(q) => q = Main
      BY <1>4, <2>1 DEF Spawn, At, OwnerInv, Active
    <2>5. \A q \in Procs : Active(q)' <=> q = starts
      BY <2>1, <2>2, <2>4 DEF Active
    <2>6. listening
      BY <1>4, <2>1 DEF Spawn, At, OwnerInv, ListenerOwned, Active
    <2>7. (\A p, q \in Procs : Active(p) /\ Active(q) => p = q)' /\ ListenerOwned'
      BY <2>1, <2>3, <2>5, <2>6 DEF ListenerOwned
    <2>8. ~Active(Main)'  BY <2>1, <2>5
    <2>9. \A l \in Loops : l > starts => l # Main /\ l # starts /\ l \in Procs
      BY <2>1 DEF Loops, Main, Procs
    <2>10. (\A l \in Loops : l > starts => At(l, "off"))'
      BY <2>2, <2>3, <2>9 DEF OwnerInv, At
    <2>11. (\A p \in Procs : At(p, "renew") => registered)' /\ (services # NoAddr => registered)'
      BY <2>1, <2>2, <2>3 DEF OwnerInv, At
    <2> QED  BY <2>7, <2>8, <2>10, <2>11 DEF OwnerInv
  <1>5. CASE Move
    BY <1>5, ServerAssumption
    DEF Move, server, broker, outside, history, At, OwnerInv, ListenerOwned,
        Active, Procs, Main, Loops, TypeOK
  <1>6. CASE Check
    BY <1>6, ServerAssumption
    DEF Check, server, broker, outside, history, At, OwnerInv, ListenerOwned,
        Active, Procs, Main, Loops, TypeOK
  <1>7. ASSUME NEW p \in Procs, RegisterBegins(p)  PROVE  OwnerInv'
    BY <1>7, ServerAssumption
    DEF RegisterBegins, server, broker, outside, history, At, OwnerInv,
        ListenerOwned, Active, Procs, Main, Loops, TypeOK
  <1>8. ASSUME NEW p \in Procs, RegisterService(p)  PROVE  OwnerInv'
    BY <1>8, ServerAssumption
    DEF RegisterService, server, broker, outside, history, At, OwnerInv,
        ListenerOwned, Active, Procs, Main, Loops, TypeOK
  <1>9. ASSUME NEW p \in Procs, RegisterServiceFails(p)  PROVE  OwnerInv'
    BY <1>9, ServerAssumption
    DEF RegisterServiceFails, Fails, Return, Back, server, broker, outside,
        history, At, OwnerInv, ListenerOwned, Active, Procs, Main, Loops, TypeOK
  <1>10. ASSUME NEW p \in Procs, Registered(p)  PROVE  OwnerInv'
    <2>1. CASE At(p, "renew") \/ registered
      BY <1>10, <2>1, ReturnAt
      DEF Registered, Back, TypeOK, server, broker, outside, history, At,
          OwnerInv, ListenerOwned, Active, Procs, Main, Loops
    <2>2. CASE ~(At(p, "renew") \/ registered)
      BY <1>10, <2>2, GotoAt
      DEF Registered, TypeOK, server, broker, outside, history, At, OwnerInv,
          ListenerOwned, Active, Procs, Main, Loops
    <2> QED  BY <2>1, <2>2
  <1>11. ASSUME NEW p \in Procs, SubscribeName(p)  PROVE  OwnerInv'
    BY <1>11, ServerAssumption
    DEF SubscribeName, Subscribe, server, broker, outside, history, At, OwnerInv,
        ListenerOwned, Active, Procs, Main, Loops, TypeOK
  <1>12. ASSUME NEW p \in Procs, SubscribeTopic(p)  PROVE  OwnerInv'
    <2>1. CASE proc[p].todo = {}
      BY <1>12, <2>1, ReturnAt
      DEF SubscribeTopic, Back, TypeOK, server, broker, outside, history, At,
          OwnerInv, ListenerOwned, Active, Procs, Main, Loops
    <2>2. ASSUME NEW t \in proc[p].todo, Subscribe(t),
                 proc' = [proc EXCEPT ![p].todo = @ \ {t}]
          PROVE  OwnerInv'
      <3>1. /\ proc'[p].pc = proc[p].pc /\ proc'[p].todo = proc[p].todo \ {t}
            /\ \A q \in Procs : q # p => proc'[q] = proc[q]
        BY <2>2 DEF TypeOK, ProcType
      <3> QED  BY <1>12, <2>2, <3>1, ServerAssumption
          DEF SubscribeTopic, Subscribe, TypeOK, server, broker, outside, history,
              At, OwnerInv, ListenerOwned, Active, Procs, Main, Loops
    <2> QED  BY <1>12, <2>1, <2>2 DEF SubscribeTopic
  <1>13. ASSUME NEW p \in Procs, SubscribeFails(p)  PROVE  OwnerInv'
    BY <1>13, ServerAssumption
    DEF SubscribeFails, Fails, Return, Back, server, broker, outside, history, At,
        OwnerInv, ListenerOwned, Active, Procs, Main, Loops, TypeOK
  <1>14. ASSUME NEW p \in Procs, Deregister(p)  PROVE  OwnerInv'
    BY <1>14, ServerAssumption
    DEF Deregister, Goto, Onwards, Ended, server, broker, outside, history, At,
        OwnerInv, ListenerOwned, Active, Procs, Main, Loops, TypeOK
  <1>15. ASSUME NEW p \in Procs, DeregisterFails(p)  PROVE  OwnerInv'
    BY <1>15, ServerAssumption
    DEF DeregisterFails, Goto, Onwards, Fails, server, broker, outside, history,
        At, OwnerInv, ListenerOwned, Active, Procs, Main, Loops, TypeOK
  <1>16. ASSUME NEW p \in Loops, Tick(p)  PROVE  OwnerInv'
    BY <1>16, ServerAssumption
    DEF Tick, Goto, server, broker, outside, history, At, OwnerInv, ListenerOwned,
        Active, Procs, Main, Loops, TypeOK
  <1>17. ASSUME NEW p \in Loops, CloseListener(p)  PROVE  OwnerInv'
    BY <1>17, ServerAssumption
    DEF CloseListener, Goto, server, broker, outside, history, At, OwnerInv,
        ListenerOwned, Active, Procs, Main, Loops, TypeOK
  <1>18. ASSUME NEW p \in Loops, CloseBroker(p)  PROVE  OwnerInv'
    BY <1>18, ServerAssumption
    DEF CloseBroker, Goto, server, broker, outside, history, At, OwnerInv,
        ListenerOwned, Active, Procs, Main, Loops, TypeOK
  <1>19. ASSUME NEW p \in Loops, Answer(p)  PROVE  OwnerInv'
    BY <1>19, ServerAssumption
    DEF Answer, Goto, server, broker, outside, history, At, OwnerInv,
        ListenerOwned, Active, Procs, Main, Loops, TypeOK
  <1>20. ASSUME NEW p \in Loops, NEW s \in Stoppers, ReceiveExit(p, s)  PROVE  OwnerInv'
    BY <1>20, ServerAssumption
    DEF ReceiveExit, Goto, server, broker, outside, history, At, OwnerInv,
        ListenerOwned, Active, Procs, Main, Loops, TypeOK
  <1>21. ASSUME NEW s \in Stoppers, Stop(s)  PROVE  OwnerInv'
    BY <1>21, ServerAssumption
    DEF Stop, server, broker, outside, history, At, OwnerInv, ListenerOwned,
        Active, Procs, Main, Loops, TypeOK
  <1>22. ASSUME NEW n \in Names, Lapse(n)  PROVE  OwnerInv'
    BY <1>22, ServerAssumption
    DEF Lapse, Fails, server, broker, outside, history, At, OwnerInv,
        ListenerOwned, Active, Procs, Main, Loops, TypeOK
  <1>23. CASE UNCHANGED vars
    BY <1>23
    DEF vars, server, broker, outside, history, At, OwnerInv, ListenerOwned,
        Active, Procs, Main, Loops, TypeOK
  <1> QED  BY <1>1, <1>2, <1>3, <1>4, <1>5, <1>6, <1>7, <1>8, <1>9, <1>10, <1>11,
      <1>12, <1>13, <1>14, <1>15, <1>16, <1>17, <1>18, <1>19, <1>20, <1>21, <1>22,
      <1>23
    DEF Next, StartStep, LoopStep, RegisterStep, Procs

\* Every step keeps the account of the subscriptions.
LEMMA SubsStep ==
  ASSUME TypeOK, ServerInv, [Next]_vars
  PROVE  SubsInv'
  <1> USE DEF ServerInv
  <1>1. CASE Listen
    BY <1>1, ServerAssumption
    DEF Listen, Goto, server, broker, outside, history, At, OwnerInv, SubsInv,
        Active, Procs, Main, Loops, Names, TypeOK
  <1>2. CASE BrokerStart
    BY <1>2, ServerAssumption
    DEF BrokerStart, Goto, server, broker, outside, history, At, OwnerInv,
        SubsInv, Active, Procs, Main, Loops, Names, TypeOK
  <1>3. CASE BrokerStartFails
    BY <1>3, ServerAssumption
    DEF BrokerStartFails, Goto, Fails, server, broker, outside, history, At,
        OwnerInv, SubsInv, Active, Procs, Main, Loops, Names, TypeOK
  <1>4. CASE Spawn
    <2>1. starts \in Procs /\ starts # Main /\ Main \in Procs /\ starts \in Nat
      BY <1>4, ServerAssumption DEF Spawn, At, OwnerInv, Active, Procs, Main, Loops
    <2>2. /\ proc'[Main].pc = "idle" /\ proc'[starts].pc = "select"
          /\ \A q \in Procs : q # Main /\ q # starts => proc'[q] = proc[q]
      BY <1>4, <2>1 DEF Spawn, TypeOK, ProcType
    <2> QED  BY <1>4, <2>1, <2>2, ServerAssumption
        DEF Spawn, TypeOK, server, broker, outside, history, At, OwnerInv,
            SubsInv, Active, Procs, Main, Loops, Names
  <1>5. CASE Move
    BY <1>5, ServerAssumption
    DEF Move, server, broker, outside, history, At, OwnerInv, SubsInv, Active,
        Procs, Main, Loops, Names, TypeOK
  <1>6. CASE Check
    BY <1>6, ServerAssumption
    DEF Check, server, broker, outside, history, At, OwnerInv, SubsInv, Active,
        Procs, Main, Loops, Names, TypeOK
  <1>7. ASSUME NEW p \in Procs, RegisterBegins(p)  PROVE  SubsInv'
    BY <1>7, ServerAssumption
    DEF RegisterBegins, server, broker, outside, history, At, OwnerInv, SubsInv,
        Active, Procs, Main, Loops, Names, TypeOK
  <1>8. ASSUME NEW p \in Procs, RegisterService(p)  PROVE  SubsInv'
    BY <1>8, ServerAssumption
    DEF RegisterService, server, broker, outside, history, At, OwnerInv, SubsInv,
        Active, Procs, Main, Loops, Names, TypeOK
  <1>9. ASSUME NEW p \in Procs, RegisterServiceFails(p)  PROVE  SubsInv'
    BY <1>9, ServerAssumption
    DEF RegisterServiceFails, Fails, Return, Back, server, broker, outside,
        history, At, OwnerInv, SubsInv, Active, Procs, Main, Loops, Names, TypeOK
  <1>10. ASSUME NEW p \in Procs, Registered(p)  PROVE  SubsInv'
    <2>1. CASE At(p, "renew") \/ registered
      BY <1>10, <2>1, ReturnAt
      DEF Registered, Back, TypeOK, server, broker, outside, history, At,
          OwnerInv, SubsInv, Active, Procs, Main, Loops, Names
    <2>2. CASE ~(At(p, "renew") \/ registered)
      BY <1>10, <2>2, GotoAt
      DEF Registered, TypeOK, server, broker, outside, history, At, OwnerInv,
          SubsInv, Active, Procs, Main, Loops, Names
    <2> QED  BY <2>1, <2>2
  <1>11. ASSUME NEW p \in Procs, SubscribeName(p)  PROVE  SubsInv'
    <2>1. /\ proc'[p].pc = "topics" /\ proc'[p].todo = subscribers
          /\ \A q \in Procs : q # p => proc'[q] = proc[q]
      BY <1>11 DEF SubscribeName, TypeOK, ProcType
    <2>2. subs[Own] = 0 /\ subs'[Own] = 1 /\ \A t \in Topics : subs'[t] = subs[t] /\ subs[t] = 0
      BY <1>11, ServerAssumption DEF SubscribeName, Subscribe, TypeOK, SubsInv
    <2>3. /\ registered /\ registered' = registered /\ subscriber' = TRUE
          /\ subscribers' = subscribers /\ left' = left
      BY <1>11 DEF SubscribeName, SubsInv, history
    <2>4. \A q \in Procs : q # p => ~At(q, "subscribe")' /\ ~At(q, "topics")'
      BY <1>11, <2>1 DEF SubscribeName, OwnerInv, Active, At
    <2>5. subscribers \subseteq Topics  BY DEF TypeOK
    <2>6. (\A q \in Procs : At(q, "topics") => /\ registered /\ proc[q].todo \subseteq subscribers
                                               /\ \A t \in proc[q].todo : subs[t] = 0)'
      BY <2>1, <2>2, <2>3, <2>4, <2>5 DEF At
    <2>7. (\A q \in Procs : ~At(q, "subscribe"))'  BY <2>1, <2>4 DEF At
    <2>8. (left \/ \A t \in Topics : subs[t] = 1
                       \/ \E q \in Procs : At(q, "topics") /\ t \in proc[q].todo)'
      BY <2>1, <2>3 DEF At, SubsInv
    <2> QED  BY <2>2, <2>3, <2>6, <2>7, <2>8 DEF SubsInv
  <1>12. ASSUME NEW p \in Procs, SubscribeTopic(p)  PROVE  SubsInv'
    <2>1. CASE proc[p].todo = {}
      BY <1>12, <2>1, ReturnAt
      DEF SubscribeTopic, Back, TypeOK, server, broker, outside, history, At,
          OwnerInv, SubsInv, Active, Procs, Main, Loops, Names
    <2>2. ASSUME NEW t \in proc[p].todo, Subscribe(t),
                 proc' = [proc EXCEPT ![p].todo = @ \ {t}]
          PROVE  SubsInv'
      <3>1. /\ proc'[p].pc = proc[p].pc /\ proc'[p].todo = proc[p].todo \ {t}
            /\ \A q \in Procs : q # p => proc'[q] = proc[q]
        BY <2>2 DEF TypeOK, ProcType
      <3>2. /\ At(p, "topics") /\ t \in Topics /\ t # Own /\ subs[t] = 0
            /\ subs'[t] = 1 /\ \A u \in Topics \cup {Own} : u # t => subs'[u] = subs[u]
        BY <1>12, <2>2, ServerAssumption
        DEF SubscribeTopic, Subscribe, SubsInv, TypeOK, At
      <3>3. /\ registered /\ registered' = registered /\ subscriber' = subscriber
            /\ subscribers' = subscribers /\ left' = left /\ subFailed' = subFailed
        BY <1>12, <3>2 DEF SubscribeTopic, SubsInv, history, server
      <3>4. \A q \in Procs : q # p => ~At(q, "subscribe")' /\ ~At(q, "topics")'
                                      /\ ~At(q, "topics")
        BY <3>1, <3>2 DEF OwnerInv, Active, At
      <3>5. At(p, "topics")' /\ ~At(p, "subscribe")'  BY <3>1, <3>2 DEF At
      <3>6. (\A q \in Procs : At(q, "topics") =>
               /\ registered /\ proc[q].todo \subseteq subscribers
               /\ \A u \in proc[q].todo : subs[u] = 0)'
        BY <3>1, <3>2, <3>3, <3>4 DEF SubsInv, TypeOK
      <3>7. \A q \in Procs : ~At(q, "subscribe")
        BY <3>2 DEF OwnerInv, Active, At
      <3>8. \A u \in Topics : (\E q \in Procs : At(q, "topics") /\ u \in proc[q].todo)
              => u = t \/ (\E q \in Procs : At(q, "topics") /\ u \in proc[q].todo)'
        BY <3>1, <3>4, <3>5
      <3>9. (registered /\ ~subFailed =>
               /\ subs[Own] = 1
               /\ left \/ \A u \in Topics : subs[u] = 1
                             \/ \E q \in Procs : At(q, "topics") /\ u \in proc[q].todo)'
        BY <3>2, <3>3, <3>7, <3>8 DEF SubsInv
      <3>10. t \in subscribers  BY <3>2 DEF SubsInv
      <3> QED  BY <3>2, <3>3, <3>4, <3>5, <3>6, <3>9, <3>10 DEF SubsInv
    <2> QED  BY <1>12, <2>1, <2>2 DEF SubscribeTopic
  <1>13. ASSUME NEW p \in Procs, SubscribeFails(p)  PROVE  SubsInv'
    BY <1>13, ServerAssumption
    DEF SubscribeFails, Fails, Return, Back, server, broker, outside, history, At,
        OwnerInv, SubsInv, Active, Procs, Main, Loops, Names, TypeOK
  <1>14. ASSUME NEW p \in Procs, Deregister(p)  PROVE  SubsInv'
    <2>1. \A t \in Topics \cup {Own} : subs'[t] = 0
      BY <1>14 DEF Deregister, Ended, TypeOK, SubsInv
    <2>2. /\ proc'[p].pc \in {"register", "router"}
          /\ \A q \in Procs : q # p => proc'[q] = proc[q]
      BY <1>14, GotoAt DEF Deregister, Onwards
    <2> QED  BY <1>14, <2>1, <2>2, ServerAssumption
        DEF Deregister, server, broker, outside, history, At, OwnerInv, SubsInv,
            Active, Procs, Main, Loops, Names
  <1>15. ASSUME NEW p \in Procs, DeregisterFails(p)  PROVE  SubsInv'
    BY <1>15, ServerAssumption
    DEF DeregisterFails, Goto, Onwards, Fails, server, broker, outside, history,
        At, OwnerInv, SubsInv, Active, Procs, Main, Loops, Names, TypeOK
  <1>16. ASSUME NEW p \in Loops, Tick(p)  PROVE  SubsInv'
    BY <1>16, ServerAssumption
    DEF Tick, Goto, server, broker, outside, history, At, OwnerInv, SubsInv,
        Active, Procs, Main, Loops, Names, TypeOK
  <1>17. ASSUME NEW p \in Loops, CloseListener(p)  PROVE  SubsInv'
    BY <1>17, ServerAssumption
    DEF CloseListener, Goto, server, broker, outside, history, At, OwnerInv,
        SubsInv, Active, Procs, Main, Loops, Names, TypeOK
  <1>18. ASSUME NEW p \in Loops, CloseBroker(p)  PROVE  SubsInv'
    BY <1>18, ServerAssumption
    DEF CloseBroker, Goto, server, broker, outside, history, At, OwnerInv,
        SubsInv, Active, Procs, Main, Loops, Names, TypeOK
  <1>19. ASSUME NEW p \in Loops, Answer(p)  PROVE  SubsInv'
    BY <1>19, ServerAssumption
    DEF Answer, Goto, server, broker, outside, history, At, OwnerInv, SubsInv,
        Active, Procs, Main, Loops, Names, TypeOK
  <1>20. ASSUME NEW p \in Loops, NEW s \in Stoppers, ReceiveExit(p, s)  PROVE  SubsInv'
    BY <1>20, ServerAssumption
    DEF ReceiveExit, Goto, server, broker, outside, history, At, OwnerInv,
        SubsInv, Active, Procs, Main, Loops, Names, TypeOK
  <1>21. ASSUME NEW s \in Stoppers, Stop(s)  PROVE  SubsInv'
    BY <1>21, ServerAssumption
    DEF Stop, server, broker, outside, history, At, OwnerInv, SubsInv, Active,
        Procs, Main, Loops, Names, TypeOK
  <1>22. ASSUME NEW n \in Names, Lapse(n)  PROVE  SubsInv'
    BY <1>22, ServerAssumption
    DEF Lapse, Fails, server, broker, outside, history, At, OwnerInv, SubsInv,
        Active, Procs, Main, Loops, Names, TypeOK
  <1>23. CASE UNCHANGED vars
    BY <1>23
    DEF vars, server, broker, outside, history, At, OwnerInv, SubsInv, Active,
        Procs, Main, Loops, Names, TypeOK
  <1> QED  BY <1>1, <1>2, <1>3, <1>4, <1>5, <1>6, <1>7, <1>8, <1>9, <1>10, <1>11,
      <1>12, <1>13, <1>14, <1>15, <1>16, <1>17, <1>18, <1>19, <1>20, <1>21, <1>22,
      <1>23
    DEF Next, StartStep, LoopStep, RegisterStep, Procs

\* Every step keeps a goroutine that will deregister what is registered.
LEMMA GoneStep ==
  ASSUME TypeOK, ServerInv, [Next]_vars
  PROVE  GoneInv'
  <1> USE DEF ServerInv
  <1>1. CASE Listen
    BY <1>1, ServerAssumption
    DEF Listen, Goto, server, broker, outside, history, At, OwnerInv, GoneInv,
        Active, Procs, Main, Loops, Names, TypeOK
  <1>2. CASE BrokerStart
    BY <1>2, ServerAssumption
    DEF BrokerStart, Goto, server, broker, outside, history, At, OwnerInv,
        GoneInv, Active, Procs, Main, Loops, Names, TypeOK
  <1>3. CASE BrokerStartFails
    BY <1>3, ServerAssumption
    DEF BrokerStartFails, Goto, Fails, server, broker, outside, history, At,
        OwnerInv, GoneInv, Active, Procs, Main, Loops, Names, TypeOK
  <1>4. CASE Spawn
    BY <1>4, ServerAssumption
    DEF Spawn, server, broker, outside, history, At, OwnerInv, GoneInv, Active,
        Procs, Main, Loops, Names, TypeOK
  <1>5. CASE Move
    BY <1>5, ServerAssumption
    DEF Move, server, broker, outside, history, At, OwnerInv, GoneInv, Active,
        Procs, Main, Loops, Names, TypeOK
  <1>6. CASE Check
    BY <1>6, ServerAssumption
    DEF Check, server, broker, outside, history, At, OwnerInv, GoneInv, Active,
        Procs, Main, Loops, Names, TypeOK
  <1>7. ASSUME NEW p \in Procs, RegisterBegins(p)  PROVE  GoneInv'
    BY <1>7, ServerAssumption
    DEF RegisterBegins, server, broker, outside, history, At, OwnerInv, GoneInv,
        Active, Procs, Main, Loops, Names, TypeOK
  <1>8. ASSUME NEW p \in Procs, RegisterService(p)  PROVE  GoneInv'
    BY <1>8, ServerAssumption
    DEF RegisterService, server, broker, outside, history, At, OwnerInv, GoneInv,
        Active, Procs, Main, Loops, Names, TypeOK
  <1>9. ASSUME NEW p \in Procs, RegisterServiceFails(p)  PROVE  GoneInv'
    BY <1>9, ServerAssumption
    DEF RegisterServiceFails, Fails, Return, Back, server, broker, outside,
        history, At, OwnerInv, GoneInv, Active, Procs, Main, Loops, Names, TypeOK
  <1>10. ASSUME NEW p \in Procs, Registered(p)  PROVE  GoneInv'
    <2>1. CASE At(p, "renew") \/ registered
      BY <1>10, <2>1, ReturnAt
      DEF Registered, Back, TypeOK, server, broker, outside, history, At,
          OwnerInv, GoneInv, Active, Procs, Main, Loops, Names
    <2>2. CASE ~(At(p, "renew") \/ registered)
      BY <1>10, <2>2, GotoAt
      DEF Registered, TypeOK, server, broker, outside, history, At, OwnerInv,
          GoneInv, Active, Procs, Main, Loops, Names
    <2> QED  BY <2>1, <2>2
  <1>11. ASSUME NEW p \in Procs, SubscribeName(p)  PROVE  GoneInv'
    BY <1>11, ServerAssumption
    DEF SubscribeName, Subscribe, server, broker, outside, history, At, OwnerInv,
        GoneInv, Active, Procs, Main, Loops, Names, TypeOK
  <1>12. ASSUME NEW p \in Procs, SubscribeTopic(p)  PROVE  GoneInv'
    <2>1. CASE proc[p].todo = {}
      BY <1>12, <2>1, ReturnAt
      DEF SubscribeTopic, Back, TypeOK, server, broker, outside, history, At,
          OwnerInv, GoneInv, Active, Procs, Main, Loops, Names
    <2>2. ASSUME NEW t \in proc[p].todo, Subscribe(t),
                 proc' = [proc EXCEPT ![p].todo = @ \ {t}]
          PROVE  GoneInv'
      <3>1. /\ proc'[p].pc = proc[p].pc /\ proc'[p].todo = proc[p].todo \ {t}
            /\ \A q \in Procs : q # p => proc'[q] = proc[q]
        BY <2>2 DEF TypeOK, ProcType
      <3> QED  BY <1>12, <2>2, <3>1, ServerAssumption
          DEF SubscribeTopic, Subscribe, TypeOK, server, broker, outside, history,
              At, OwnerInv, GoneInv, Active, Procs, Main, Loops, Names
    <2> QED  BY <1>12, <2>1, <2>2 DEF SubscribeTopic
  <1>13. ASSUME NEW p \in Procs, SubscribeFails(p)  PROVE  GoneInv'
    BY <1>13, ServerAssumption
    DEF SubscribeFails, Fails, Return, Back, server, broker, outside, history, At,
        OwnerInv, GoneInv, Active, Procs, Main, Loops, Names, TypeOK
  <1>14. ASSUME NEW p \in Procs, Deregister(p)  PROVE  GoneInv'
    BY <1>14, ServerAssumption
    DEF Deregister, Goto, Onwards, Ended, server, broker, outside, history, At,
        OwnerInv, GoneInv, Active, Procs, Main, Loops, Names, TypeOK
  <1>15. ASSUME NEW p \in Procs, DeregisterFails(p)  PROVE  GoneInv'
    BY <1>15, ServerAssumption
    DEF DeregisterFails, Goto, Onwards, Fails, server, broker, outside, history,
        At, OwnerInv, GoneInv, Active, Procs, Main, Loops, Names, TypeOK
  <1>16. ASSUME NEW p \in Loops, Tick(p)  PROVE  GoneInv'
    BY <1>16, ServerAssumption
    DEF Tick, Goto, server, broker, outside, history, At, OwnerInv, GoneInv,
        Active, Procs, Main, Loops, Names, TypeOK
  <1>17. ASSUME NEW p \in Loops, CloseListener(p)  PROVE  GoneInv'
    BY <1>17, ServerAssumption
    DEF CloseListener, Goto, server, broker, outside, history, At, OwnerInv,
        GoneInv, Active, Procs, Main, Loops, Names, TypeOK
  <1>18. ASSUME NEW p \in Loops, CloseBroker(p)  PROVE  GoneInv'
    BY <1>18, ServerAssumption
    DEF CloseBroker, Goto, server, broker, outside, history, At, OwnerInv,
        GoneInv, Active, Procs, Main, Loops, Names, TypeOK
  <1>19. ASSUME NEW p \in Loops, Answer(p)  PROVE  GoneInv'
    BY <1>19, ServerAssumption
    DEF Answer, Goto, server, broker, outside, history, At, OwnerInv, GoneInv,
        Active, Procs, Main, Loops, Names, TypeOK
  <1>20. ASSUME NEW p \in Loops, NEW s \in Stoppers, ReceiveExit(p, s)  PROVE  GoneInv'
    BY <1>20, ServerAssumption
    DEF ReceiveExit, Goto, server, broker, outside, history, At, OwnerInv,
        GoneInv, Active, Procs, Main, Loops, Names, TypeOK
  <1>21. ASSUME NEW s \in Stoppers, Stop(s)  PROVE  GoneInv'
    BY <1>21, ServerAssumption
    DEF Stop, server, broker, outside, history, At, OwnerInv, GoneInv, Active,
        Procs, Main, Loops, Names, TypeOK
  <1>22. ASSUME NEW n \in Names, Lapse(n)  PROVE  GoneInv'
    BY <1>22, ServerAssumption
    DEF Lapse, Fails, server, broker, outside, history, At, OwnerInv, GoneInv,
        Active, Procs, Main, Loops, Names, TypeOK
  <1>23. CASE UNCHANGED vars
    BY <1>23
    DEF vars, server, broker, outside, history, At, OwnerInv, GoneInv, Active,
        Procs, Main, Loops, Names, TypeOK
  <1> QED  BY <1>1, <1>2, <1>3, <1>4, <1>5, <1>6, <1>7, <1>8, <1>9, <1>10, <1>11,
      <1>12, <1>13, <1>14, <1>15, <1>16, <1>17, <1>18, <1>19, <1>20, <1>21, <1>22,
      <1>23
    DEF Next, StartStep, LoopStep, RegisterStep, Procs

\* A server that was not started yet satisfies the invariant.
LEMMA InitInv == ASSUME Init  PROVE  TypeOK /\ ServerInv
  <1> USE ServerAssumption
  <1>1. TypeOK
    <2>1. \A p \in Procs : [pc |-> IF p = Main THEN "idle" ELSE "off", addr |-> NoAddr,
                             todo |-> {}] \in ProcType
      BY DEF ProcType, Pcs
    <2>2. proc \in [Procs -> ProcType]  BY <2>1 DEF Init
    <2>3. subs \in [Topics \cup {Own} -> 0 .. 1] /\ records \in [Names -> Addrs \cup {NoAddr}]
      BY DEF Init
    <2>4. stop \in [Stoppers -> {"idle", "send", "wait"}] /\ asked \in [Loops -> SUBSET Stoppers]
      BY DEF Init
    <2>5. moves \in Nat /\ sick \in Nat /\ faults \in Nat /\ starts \in 0 .. MaxStarts
      BY DEF Init
    <2>6. /\ started \in BOOLEAN /\ registered \in BOOLEAN /\ subscriber \in BOOLEAN
          /\ listening \in BOOLEAN /\ connected \in BOOLEAN /\ healthy \in BOOLEAN
          /\ explicit \in BOOLEAN
          /\ left \in BOOLEAN /\ failed \in BOOLEAN /\ subFailed \in BOOLEAN
      BY Zenon DEF Init
    <2>7. services \in Addrs \cup {NoAddr} /\ ip \in Addrs /\ subscribers \subseteq Topics
      BY DEF Init
    <2> QED  BY <2>2, <2>3, <2>4, <2>5, <2>6, <2>7 DEF TypeOK
  <1>2. OwnerInv
    <2>1. \A p \in Procs : proc[p].pc = IF p = Main THEN "idle" ELSE "off"  BY
        DEF Init
    <2>2. \A p \in Procs : ~Active(p) /\ ~At(p, "renew")  BY <2>1 DEF Active, At
    <2>3. \A l \in Loops : l \in Procs /\ At(l, "off")  BY <2>1
        DEF At, Loops, Procs, Main
    <2>4. Main \in Procs  BY DEF Procs
    <2> QED  BY <2>2, <2>3, <2>4 DEF Init, OwnerInv, ListenerOwned
  <1>3. SubsInv  BY DEF Init, SubsInv, At, Procs, Main, Loops
  <1>4. GoneInv  BY DEF Init, GoneInv, Names
  <1> QED  BY <1>1, <1>2, <1>3, <1>4 DEF ServerInv

\* The types and ServerInv are an inductive invariant of the server: from the
\* first Start through every tick, Stop and restart.
THEOREM ServerInvariant == Spec => [](TypeOK /\ ServerInv)
  <1>1. TypeOK /\ ServerInv /\ [Next]_vars => (TypeOK /\ ServerInv)'
    BY TypeStep, OwnerStep, SubsStep, GoneStep DEF ServerInv
  <1> QED  BY <1>1, InitInv, PTL DEF Spec

\* Every variable keeps its type and no topic is ever subscribed twice, whatever
\* fails between Register's steps.
THEOREM TypeCorrect == Spec => []TypeOK
  BY ServerInvariant, PTL

\* Register and Deregister never run in two goroutines at once, although a Start
\* may overtake a Stop.
THEOREM RegistrarIsAlone == Spec => []OneRegistrar
  <1>1. TypeOK /\ ServerInv => OneRegistrar
    BY DEF ServerInv, OwnerInv, OneRegistrar, Registering, Active
  <1> QED  BY <1>1, ServerInvariant, PTL

\* A listener that Start opened is open exactly as long as some goroutine is on
\* its way to closing it.
THEOREM ListenerIsOwned == Spec => []ListenerOwned
  <1>1. TypeOK /\ ServerInv => ListenerOwned  BY DEF ServerInv, OwnerInv
  <1> QED  BY <1>1, ServerInvariant, PTL

\* When Register has returned and no Subscribe failed, a registered server has
\* its own topic, and its subscribers theirs unless it ever deregistered.
THEOREM RegisteredIsSubscribed == Spec => []Subscribed
  <1>1. TypeOK /\ ServerInv => Subscribed
    BY DEF ServerInv, SubsInv, Subscribed, Settled, Registering, At
  <1> QED  BY <1>1, ServerInvariant, PTL

\* A server whose listener is closed has left the registry under its own name and
\* has no subscription, unless a call failed on the way.
THEOREM StoppedLeaves == Spec => []StoppedIsGone
  <1>1. TypeOK /\ ServerInv => StoppedIsGone
    <2> SUFFICES ASSUME TypeOK, ServerInv, ~listening, ~failed
                 PROVE  records[Own] = NoAddr /\ \A t \in DOMAIN subs : subs[t] = 0
      BY DEF StoppedIsGone
    <2>1. \A p \in Procs : ~Active(p)  BY DEF ServerInv, OwnerInv, ListenerOwned
    <2>2. ~registered  BY <2>1 DEF ServerInv, GoneInv
    <2>3. records[Own] = NoAddr  BY <2>1, <2>2 DEF ServerInv, GoneInv, Active, At
    <2>4. DOMAIN subs = Topics \cup {Own}  BY DEF TypeOK
    <2> QED  BY <2>2, <2>3, <2>4 DEF ServerInv, SubsInv
  <1> QED  BY <1>1, ServerInvariant, PTL
============================================================================
