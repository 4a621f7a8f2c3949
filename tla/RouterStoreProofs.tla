------------------------- MODULE RouterStoreProofs -------------------------
(***************************************************************************)
(* What RouterStore guarantees for any number of servers, services, nodes  *)
(* and paths.  The argument: a local record always says what some server   *)
(* of this process registered, the node of that server and no other        *)
(* (LocalInv), so that store, once there is a record, knows which nodes    *)
(* are ours, and what passes Identify is offered by another process        *)
(* (StoreInv).                                                             *)
(***************************************************************************)
EXTENDS RouterStore, TLAPS

---------------------------------------------------------------------------
(* Sequences of local records                                              *)

\* A sequence without the element at i.
LEMMA RemoveAtIs ==
  ASSUME NEW S, NEW q \in Seq(S), NEW i \in DOMAIN q
  PROVE  /\ RemoveAt(q, i) \in Seq(S)
         /\ Len(RemoveAt(q, i)) = Len(q) - 1
         /\ \A j \in 1 .. Len(q) - 1 : RemoveAt(q, i)[j] = q[IF j < i THEN j ELSE j + 1]
  <1>1. PICK n \in Nat : n = Len(q)  OBVIOUS
  <1>2. i \in 1 .. n /\ \A j \in 1 .. n : q[j] \in S  BY <1>1
  <1>3. PICK a : a = SubSeq(q, 1, i - 1)  OBVIOUS
  <1>4. PICK b : b = SubSeq(q, i + 1, n)  OBVIOUS
  <1>5. a \in Seq(S) /\ Len(a) = i - 1 /\ \A j \in 1 .. i - 1 : a[j] = q[j]
    BY <1>1, <1>2, <1>3
  <1>6. b \in Seq(S) /\ Len(b) = n - i /\ \A j \in 1 .. n - i : b[j] = q[i + j]
    BY <1>1, <1>2, <1>4
  <1>7. RemoveAt(q, i) = a \o b  BY <1>1, <1>3, <1>4 DEF RemoveAt
  <1>8. a \o b \in Seq(S) /\ Len(a \o b) = Len(a) + Len(b)
    <2>1. a \in Seq(S) /\ b \in Seq(S)  BY <1>5, <1>6
    <2>2. a \o b \in Seq(S)  BY <2>1
    <2>3. Len(a \o b) = Len(a) + Len(b)  BY <2>1
    <2> QED  BY <2>2, <2>3
  <1>9. Len(a) + Len(b) = n - 1 /\ Len(a) = i - 1  BY <1>2, <1>5, <1>6
  <1>10. \A j \in 1 .. Len(a) + Len(b) :
           (a \o b)[j] = IF j <= Len(a) THEN a[j] ELSE b[j - Len(a)]
    BY <1>5, <1>6
  <1>11. ASSUME NEW j \in 1 .. n - 1  PROVE (a \o b)[j] = q[IF j < i THEN j ELSE j + 1]
    <2>1. CASE j < i
      <3>1. j \in 1 .. i - 1 /\ j <= i - 1  BY <1>2, <2>1
      <3>2. (a \o b)[j] = a[j]  BY <1>9, <1>10, <3>1
      <3> QED  BY <1>5, <2>1, <3>1, <3>2
    <2>2. CASE ~(j < i)
      <3>1. j - (i - 1) \in 1 .. n - i /\ ~(j <= i - 1)  BY <1>1, <1>2, <2>2
      <3>2. (a \o b)[j] = b[j - (i - 1)]  BY <1>9, <1>10, <3>1
      <3>3. b[j - (i - 1)] = q[i + (j - (i - 1))]  BY <1>6, <3>1
      <3>4. i + (j - (i - 1)) = j + 1  BY <1>2
      <3> QED  BY <2>2, <3>2, <3>3, <3>4
    <2> QED  BY <2>1, <2>2
  <1> QED  BY <1>1, <1>7, <1>8, <1>9, <1>11

\* Of one kind and without two records of one service.
Records(q) ==
  /\ q \in Seq(LocalType)
  /\ \A i \in DOMAIN q : IsEntry(q[i])
  /\ \A i, j \in DOMAIN q : q[i].svc = q[j].svc => i = j

Has(q, s) == \E i \in DOMAIN q : q[i].svc = s

\* Taking one record out leaves records, those of the other services.
LEMMA RecordRemoved ==
  ASSUME NEW q, Records(q), NEW i \in DOMAIN q
  PROVE  /\ Records(RemoveAt(q, i))
         /\ \A s : s # q[i].svc /\ Has(q, s) => Has(RemoveAt(q, i), s)
  <1>1. PICK r : r = RemoveAt(q, i)  OBVIOUS
  <1>2. PICK n \in Nat : n = Len(q) /\ DOMAIN q = 1 .. n /\ i \in 1 .. n
    BY DEF Records
  <1>3. /\ r \in Seq(LocalType) /\ Len(r) = n - 1
        /\ \A j \in 1 .. n - 1 : r[j] = q[IF j < i THEN j ELSE j + 1]
    BY <1>1, <1>2, RemoveAtIs DEF Records
  <1>4. DOMAIN r = 1 .. n - 1  BY <1>2, <1>3
  <1>5. \A j \in 1 .. n - 1 : (IF j < i THEN j ELSE j + 1) \in 1 .. n  BY <1>2
  <1>6. \A j \in DOMAIN r : IsEntry(r[j])  BY <1>2, <1>3, <1>4, <1>5 DEF Records
  <1>7. ASSUME NEW j \in DOMAIN r, NEW k \in DOMAIN r, r[j].svc = r[k].svc
        PROVE  j = k
    <2>1. PICK jj \in 1 .. n : jj = IF j < i THEN j ELSE j + 1  BY <1>4, <1>5
    <2>2. PICK kk \in 1 .. n : kk = IF k < i THEN k ELSE k + 1  BY <1>4, <1>5
    <2>3. r[j] = q[jj] /\ r[k] = q[kk]  BY <1>3, <1>4, <2>1, <2>2
    <2>4. jj = kk  BY <1>2, <1>7, <2>3 DEF Records
    <2> QED  BY <1>2, <1>4, <2>1, <2>2, <2>4
  <1>8. ASSUME NEW s, s # q[i].svc, Has(q, s)  PROVE Has(r, s)
    <2>1. PICK k \in 1 .. n : q[k].svc = s  BY <1>2, <1>8 DEF Has
    <2>2. k # i  BY <1>8, <2>1
    <2>3. CASE k < i
      <3>1. k \in DOMAIN r /\ r[k] = q[k]  BY <1>2, <1>3, <1>4, <2>3
      <3> QED  BY <2>1, <3>1 DEF Has
    <2>4. CASE ~(k < i)
      <3>1. k - 1 \in 1 .. n - 1 /\ ~(k - 1 < i)  BY <1>2, <2>2, <2>4
      <3>2. r[k - 1] = q[(k - 1) + 1]  BY <1>3, <3>1
      <3>3. r[k - 1] = q[k]  BY <3>2
      <3> QED  BY <1>4, <2>1, <3>1, <3>3 DEF Has
    <2> QED  BY <2>3, <2>4
  <1> QED  BY <1>1, <1>3, <1>6, <1>7, <1>8 DEF Records

\* Putting a record in the place of one of its service, too.
LEMMA RecordReplaced ==
  ASSUME NEW q, Records(q), NEW i \in DOMAIN q, NEW e \in LocalType, IsEntry(e),
         q[i].svc = e.svc, NEW r, DOMAIN r = DOMAIN q, r \in Seq(LocalType), r[i] = e,
         \A j \in DOMAIN q : j # i => r[j] = q[j]
  PROVE  Records(r) /\ \A s : Has(q, s) => Has(r, s)
  <1>1. \A j \in DOMAIN q : r[j].svc = q[j].svc  OBVIOUS
  <1>2. \A j \in DOMAIN r : IsEntry(r[j])  BY DEF Records
  <1> QED  BY <1>1, <1>2 DEF Records, Has

\* trackLocalService.
LEMMA TrackedIs ==
  ASSUME Records(localServices), NEW e \in LocalType, IsEntry(e)
  PROVE  /\ Records(Tracked(e)) /\ Has(Tracked(e), e.svc)
         /\ \A s : Has(localServices, s) => Has(Tracked(e), s)
  <1>1. PICK q : q = localServices  OBVIOUS
  <1>2. PICK r : r = Tracked(e)  OBVIOUS
  <1>3. PICK n \in Nat : n = Len(q) /\ DOMAIN q = 1 .. n /\ q \in Seq(LocalType)
    BY <1>1 DEF Records
  <1>4. CASE IndexOf(e.svc) = {}
    <2>1. r = Append(q, e)  BY <1>1, <1>2, <1>4 DEF Tracked
    <2>2. /\ r \in Seq(LocalType) /\ DOMAIN r = 1 .. n + 1 /\ r[n + 1] = e
          /\ \A j \in 1 .. n : r[j] = q[j]
      BY <1>3, <2>1
    <2>3. \A j \in 1 .. n + 1 : j \in 1 .. n \/ j = n + 1  BY <1>3
    <2>4. \A j \in 1 .. n : q[j].svc # e.svc  BY <1>1, <1>3, <1>4 DEF IndexOf
    <2>5. Records(r)  BY <1>1, <1>3, <2>2, <2>3, <2>4 DEF Records
    <2>6. 1 .. n \subseteq 1 .. n + 1 /\ n + 1 \in 1 .. n + 1  BY <1>3
    <2>7. Has(r, e.svc) /\ \A s : Has(q, s) => Has(r, s)
      BY <1>3, <2>2, <2>6 DEF Has
    <2> QED  BY <1>1, <1>2, <2>5, <2>7
  <1>5. CASE IndexOf(e.svc) # {}
    <2>1. PICK i \in DOMAIN q : q[i].svc = e.svc  BY <1>1, <1>5 DEF IndexOf
    <2>2. \A j \in DOMAIN q : j \in IndexOf(e.svc) <=> j = i
      BY <1>1, <2>1 DEF IndexOf, Records
    <2>3. r = [j \in 1 .. n |-> IF j = i THEN e ELSE q[j]]
      BY <1>1, <1>2, <1>3, <1>5, <2>2 DEF Tracked
    <2>4. /\ r \in Seq(LocalType) /\ DOMAIN r = DOMAIN q /\ r[i] = e
          /\ \A j \in DOMAIN q : j # i => r[j] = q[j]
      BY <1>3, <2>1, <2>3
    <2>5. Records(r) /\ \A s : Has(q, s) => Has(r, s)
      BY <1>1, <2>1, <2>4, RecordReplaced
    <2>6. Has(r, e.svc)  BY <2>1, <2>4 DEF Has
    <2> QED  BY <1>1, <1>2, <2>5, <2>6
  <1> QED  BY <1>4, <1>5

\* restore: what goes is of the service of k, and only if Register found none.
LEMMA RestoredIs ==
  ASSUME Records(localServices), NEW k \in Servers, server[k].i \in Nat,
         server[k].i > 0 =>
           server[k].old \in LocalType /\ IsEntry(server[k].old) /\ server[k].old.svc = SvcOf[k]
  PROVE  /\ Records(Restored(k))
         /\ \A s : Has(localServices, s) /\ (s # SvcOf[k] \/ server[k].i > 0) => Has(Restored(k), s)
  <1> DEFINE i == server[k].i
             mine == {j \in DOMAIN localServices :
                        localServices[j].by = k /\ localServices[j].svc = SvcOf[k]}
  <1>1. CASE i > 0 /\ i \in mine
    <2>1. PICK r : r = [localServices EXCEPT ![i] = server[k].old]  OBVIOUS
    <2>2. Restored(k) = r  BY <1>1, <2>1 DEF Restored
    <2>3. /\ r \in Seq(LocalType) /\ DOMAIN r = DOMAIN localServices /\ r[i] = server[k].old
          /\ \A j \in DOMAIN localServices : j # i => r[j] = localServices[j]
      BY <1>1, <2>1 DEF Records
    <2>4. Records(r) /\ \A s : Has(localServices, s) => Has(r, s)
      BY <1>1, <2>3, RecordReplaced
    <2> QED  BY <2>2, <2>4
  <1>2. CASE i = 0 /\ mine # {}
    <2>1. PICK j \in mine : j = CHOOSE l \in mine : TRUE  BY <1>2
    <2>2. ~(i > 0)  BY <1>2
    <2>3. Restored(k) = RemoveAt(localServices, j)  BY <1>2, <2>1, <2>2 DEF Restored
    <2>4. j \in DOMAIN localServices /\ localServices[j].svc = SvcOf[k]  OBVIOUS
    <2> QED  BY <2>2, <2>3, <2>4, RecordRemoved
  <1>3. CASE ~(i > 0 /\ i \in mine) /\ ~(i = 0 /\ mine # {})
    <2>1. Restored(k) = localServices  BY <1>3 DEF Restored
    <2> QED  BY <2>1
  <1> QED  BY <1>1, <1>2, <1>3

LEMMA ForgottenIs ==
  ASSUME Records(localServices), NEW t
  PROVE  /\ Records(Forgotten(t))
         /\ \A s : Has(localServices, s) /\ s # t => Has(Forgotten(t), s)
  <1>1. CASE IndexOf(t) = {}  BY <1>1 DEF Forgotten
  <1>2. CASE IndexOf(t) # {}
    <2>1. PICK i \in IndexOf(t) : i = CHOOSE j \in IndexOf(t) : TRUE  BY <1>2
    <2>2. i \in DOMAIN localServices /\ localServices[i].svc = t  BY DEF IndexOf
    <2>3. Forgotten(t) = RemoveAt(localServices, i)  BY <1>2, <2>1 DEF Forgotten
    <2> QED  BY <2>2, <2>3, RecordRemoved
  <1> QED  BY <1>1, <1>2

---------------------------------------------------------------------------
(* Register and Deregister                                                 *)

\* The only server of its service.
Alone(k) == \A m \in Servers : SvcOf[m] = SvcOf[k] => m = k

LEMMA LocalFacts ==
  ASSUME RouterInv
  PROVE  /\ TypeOK /\ Records(localServices)
         /\ \A k \in Servers : /\ SvcOf[k] \in Services /\ NodeOf[k] \in Nodes
                               /\ server[k] \in ServerType
         /\ \A k \in Servers :
              server[k].pc \in {"write", "readback", "up"} /\ Alone(k) => Has(localServices, SvcOf[k])
  <1>1. TypeOK /\ LocalInv  BY DEF RouterInv
  <1>2. Records(localServices)  BY <1>1 DEF TypeOK, LocalInv, Records
  <1>3. \A k \in Servers :
          server[k].pc \in {"write", "readback", "up"} /\ Alone(k) => Has(localServices, SvcOf[k])
    BY <1>1 DEF LocalInv, Alone, Has, IndexOf
  <1> QED  BY <1>1, <1>2, <1>3, TopologyAssumption DEF TypeOK

\* What is registered grows: what was offered elsewhere still has been.
LEMMA EverGrows ==
  ASSUME RouterInv, UNCHANGED <<router, tree>>, \A s \in Services : ever[s] \subseteq ever'[s]
  PROVE  StoreInv' /\ NoSelfProxy'
  <1>1. \A s \in Services : OfferedElsewhere(s) => OfferedElsewhere(s)'
    BY DEF OfferedElsewhere
  <1>2. StoreInv'  BY <1>1 DEF RouterInv, StoreInv
  <1>3. NoSelfProxy'  BY <1>1 DEF RouterInv, NoSelfProxy
  <1> QED  BY <1>2, <1>3

\* A step of server k, or of the registry, that keeps the records.
LEMMA ServerStep ==
  ASSUME RouterInv, NEW k \in Servers, Records(localServices'),
         reg' \in [Services -> SUBSET Nodes], ever' \in [Services -> SUBSET Nodes],
         \A s \in Services : ever[s] \subseteq ever'[s],
         UNCHANGED <<router, round, tree>>, changes' \in Nat, registers' \in [Servers -> Nat],
         server' \in [Servers -> ServerType], \A m \in Servers \ {k} : server'[m] = server[m],
         \/ server'[k].i = server[k].i /\ server'[k].old = server[k].old
         \/ server'[k].i > 0 =>
              /\ server'[k].old \in LocalType
              /\ IsEntry(server'[k].old) /\ server'[k].old.svc = SvcOf[k],
         server'[k].pc \in {"write", "readback", "up"} /\ Alone(k) => Has(localServices', SvcOf[k]),
         \A s : Has(localServices, s) /\ s # SvcOf[k] => Has(localServices', s)
  PROVE  RouterInv'
  <1>1. TypeOK /\ LocalInv  BY DEF RouterInv
  <1>2. TypeOK'  BY <1>1 DEF TypeOK, Records
  <1>3. \A m \in Servers : server'[m].i > 0 =>
          server'[m].old \in LocalType /\ IsEntry(server'[m].old) /\ server'[m].old.svc = SvcOf[m]
    BY <1>1 DEF LocalInv
  <1>4. ASSUME NEW m \in Servers, server'[m].pc \in {"write", "readback", "up"}, Alone(m)
        PROVE  Has(localServices', SvcOf[m])
    <2>1. CASE m = k  BY <1>4, <2>1
    <2>2. CASE m # k
      <3>1. SvcOf[m] # SvcOf[k]  BY <1>4, <2>2 DEF Alone
      <3> QED  BY <1>4, <2>2, <3>1, LocalFacts
    <2> QED  BY <2>1, <2>2
  <1>5. LocalInv'
    BY <1>3, <1>4 DEF LocalInv, Records, Has, IndexOf, Alone, IsEntry
  <1> QED  BY <1>2, <1>5, EverGrows DEF RouterInv

LEMMA EnterIs ==
  ASSUME TypeOK, NEW s \in Services, NEW n \in Nodes, Enter(s, n)
  PROVE  /\ reg' \in [Services -> SUBSET Nodes] /\ ever' \in [Services -> SUBSET Nodes]
         /\ \A t \in Services : ever[t] \subseteq ever'[t]
  BY DEF Enter, TypeOK

\* SetServer.
LEMMA ServerGoes ==
  ASSUME TypeOK, NEW k \in Servers, NEW pc \in ServerPcs, SetServer(k, pc)
  PROVE  /\ server' \in [Servers -> ServerType] /\ server'[k].pc = pc
         /\ server'[k].i = server[k].i /\ server'[k].old = server[k].old
         /\ \A m \in Servers \ {k} : server'[m] = server[m]
  BY DEF SetServer, TypeOK, ServerType

LEMMA EntryIs ==
  ASSUME NEW k \in Servers
  PROVE  /\ Entry(SvcOf[k], k, {NodeOf[k]}) \in LocalType
         /\ IsEntry(Entry(SvcOf[k], k, {NodeOf[k]}))
         /\ Entry(SvcOf[k], k, {NodeOf[k]}).svc = SvcOf[k]
  BY TopologyAssumption DEF Entry, LocalType, IsEntry

LEMMA RegisterStep ==
  ASSUME RouterInv, NEW k \in Servers, Register(k)
  PROVE  RouterInv'
  <1>0. TypeOK /\ Records(localServices)  BY LocalFacts
  <1>1. PICK s \in Services : s = SvcOf[k]  BY LocalFacts
  <1>2. PICK e \in LocalType : e = Entry(SvcOf[k], k, {NodeOf[k]}) /\ IsEntry(e) /\ e.svc = SvcOf[k]
    BY EntryIs
  <1>3. localServices' = Tracked(e)  BY <1>2 DEF Register
  <1>4. /\ Records(localServices') /\ Has(localServices', SvcOf[k])
        /\ \A t : Has(localServices, t) => Has(localServices', t)
    BY <1>0, <1>2, <1>3, TrackedIs
  <1>5. PICK new : new = IF IndexOf(s) = {} THEN [pc |-> "write", i |-> 0, old |-> NoEntry]
                         ELSE LET i == CHOOSE j \in IndexOf(s) : TRUE
                              IN  [pc |-> "write", i |-> i, old |-> localServices[i]]
    OBVIOUS
  <1>6. server' = [server EXCEPT ![k] = new]  BY <1>1, <1>5 DEF Register
  <1>7. /\ new \in ServerType
        /\ new.i > 0 => new.old \in LocalType /\ IsEntry(new.old) /\ new.old.svc = SvcOf[k]
    <2>1. CASE IndexOf(s) = {}
      <3>1. new = [pc |-> "write", i |-> 0, old |-> NoEntry]  BY <1>5, <2>1
      <3>2. new.i = 0  BY <3>1
      <3> QED  BY <3>1, <3>2 DEF ServerType, ServerPcs
    <2>2. CASE IndexOf(s) # {}
      <3>1. PICK i \in IndexOf(s) : i = CHOOSE j \in IndexOf(s) : TRUE  BY <2>2
      <3>2. new = [pc |-> "write", i |-> i, old |-> localServices[i]]  BY <1>5, <2>2, <3>1
      <3>3. i \in Nat /\ i \in DOMAIN localServices /\ localServices[i].svc = s
            /\ localServices[i] \in LocalType /\ IsEntry(localServices[i])
        BY <1>0 DEF IndexOf, Records
      <3> QED  BY <1>1, <3>2, <3>3 DEF ServerType, ServerPcs
    <2> QED  BY <2>1, <2>2
  <1>8. /\ server' \in [Servers -> ServerType] /\ server'[k] = new
        /\ \A m \in Servers \ {k} : server'[m] = server[m]
    BY <1>0, <1>6, <1>7 DEF TypeOK
  <1>9. registers' \in [Servers -> Nat]  BY <1>0 DEF Register, TypeOK
  <1> QED  BY <1>0, <1>4, <1>7, <1>8, <1>9, ServerStep DEF Register, TypeOK

LEMMA WriteStep ==
  ASSUME RouterInv, NEW k \in Servers, Write(k)
  PROVE  RouterInv'
  <1>1. TypeOK /\ Records(localServices) /\ SvcOf[k] \in Services /\ NodeOf[k] \in Nodes
    BY LocalFacts
  <1>2. /\ server' \in [Servers -> ServerType] /\ server'[k].pc = "readback"
        /\ server'[k].i = server[k].i /\ server'[k].old = server[k].old
        /\ \A m \in Servers \ {k} : server'[m] = server[m]
    BY <1>1, ServerGoes DEF Write, ServerPcs
  <1>3. /\ reg' \in [Services -> SUBSET Nodes] /\ ever' \in [Services -> SUBSET Nodes]
        /\ \A t \in Services : ever[t] \subseteq ever'[t]
    BY <1>1, EnterIs DEF Write
  <1>4. Alone(k) => Has(localServices, SvcOf[k])  BY LocalFacts DEF Write
  <1>5. UNCHANGED <<localServices, router, round, tree, changes, registers>>  BY DEF Write
  <1> QED  BY <1>1, <1>2, <1>3, <1>4, <1>5, ServerStep DEF TypeOK

LEMMA WriteFailsStep ==
  ASSUME RouterInv, NEW k \in Servers, WriteFails(k)
  PROVE  RouterInv'
  <1>1. TypeOK /\ Records(localServices) /\ SvcOf[k] \in Services /\ NodeOf[k] \in Nodes
    BY LocalFacts
  <1>2. PICK pc \in {"up", "down"} : pc = IF server[k].i > 0 THEN "up" ELSE "down"
    OBVIOUS
  <1>3. /\ server' \in [Servers -> ServerType] /\ server'[k].pc = pc
        /\ server'[k].i = server[k].i /\ server'[k].old = server[k].old
        /\ \A m \in Servers \ {k} : server'[m] = server[m]
    BY <1>1, <1>2, ServerGoes DEF WriteFails, ServerPcs
  <1>4. /\ reg' \in [Services -> SUBSET Nodes] /\ ever' \in [Services -> SUBSET Nodes]
        /\ \A t \in Services : ever[t] \subseteq ever'[t]
    BY <1>1, EnterIs DEF WriteFails, TypeOK
  <1>5. /\ server[k].i \in Nat
        /\ server[k].i > 0 =>
             server[k].old \in LocalType /\ IsEntry(server[k].old) /\ server[k].old.svc = SvcOf[k]
    BY <1>1 DEF RouterInv, LocalInv, TypeOK, ServerType
  <1>6. /\ Records(localServices')
        /\ \A s : Has(localServices, s) /\ (s # SvcOf[k] \/ server[k].i > 0)
                  => Has(localServices', s)
    BY <1>1, <1>5, RestoredIs DEF WriteFails
  <1>7. Alone(k) => Has(localServices, SvcOf[k])  BY LocalFacts DEF WriteFails
  <1>8. pc \in {"write", "readback", "up"} => server[k].i > 0  BY <1>2
  <1>9. UNCHANGED <<router, round, tree, changes, registers>>  BY DEF WriteFails
  <1> QED  BY <1>1, <1>3, <1>4, <1>6, <1>7, <1>8, <1>9, ServerStep DEF TypeOK

LEMMA ReadBackStep ==
  ASSUME RouterInv, NEW k \in Servers, ReadBack(k)
  PROVE  RouterInv'
  <1>1. TypeOK /\ Records(localServices) /\ SvcOf[k] \in Services /\ NodeOf[k] \in Nodes
    BY LocalFacts
  <1>2. /\ server' \in [Servers -> ServerType] /\ server'[k].pc = "up"
        /\ server'[k].i = server[k].i /\ server'[k].old = server[k].old
        /\ \A m \in Servers \ {k} : server'[m] = server[m]
    BY <1>1, ServerGoes DEF ReadBack, ServerPcs
  <1>3. withNodesOf(reg[SvcOf[k]], {NodeOf[k]}) = {NodeOf[k]}  BY DEF withNodesOf
  <1>4. PICK e \in LocalType : e = Entry(SvcOf[k], k, {NodeOf[k]}) /\ IsEntry(e) /\ e.svc = SvcOf[k]
    BY EntryIs
  <1>5. localServices' = Tracked(e) \/ UNCHANGED localServices
    BY <1>3, <1>4 DEF ReadBack
  <1>6. /\ Records(localServices')
        /\ \A t : Has(localServices, t) => Has(localServices', t)
    BY <1>1, <1>4, <1>5, TrackedIs
  <1>7. Alone(k) => Has(localServices, SvcOf[k])  BY LocalFacts DEF ReadBack
  <1>8. UNCHANGED <<reg, ever, router, round, tree, changes, registers>>  BY DEF ReadBack
  <1> QED  BY <1>1, <1>2, <1>6, <1>7, <1>8, ServerStep DEF TypeOK

LEMMA DeregisterStep ==
  ASSUME RouterInv, NEW k \in Servers, Deregister(k)
  PROVE  RouterInv'
  <1>1. TypeOK /\ Records(localServices)  BY LocalFacts
  <1>2. /\ server' \in [Servers -> ServerType] /\ server'[k].pc = "leave"
        /\ server'[k].i = server[k].i /\ server'[k].old = server[k].old
        /\ \A m \in Servers \ {k} : server'[m] = server[m]
    BY <1>1, ServerGoes DEF Deregister, ServerPcs
  <1>3. /\ Records(localServices')
        /\ \A s : Has(localServices, s) /\ s # SvcOf[k] => Has(localServices', s)
    BY <1>1, ForgottenIs DEF Deregister
  <1>4. UNCHANGED <<reg, ever, router, round, tree, changes, registers>>  BY DEF Deregister
  <1> QED  BY <1>1, <1>2, <1>3, <1>4, ServerStep DEF TypeOK

LEMMA LeftStep ==
  ASSUME RouterInv, NEW k \in Servers, Left(k)
  PROVE  RouterInv'
  <1>1. TypeOK /\ Records(localServices)  BY LocalFacts
  <1>2. /\ server' \in [Servers -> ServerType] /\ server'[k].pc = "down"
        /\ server'[k].i = server[k].i /\ server'[k].old = server[k].old
        /\ \A m \in Servers \ {k} : server'[m] = server[m]
    BY <1>1, ServerGoes DEF Left, ServerPcs
  <1>3. reg' \in [Services -> SUBSET Nodes]  BY <1>1 DEF Left, TypeOK
  <1>4. UNCHANGED <<ever, localServices, router, round, tree, changes, registers>>  BY DEF Left
  <1> QED  BY <1>1, <1>2, <1>3, <1>4, ServerStep DEF TypeOK

\* Other processes.
LEMMA OthersStep ==
  ASSUME RouterInv, NEW s \in Services, NEW n \in Nodes, Others(s, n)
  PROVE  RouterInv'
  <1>1. TypeOK /\ LocalInv  BY DEF RouterInv
  <1>2. changes' \in Nat  BY <1>1 DEF Others, TypeOK
  <1>3. /\ reg' \in [Services -> SUBSET Nodes] /\ ever' \in [Services -> SUBSET Nodes]
        /\ \A t \in Services : ever[t] \subseteq ever'[t]
    <2>1. CASE Enter(s, n)  BY <1>1, <2>1, EnterIs
    <2>2. CASE reg' = [reg EXCEPT ![s] = @ \ {n}] /\ UNCHANGED ever
      BY <1>1, <2>2 DEF TypeOK
    <2> QED  BY <2>1, <2>2 DEF Others
  <1>4. UNCHANGED <<localServices, server, router, round, tree, registers>>  BY DEF Others
  <1>5. TypeOK'  BY <1>1, <1>2, <1>3, <1>4 DEF TypeOK
  <1>6. LocalInv'  BY <1>1, <1>4 DEF LocalInv, IndexOf, IsEntry
  <1> QED  BY <1>3, <1>4, <1>5, <1>6, EverGrows DEF RouterInv

---------------------------------------------------------------------------
(* The router goroutines                                                   *)

\* After the step goroutine g has this; the other is where it was.
RouterIs(g, pc, svc, nodes, path) ==
  /\ router' \in [Routers -> RouterType]
  /\ router'[g].pc = pc /\ router'[g].svc = svc /\ router'[g].nodes = nodes
  /\ router'[g].path = path
  /\ \A h \in Routers \ {g} : router'[h] = router[h]

LEMMA RouterGoes ==
  ASSUME TypeOK, NEW g \in Routers, NEW pc \in RouterPcs,
         router' = [router EXCEPT ![g].pc = pc]
  PROVE  RouterIs(g, pc, router[g].svc, router[g].nodes, router[g].path)
  BY DEF RouterIs, TypeOK, RouterType

LEMMA RouterReturns ==
  ASSUME TypeOK, NEW g \in Routers, router' = [router EXCEPT ![g] = At(Resume(g))]
  PROVE  RouterIs(g, Resume(g), NoEntry, {}, NoEntry) /\ Resume(g) \in {"round", "idle"}
  <1>1. Resume(g) \in {"round", "idle"}  BY DEF Resume
  <1>2. PICK pc \in RouterPcs : pc = Resume(g)  BY <1>1 DEF RouterPcs
  <1>3. router' = [router EXCEPT ![g] =
          [pc |-> pc, svc |-> NoEntry, nodes |-> {}, todo |-> {}, path |-> NoEntry]]
    BY <1>2 DEF At
  <1>4. RouterIs(g, pc, NoEntry, {}, NoEntry)  BY <1>3 DEF RouterIs, TypeOK, RouterType
  <1> QED  BY <1>1, <1>2, <1>4

LEMMA RouterBegins ==
  ASSUME TypeOK, NEW g \in Routers, NEW s \in Services, NEW nodes \in SUBSET Nodes,
         Begin(g, s, nodes)
  PROVE  RouterIs(g, "store", s, nodes, NoEntry)
  <1>1. PICK pc \in RouterPcs : pc = "store"  BY DEF RouterPcs
  <1>2. router' = [router EXCEPT ![g] =
          [pc |-> pc, svc |-> s, nodes |-> nodes, todo |-> {}, path |-> NoEntry]]
    BY <1>1 DEF Begin
  <1>3. RouterIs(g, pc, s, nodes, NoEntry)  BY <1>2 DEF RouterIs, TypeOK, RouterType
  <1> QED  BY <1>1, <1>3

\* One field of a goroutine's record is overwritten.
LEMMA RouterField ==
  ASSUME NEW f \in [Routers -> RouterType], NEW g \in Routers,
         NEW nodes \in SUBSET Nodes, NEW todo \in SUBSET Paths,
         NEW path \in Paths \cup {NoEntry}
  PROVE  /\ [f EXCEPT ![g].nodes = nodes] \in [Routers -> RouterType]
         /\ [f EXCEPT ![g].todo = todo] \in [Routers -> RouterType]
         /\ [f EXCEPT ![g].path = path] \in [Routers -> RouterType]
  <1>1. f[g] \in RouterType  OBVIOUS
  <1>2. \A e \in RouterType : [f EXCEPT ![g] = e] \in [Routers -> RouterType]  OBVIOUS
  <1>3. [f[g] EXCEPT !.nodes = nodes] \in RouterType  BY <1>1 DEF RouterType
  <1>4. [f[g] EXCEPT !.todo = todo] \in RouterType  BY <1>1 DEF RouterType
  <1>5. [f[g] EXCEPT !.path = path] \in RouterType  BY <1>1 DEF RouterType
  <1>6. [f EXCEPT ![g].nodes = nodes] = [f EXCEPT ![g] = [f[g] EXCEPT !.nodes = nodes]]  OBVIOUS
  <1>7. [f EXCEPT ![g].todo = todo] = [f EXCEPT ![g] = [f[g] EXCEPT !.todo = todo]]  OBVIOUS
  <1>8. [f EXCEPT ![g].path = path] = [f EXCEPT ![g] = [f[g] EXCEPT !.path = path]]  OBVIOUS
  <1> QED  BY <1>2, <1>3, <1>4, <1>5, <1>6, <1>7, <1>8

LEMMA RouterPasses ==
  ASSUME TypeOK, NEW g \in Routers, NEW todo \in SUBSET Paths,
         router' = [router EXCEPT ![g].pc = "paths", ![g].nodes = {}, ![g].todo = todo]
  PROVE  RouterIs(g, "paths", router[g].svc, {}, router[g].path)
  <1>1. PICK none \in SUBSET Nodes : none = {}  OBVIOUS
  <1>2. PICK mid : mid = [router EXCEPT ![g].nodes = none]  OBVIOUS
  <1>3. mid \in [Routers -> RouterType]  BY <1>2, RouterField DEF TypeOK
  <1>4. PICK next : next = [mid EXCEPT ![g].todo = todo]  OBVIOUS
  <1>5. next \in [Routers -> RouterType]  BY <1>3, <1>4 DEF RouterType
  <1>6. \A pc \in RouterPcs : [next EXCEPT ![g].pc = pc] \in [Routers -> RouterType]
    BY <1>5 DEF RouterType
  <1>7. router' \in [Routers -> RouterType]
    <2>1. router' = [next EXCEPT ![g].pc = "paths"]  BY <1>1, <1>2, <1>4 DEF TypeOK
    <2>2. "paths" \in RouterPcs  BY DEF RouterPcs
    <2> QED  BY <1>6, <2>1, <2>2, Zenon
  <1>8. /\ router'[g].pc = "paths" /\ router'[g].svc = router[g].svc
        /\ router'[g].nodes = {} /\ router'[g].path = router[g].path
    BY DEF TypeOK, RouterType
  <1>9. \A h \in Routers \ {g} : router'[h] = router[h]  BY DEF TypeOK
  <1> QED  BY <1>7, <1>8, <1>9 DEF RouterIs

LEMMA RouterChecks ==
  ASSUME TypeOK, NEW g \in Routers, NEW todo \in SUBSET Paths, NEW pc \in RouterPcs,
         NEW path \in Paths \cup {NoEntry},
         router' = [router EXCEPT ![g].todo = todo, ![g].pc = pc, ![g].path = path]
  PROVE  RouterIs(g, pc, router[g].svc, router[g].nodes, path)
  <1>1. PICK mid : mid = [router EXCEPT ![g].todo = todo]  OBVIOUS
  <1>2. mid \in [Routers -> RouterType]  BY <1>1, RouterField DEF TypeOK
  <1>3. PICK next : next = [mid EXCEPT ![g].pc = pc]  OBVIOUS
  <1>4. next \in [Routers -> RouterType]  BY <1>2, <1>3 DEF RouterType
  <1>5. router' = [next EXCEPT ![g].path = path]  BY <1>1, <1>3 DEF TypeOK
  <1>6. router' \in [Routers -> RouterType]
    <2>1. {} \in SUBSET Nodes  OBVIOUS
    <2>2. [next EXCEPT ![g].path = path] \in [Routers -> RouterType]
      BY <1>4, <2>1, RouterField, Zenon
    <2> QED  BY <1>5, <2>2
  <1>7. /\ router'[g].pc = pc /\ router'[g].svc = router[g].svc
        /\ router'[g].nodes = router[g].nodes /\ router'[g].path = path
    BY DEF TypeOK, RouterType
  <1>8. \A h \in Routers \ {g} : router'[h] = router[h]  BY DEF TypeOK
  <1> QED  BY <1>6, <1>7, <1>8 DEF RouterIs

LEMMA RouterAdds ==
  ASSUME TypeOK, NEW g \in Routers,
         router' = [router EXCEPT ![g].pc = "paths", ![g].path = NoEntry]
  PROVE  RouterIs(g, "paths", router[g].svc, router[g].nodes, NoEntry)
  <1>1. PICK mid : mid = [router EXCEPT ![g].path = NoEntry]  OBVIOUS
  <1>2. mid \in [Routers -> RouterType]  BY <1>1 DEF TypeOK, RouterType
  <1>3. \A pc \in RouterPcs : [mid EXCEPT ![g].pc = pc] \in [Routers -> RouterType]
    BY <1>2 DEF RouterType
  <1>4. router' \in [Routers -> RouterType]
    <2>1. router' = [mid EXCEPT ![g].pc = "paths"]  BY <1>1 DEF TypeOK
    <2>2. "paths" \in RouterPcs  BY DEF RouterPcs
    <2> QED  BY <1>3, <2>1, <2>2, Zenon
  <1>5. /\ router'[g].pc = "paths" /\ router'[g].svc = router[g].svc
        /\ router'[g].nodes = router[g].nodes /\ router'[g].path = NoEntry
    BY DEF TypeOK, RouterType
  <1>6. \A h \in Routers \ {g} : router'[h] = router[h]  BY DEF TypeOK
  <1> QED  BY <1>4, <1>5, <1>6 DEF RouterIs

\* A step of goroutine g that leaves the tree alone.
LEMMA RouterStep ==
  ASSUME RouterInv, NEW g \in Routers,
         NEW pc, NEW svc, NEW nodes, NEW path, RouterIs(g, pc, svc, nodes, path),
         UNCHANGED <<reg, ever, localServices, server, tree, changes, registers>>,
         round' \in [locals : SUBSET Listed, left : SUBSET Listed],
         pc \in {"store", "paths", "add"} => svc \in Services,
         pc = "store" => nodes \subseteq ever[svc],
         pc \in {"paths", "add"} /\ OneNode => OfferedElsewhere(svc),
         pc = "add" => path \in Paths /\ (~LateMount => tree[path] # "local")
  PROVE  RouterInv'
  <1>1. TypeOK /\ LocalInv  BY DEF RouterInv
  <1>2. TypeOK'  BY <1>1 DEF TypeOK, RouterIs
  <1>3. LocalInv'  BY <1>1 DEF LocalInv, IndexOf, IsEntry
  <1>4. \A s : OfferedElsewhere(s)' <=> OfferedElsewhere(s)  BY DEF OfferedElsewhere
  <1>5. NoSelfProxy'  BY <1>4 DEF RouterInv, NoSelfProxy, OfferedElsewhere
  <1>6. StoreInv'
    <2> SUFFICES ASSUME NEW h \in Routers  PROVE StoreInv!(h)'
      BY DEF StoreInv
    <2>1. StoreInv!(h)  BY DEF RouterInv, StoreInv
    <2>2. CASE h = g  BY <2>2 DEF RouterIs, OfferedElsewhere
    <2>3. CASE h # g
      <3>1. router'[h] = router[h]  BY <2>3 DEF RouterIs
      <3> QED  BY <2>1, <3>1 DEF OfferedElsewhere
    <2> QED  BY <2>2, <2>3
  <1> QED  BY <1>2, <1>3, <1>5, <1>6 DEF RouterInv

LEMMA WakeStep ==
  ASSUME RouterInv, NEW g \in Routers, Wake(g)
  PROVE  RouterInv'
  <1>1. TypeOK  BY DEF RouterInv
  <1>2. RouterIs(g, "idle", router[g].svc, router[g].nodes, router[g].path)
    BY <1>1, RouterGoes DEF Wake, RouterPcs
  <1>3. round' \in [locals : SUBSET Listed, left : SUBSET Listed]  BY <1>1 DEF Wake, TypeOK
  <1> QED  BY <1>2, <1>3, RouterStep DEF Wake

LEMMA WatchEventStep ==
  ASSUME RouterInv, NEW s \in Services, WatchEvent(s)
  PROVE  RouterInv'
  <1>1. TypeOK  BY DEF RouterInv
  <1>2. PICK nodes \in SUBSET ever[s] : Begin("watch", s, nodes)  BY DEF WatchEvent, Snapshots
  <1>3. nodes \in SUBSET Nodes /\ "watch" \in Routers  BY <1>1 DEF TypeOK, Routers
  <1>4. RouterIs("watch", "store", s, nodes, NoEntry)  BY <1>1, <1>2, <1>3, RouterBegins
  <1>5. round' \in [locals : SUBSET Listed, left : SUBSET Listed]
    BY <1>1 DEF WatchEvent, TypeOK
  <1> QED  BY <1>3, <1>4, <1>5, RouterStep DEF WatchEvent

\* The rounds of refresh.
LEMMA RefreshStep ==
  ASSUME RouterInv, RefreshRound \/ RefreshList \/ RefreshEnds
  PROVE  RouterInv'
  <1>1. TypeOK /\ "refresh" \in Routers  BY DEF RouterInv, Routers
  <1>2. CASE RefreshRound
    <2>1. Locals \subseteq Listed
      <3> SUFFICES ASSUME NEW i \in DOMAIN localServices
                   PROVE  [svc |-> localServices[i].svc, nodes |-> localServices[i].nodes]
                            \in Listed
        BY DEF Locals
      <3>1. localServices[i] \in LocalType  BY <1>1 DEF TypeOK
      <3> QED  BY <3>1 DEF LocalType, Listed
    <2>2. round' \in [locals : SUBSET Listed, left : SUBSET Listed]
      BY <1>2, <2>1 DEF RefreshRound
    <2>3. RouterIs("refresh", "list", router["refresh"].svc, router["refresh"].nodes,
                   router["refresh"].path)
      BY <1>1, <1>2, RouterGoes DEF RefreshRound, RouterPcs
    <2> QED  BY <1>1, <1>2, <2>2, <2>3, RouterStep DEF RefreshRound
  <1>3. CASE RefreshList
    <2>1. PICK list : list = {[svc |-> s, nodes |-> reg[s]] : s \in {t \in Services : reg[t] # {}}}
      OBVIOUS
    <2>2. list \subseteq Listed  BY <1>1, <2>1 DEF Listed, TypeOK
    <2>3. round' = [locals |-> round.locals \cap list, left |-> list]
      BY <1>3, <2>1 DEF RefreshList
    <2>4. round' \in [locals : SUBSET Listed, left : SUBSET Listed]
      BY <1>1, <2>2, <2>3 DEF TypeOK
    <2>5. RouterIs("refresh", "round", router["refresh"].svc, router["refresh"].nodes,
                   router["refresh"].path)
      BY <1>1, <1>3, RouterGoes DEF RefreshList, RouterPcs
    <2> QED  BY <1>1, <1>3, <2>4, <2>5, RouterStep DEF RefreshList
  <1>4. CASE RefreshEnds
    <2>1. round' \in [locals : SUBSET Listed, left : SUBSET Listed]
      BY <1>4 DEF RefreshEnds
    <2>2. RouterIs("refresh", "idle", router["refresh"].svc, router["refresh"].nodes,
                   router["refresh"].path)
      BY <1>1, <1>4, RouterGoes DEF RefreshEnds, RouterPcs
    <2> QED  BY <1>1, <1>4, <2>1, <2>2, RouterStep DEF RefreshEnds
  <1> QED  BY <1>2, <1>3, <1>4

LEMMA RefreshServiceStep ==
  ASSUME RouterInv, NEW listed \in round.left, RefreshService(listed)
  PROVE  RouterInv'
  <1>1. TypeOK /\ "refresh" \in Routers  BY DEF RouterInv, Routers
  <1>2. listed.svc \in Services  BY <1>1 DEF TypeOK, Listed
  <1>3. round' \in [locals : SUBSET Listed, left : SUBSET Listed]
    BY <1>1 DEF RefreshService, TypeOK
  <1>4. CASE UNCHANGED router
    <2>1. RouterIs("refresh", router["refresh"].pc, router["refresh"].svc,
                   router["refresh"].nodes, router["refresh"].path)
      BY <1>1, <1>4 DEF RouterIs, TypeOK
    <2>2. router["refresh"].pc = "round"  BY DEF RefreshService
    <2> QED  BY <1>1, <1>3, <2>1, <2>2, RouterStep DEF RefreshService
  <1>5. CASE \E nodes \in Snapshots(listed.svc) : Begin("refresh", listed.svc, nodes)
    <2>1. PICK nodes \in SUBSET ever[listed.svc] : Begin("refresh", listed.svc, nodes)
      BY <1>5 DEF Snapshots
    <2>2. nodes \in SUBSET Nodes  BY <1>1, <1>2 DEF TypeOK
    <2>3. RouterIs("refresh", "store", listed.svc, nodes, NoEntry)
      BY <1>1, <1>2, <2>1, <2>2, RouterBegins
    <2> QED  BY <1>1, <1>2, <1>3, <2>3, RouterStep DEF RefreshService
  <1> QED  BY <1>4, <1>5 DEF RefreshService

\* Once there is a record and the servers share their node, that node is known;
\* a node that passes is another's.
LEMMA IdentifyStep ==
  ASSUME RouterInv, NEW g \in Routers, Identify(g)
  PROVE  RouterInv'
  <1>1. TypeOK /\ LocalInv /\ StoreInv  BY DEF RouterInv
  <1>2. round' \in [locals : SUBSET Listed, left : SUBSET Listed]
    BY <1>1 DEF Identify, TypeOK
  <1>3. CASE localServices = <<>> \/ Forwardable(router[g].nodes) = {}
    <2>1. RouterIs(g, Resume(g), NoEntry, {}, NoEntry) /\ Resume(g) \in {"round", "idle"}
      BY <1>1, <1>3, RouterReturns DEF Identify
    <2> QED  BY <1>2, <2>1, RouterStep DEF Identify
  <1>4. CASE localServices # <<>> /\ Forwardable(router[g].nodes) # {}
    <2>1. router[g].svc \in Services /\ router[g].nodes \subseteq ever[router[g].svc]
      BY <1>1 DEF Identify, StoreInv
    <2>2. PICK todo \in SUBSET Paths : todo = Endpoints[router[g].svc]
      BY <2>1, TopologyAssumption
    <2>3. router' = [router EXCEPT ![g].pc = "paths", ![g].nodes = {}, ![g].todo = todo]
      BY <1>4, <2>2 DEF Identify
    <2>4. RouterIs(g, "paths", router[g].svc, {}, router[g].path)
      BY <1>1, <2>3, RouterPasses
    <2>5. PICK n \in router[g].nodes : /\ n \notin Ids /\ n \in HttpNodes
                                       /\ AddrOf[n] \notin {AddrOf[m] : m \in Ids}
      BY <1>4 DEF Forwardable
    <2>6. OneNode => Own \subseteq Ids
      <3> SUFFICES ASSUME OneNode, NEW k \in Servers  PROVE NodeOf[k] \in Ids
        BY DEF Own
      <3>1. 1 \in DOMAIN localServices  BY <1>1, <1>4 DEF TypeOK
      <3>2. IsEntry(localServices[1])  BY <1>1, <3>1 DEF LocalInv
      <3>3. NodeOf[k] \in localServices[1].nodes  BY <3>2 DEF IsEntry, OneNode
      <3> QED  BY <3>1, <3>3 DEF Ids
    <2>7. OneNode => OfferedElsewhere(router[g].svc)
      BY <2>1, <2>5, <2>6 DEF OfferedElsewhere
    <2> QED  BY <1>2, <2>1, <2>4, <2>7, RouterStep DEF Identify
  <1> QED  BY <1>3, <1>4

LEMMA CheckPathStep ==
  ASSUME RouterInv, NEW g \in Routers, NEW p \in Paths, CheckPath(g, p)
  PROVE  RouterInv'
  <1>1. TypeOK /\ StoreInv  BY DEF RouterInv
  <1>2. PICK pc \in RouterPcs : pc = IF hasLocalRoute(p) THEN "paths" ELSE "add"
    BY DEF RouterPcs
  <1>3. PICK path \in Paths \cup {NoEntry} : path = IF hasLocalRoute(p) THEN NoEntry ELSE p
    OBVIOUS
  <1>4. PICK todo \in SUBSET Paths : todo = router[g].todo \ {p}
    BY <1>1 DEF TypeOK, RouterType
  <1>5. router' = [router EXCEPT ![g].todo = todo, ![g].pc = pc, ![g].path = path]
    BY <1>2, <1>3, <1>4 DEF CheckPath
  <1>6. RouterIs(g, pc, router[g].svc, router[g].nodes, path)
    BY <1>1, <1>5, RouterChecks
  <1>7. round' \in [locals : SUBSET Listed, left : SUBSET Listed]
    BY <1>1 DEF CheckPath, TypeOK
  <1>8. router[g].svc \in Services /\ (OneNode => OfferedElsewhere(router[g].svc))
    BY <1>1 DEF CheckPath, StoreInv
  <1>9. pc = "add" => path \in Paths /\ tree[path] # "local"
    BY <1>2, <1>3 DEF hasLocalRoute
  <1>10. pc # "store"  BY <1>2
  <1> QED  BY <1>6, <1>7, <1>8, <1>9, <1>10, RouterStep DEF CheckPath

LEMMA StoreEndsStep ==
  ASSUME RouterInv, NEW g \in Routers, StoreEnds(g)
  PROVE  RouterInv'
  <1>1. TypeOK  BY DEF RouterInv
  <1>2. RouterIs(g, Resume(g), NoEntry, {}, NoEntry) /\ Resume(g) \in {"round", "idle"}
    BY <1>1, RouterReturns DEF StoreEnds
  <1>3. round' \in [locals : SUBSET Listed, left : SUBSET Listed]
    BY <1>1 DEF StoreEnds, TypeOK
  <1> QED  BY <1>2, <1>3, RouterStep DEF StoreEnds

\* The route leads to a service that is offered elsewhere.
LEMMA AddRouteStep ==
  ASSUME RouterInv, NEW g \in Routers, AddRoute(g)
  PROVE  /\ RouterInv'
         /\ ~LateMount => \A p \in Paths : tree[p] = "local" => tree'[p] = "local"
  <1>1. TypeOK /\ LocalInv /\ StoreInv /\ NoSelfProxy  BY DEF RouterInv
  <1>2. PICK s \in Services : s = router[g].svc  BY <1>1 DEF AddRoute, StoreInv
  <1>3. PICK p \in Paths : p = router[g].path /\ (~LateMount => tree[p] # "local")
    BY <1>1 DEF AddRoute, StoreInv
  <1>4. RouterIs(g, "paths", s, router[g].nodes, NoEntry)
    BY <1>1, <1>2, RouterAdds DEF AddRoute
  <1>5. tree' = [tree EXCEPT ![p] = s]  BY <1>2, <1>3 DEF AddRoute
  <1>6. /\ tree' \in [Paths -> Services \cup {"none", "local"}] /\ tree'[p] = s
        /\ \A x \in Paths \ {p} : tree'[x] = tree[x]
    BY <1>1, <1>5 DEF TypeOK
  <1>7. s # "local"  BY TopologyAssumption
  <1>8. UNCHANGED <<reg, ever, localServices, server, round, changes, registers>>
    BY DEF AddRoute
  <1>9. TypeOK'  BY <1>1, <1>4, <1>6, <1>8 DEF TypeOK, RouterIs
  <1>10. LocalInv'  BY <1>1, <1>8 DEF LocalInv, IndexOf, IsEntry
  <1>11. OneNode => OfferedElsewhere(s)  BY <1>1, <1>2 DEF AddRoute, StoreInv
  <1>12. \A t : (\E n \in ever'[t] : n \in HttpNodes /\ n \notin Own
                    /\ AddrOf[n] \notin {AddrOf[m] : m \in Own}) <=> OfferedElsewhere(t)
    BY <1>8 DEF OfferedElsewhere
  <1>13. NoSelfProxy'
    BY <1>1, <1>6, <1>11, <1>12 DEF NoSelfProxy, OfferedElsewhere
  <1>14. StoreInv'
    <2> SUFFICES ASSUME NEW h \in Routers  PROVE StoreInv!(h)'
      BY DEF StoreInv
    <2>1. StoreInv!(h)  BY <1>1 DEF StoreInv
    <2>2. CASE h = g  BY <1>4, <1>8, <1>11, <2>2 DEF RouterIs, OfferedElsewhere
    <2>3. CASE h # g
      <3>1. router'[h] = router[h]  BY <1>4, <2>3 DEF RouterIs
      <3>2. \A x \in Paths : tree[x] # "local" => tree'[x] # "local"  BY <1>6, <1>7
      <3> QED  BY <1>8, <2>1, <3>1, <3>2 DEF OfferedElsewhere
    <2> QED  BY <2>2, <2>3
  <1>15. ~LateMount => \A x \in Paths : tree[x] = "local" => tree'[x] = "local"
    BY <1>3, <1>6
  <1> QED  BY <1>9, <1>10, <1>13, <1>14, <1>15 DEF RouterInv

\* Handlers are mounted before discovery starts, or may be mounted at any time.
LEMMA MountStep ==
  ASSUME RouterInv, NEW p \in Paths, Mount(p)
  PROVE  RouterInv' /\ \A x \in Paths : tree[x] = "local" => tree'[x] = "local"
  <1>1. TypeOK /\ LocalInv /\ StoreInv /\ NoSelfProxy  BY DEF RouterInv
  <1>2. /\ tree' \in [Paths -> Services \cup {"none", "local"}] /\ tree'[p] = "local"
        /\ \A x \in Paths \ {p} : tree'[x] = tree[x]
    BY <1>1 DEF Mount, TypeOK
  <1>3. "local" \notin Services  BY TopologyAssumption
  <1>4. UNCHANGED <<reg, ever, localServices, server, router, round, changes, registers>>
    BY DEF Mount
  <1>5. TypeOK'  BY <1>1, <1>2, <1>4 DEF TypeOK
  <1>6. LocalInv'  BY <1>1, <1>4 DEF LocalInv, IndexOf, IsEntry
  <1>7. NoSelfProxy'  BY <1>1, <1>2, <1>3, <1>4 DEF NoSelfProxy, OfferedElsewhere
  <1>8. StoreInv'
    <2>1. ~LateMount => \A g \in Routers : router[g].pc # "add"  BY DEF Mount
    <2> QED  BY <1>1, <1>4, <2>1 DEF StoreInv, OfferedElsewhere
  <1> QED  BY <1>2, <1>5, <1>6, <1>7, <1>8 DEF RouterInv

---------------------------------------------------------------------------
(* The theorems                                                            *)

LEMMA InitInv == Init => RouterInv
  <1> SUFFICES ASSUME Init  PROVE RouterInv
    OBVIOUS
  <1>1. \A g \in Routers : router[g] = At("wait")  BY DEF Init
  <1>2. At("wait") \in RouterType /\ At("wait").pc = "wait"
    BY DEF At, RouterType, RouterPcs
  <1>3. router \in [Routers -> RouterType]  BY <1>2 DEF Init
  <1>4. /\ server \in [Servers -> ServerType]
        /\ \A k \in Servers : server[k].pc = "down" /\ server[k].i = 0
    BY DEF Init, ServerType, ServerPcs
  <1>5. localServices \in Seq(LocalType) /\ DOMAIN localServices = {}  BY DEF Init
  <1>6. TypeOK  BY <1>3, <1>4, <1>5 DEF Init, TypeOK
  <1>7. LocalInv  BY <1>4, <1>5 DEF LocalInv
  <1>8. StoreInv  BY <1>1, <1>2 DEF StoreInv
  <1>9. NoSelfProxy  BY TopologyAssumption DEF Init, NoSelfProxy
  <1> QED  BY <1>6, <1>7, <1>8, <1>9 DEF RouterInv

\* The steps that leave the tree alone.
LEMMA StepKeepsTree ==
  ASSUME Next, \A p \in Paths : ~Mount(p), \A g \in Routers : ~AddRoute(g)
  PROVE  UNCHANGED tree
  BY DEF Next, Others, Register, Write, WriteFails, ReadBack, Deregister, Left, WatchEvent,
         RefreshRound, RefreshList, RefreshEnds, RefreshService, Wake, Identify, StoreEnds,
         CheckPath

LEMMA NextInv == RouterInv /\ [Next]_vars => RouterInv'
  <1> SUFFICES ASSUME RouterInv, [Next]_vars  PROVE RouterInv'
    OBVIOUS
  <1>1. ASSUME NEW s \in Services, NEW n \in Nodes, Others(s, n)  PROVE RouterInv'
    BY <1>1, OthersStep
  <1>2. ASSUME NEW k \in Servers, Register(k) \/ Write(k) \/ WriteFails(k) \/ ReadBack(k)
                                  \/ Deregister(k) \/ Left(k)
        PROVE  RouterInv'
    BY <1>2, RegisterStep, WriteStep, WriteFailsStep, ReadBackStep, DeregisterStep, LeftStep
  <1>3. ASSUME NEW p \in Paths, Mount(p)  PROVE RouterInv'
    BY <1>3, MountStep
  <1>4. ASSUME NEW s \in Services, WatchEvent(s)  PROVE RouterInv'
    BY <1>4, WatchEventStep
  <1>5. CASE RefreshRound \/ RefreshList \/ RefreshEnds  BY <1>5, RefreshStep
  <1>6. ASSUME NEW listed \in round.left, RefreshService(listed)  PROVE RouterInv'
    BY <1>6, RefreshServiceStep
  <1>7. ASSUME NEW g \in Routers, Wake(g) \/ Identify(g) \/ AddRoute(g) \/ StoreEnds(g)
        PROVE  RouterInv'
    BY <1>7, WakeStep, IdentifyStep, AddRouteStep, StoreEndsStep
  <1>8. ASSUME NEW g \in Routers, NEW p \in Paths, CheckPath(g, p)  PROVE RouterInv'
    BY <1>8, CheckPathStep
  <1>9. CASE UNCHANGED vars
    <2> USE <1>9 DEF vars
    <2>1. TypeOK'  BY DEF RouterInv, TypeOK
    <2>2. LocalInv'  BY DEF RouterInv, LocalInv, IndexOf, IsEntry
    <2>3. StoreInv' /\ NoSelfProxy'  BY EverGrows
    <2> QED  BY <2>1, <2>2, <2>3 DEF RouterInv
  <1> QED  BY <1>1, <1>2, <1>3, <1>4, <1>5, <1>6, <1>7, <1>8, <1>9 DEF Next

\* The inductive invariant of the cacher's local records and the router's store.
THEOREM RouterInvariant == Spec => []RouterInv
  <1>1. RouterInv /\ [Next]_vars => RouterInv'  BY NextInv
  <1> QED  BY <1>1, InitInv, PTL DEF Spec

\* The variables keep their types, and no service has two local records.
THEOREM TypeCorrect == Spec => []TypeOK
  <1>1. RouterInv => TypeOK  BY DEF RouterInv
  <1> QED  BY <1>1, RouterInvariant, PTL

\* A node of another process is never taken for ours, although the registry merges
\* the nodes of all processes under one name.
THEOREM IdentityStaysOurs == Spec => []IdentityIsOurs
  <1>1. RouterInv => IdentityIsOurs
    BY DEF RouterInv, LocalInv, IdentityIsOurs, Ids, Own, IsEntry
  <1> QED  BY <1>1, RouterInvariant, PTL

\* The only server of its service knows its own node from before the registry
\* shows it until it deregisters, whatever the other servers do meanwhile.
THEOREM KnownBeforeVisible == Spec => []KnownWhenVisible
  <1>1. RouterInv => KnownWhenVisible
    <2> SUFFICES ASSUME RouterInv, NEW k \in Servers,
                        server[k].pc \in {"write", "readback", "up"},
                        \A m \in Servers : SvcOf[m] = SvcOf[k] => m = k
                 PROVE  NodeOf[k] \in Ids
      BY DEF KnownWhenVisible
    <2>1. PICK i \in DOMAIN localServices : localServices[i].svc = SvcOf[k]
      BY DEF RouterInv, LocalInv, IndexOf
    <2>2. IsEntry(localServices[i])  BY DEF RouterInv, LocalInv
    <2>3. localServices[i].nodes = {NodeOf[k]}  BY <2>1, <2>2 DEF IsEntry
    <2> QED  BY <2>3 DEF Ids
  <1> QED  BY <1>1, RouterInvariant, PTL

\* If the servers of the process share their node, a path is proxied only to a
\* service that another process has offered: never to this process.
THEOREM NeverSelfProxied == Spec => []NoSelfProxy
  <1>1. RouterInv => NoSelfProxy  BY DEF RouterInv
  <1> QED  BY <1>1, RouterInvariant, PTL

\* If all handlers are mounted before discovery starts, none is ever replaced by a
\* proxy route, although store looks and adds in two steps.
THEOREM LocalRoutesAreKept == ~LateMount => (Spec => LocalRouteKept)
  <1> SUFFICES ASSUME ~LateMount  PROVE Spec => LocalRouteKept
    OBVIOUS
  <1>1. RouterInv /\ [Next]_vars =>
          [\A p \in Paths : tree[p] = "local" => tree'[p] = "local"]_vars
    <2> SUFFICES ASSUME RouterInv, Next, NEW p \in Paths, tree[p] = "local"
                 PROVE  tree'[p] = "local"
      OBVIOUS
    <2>1. CASE \E x \in Paths : Mount(x)  BY <2>1, MountStep
    <2>2. CASE \E g \in Routers : AddRoute(g)  BY <2>2, AddRouteStep
    <2>3. CASE /\ \A x \in Paths : ~Mount(x)
               /\ \A g \in Routers : ~AddRoute(g)
      BY <2>3, StepKeepsTree
    <2> QED  BY <2>1, <2>2, <2>3
  <1> QED  BY <1>1, RouterInvariant, PTL DEF Spec, LocalRouteKept
============================================================================
