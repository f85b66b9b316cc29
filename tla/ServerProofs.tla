---------------------------- MODULE ServerProofs ----------------------------
(***************************************************************************)
(* What the server promises besides: its registration, teams, fair runs.   *)
(*                                                                         *)
(* CRegister: the tables of the master agree, a game server leaves its     *)
(* info out only when the master has it, and no info is replaced by an     *)
(* older one, whatever requests are lost or overtake each other, for any   *)
(* number of protocols, requests under way, changes, faults and restarts.  *)
(*                                                                         *)
(* What the master does to its tables is one of two things, to add a       *)
(* server (Registers) or to remove one (Removes); what happens to the      *)
(* requests under way is that one is sent, answered or taken back.         *)
(*                                                                         *)
(* CGameTeams: a team nobody is in keeps nothing, and a run is in one      *)
(* place at a time, for any number of clients, teams and runs.  TeamsInv   *)
(* says that the runs raced, saved and with a worker are different ones.   *)
(* Within a handler only its part TeamsSound holds, and Keeps says that    *)
(* the handlers, their calls and their loops neither start a run nor touch *)
(* a pending save; the few that do have lemmas of their own.               *)
(*                                                                         *)
(* FairInv says who may still finish: nobody who practised on his run and  *)
(* does not any more, and nobody with the finish of an earlier one.        *)
(* Lowers is for it what Keeps is for TeamsInv: nobody finishes or starts. *)
(***************************************************************************)
EXTENDS Register, Teams, NumberLemmas, FiniteSetTheorems, SequenceTheorems

LEMMA Constants ==
  /\ MaxSerial \in Nat /\ MaxFlight \in Nat /\ MaxGen \in Nat
  /\ 0 \in Gens /\ 0 \in 0 .. MaxSerial
  /\ \A me \in Gens : me \in Nat /\ me # None
BY RegisterAssumption DEF Gens, None

\* What is left of a sequence without one of its elements.
LEMMA RemoveAtProps ==
  ASSUME NEW S, NEW s \in Seq(S), NEW k \in DOMAIN s
  PROVE  /\ RemoveAt(s, k) \in Seq(S)
         /\ Len(RemoveAt(s, k)) = Len(s) - 1
         /\ \A i \in DOMAIN RemoveAt(s, k) : \E j \in DOMAIN s : RemoveAt(s, k)[i] = s[j]
<1> DEFINE a == SubSeq(s, 1, k - 1)
           b == SubSeq(s, k + 1, Len(s))
<1>1. k \in 1 .. Len(s) /\ Len(s) \in Nat /\ DOMAIN s = 1 .. Len(s)
  OBVIOUS
<1>2. /\ a \in Seq(S) /\ Len(a) = k - 1
      /\ \A i \in 1 .. k - 1 : a[i] = s[i]
  BY <1>1
<1>3. /\ b \in Seq(S) /\ Len(b) = Len(s) - k
      /\ \A i \in 1 .. Len(s) - k : b[i] = s[i + k]
  BY <1>1
<1>4. RemoveAt(s, k) = a \o b
  BY DEF RemoveAt
<1> HIDE DEF a, b
<1>5. /\ a \o b \in Seq(S) /\ Len(a \o b) = Len(s) - 1
      /\ \A i \in 1 .. Len(s) - 1 : (a \o b)[i] = IF i <= k - 1 THEN a[i] ELSE b[i - (k - 1)]
  <2>1. /\ a \o b \in Seq(S) /\ Len(a \o b) = Len(a) + Len(b)
        /\ \A i \in 1 .. Len(a) + Len(b) :
             (a \o b)[i] = IF i <= Len(a) THEN a[i] ELSE b[i - Len(a)]
    BY <1>2, <1>3, ConcatProperties
  <2>2. Len(a) = k - 1 /\ Len(a) + Len(b) = Len(s) - 1
    BY <1>1, <1>2, <1>3
  <2> QED BY <2>1, <2>2
<1>6. ASSUME NEW i \in DOMAIN (a \o b)
      PROVE  \E j \in DOMAIN s : (a \o b)[i] = s[j]
  <2>1. i \in 1 .. Len(s) - 1
    BY <1>5
  <2>2. CASE i <= k - 1
    <3>1. (a \o b)[i] = s[i] /\ i \in DOMAIN s
      BY <1>1, <1>2, <1>5, <2>1, <2>2
    <3> QED BY <3>1
  <2>3. CASE ~ (i <= k - 1)
    <3>1. i - (k - 1) \in 1 .. Len(s) - k
      BY <1>1, <2>1, <2>3
    <3>2. (a \o b)[i] = s[(i - (k - 1)) + k]
      BY <1>3, <1>5, <2>1, <2>3, <3>1
    <3>3. (i - (k - 1)) + k = i + 1 /\ i + 1 \in DOMAIN s
      BY <1>1, <2>1
    <3> QED BY <3>2, <3>3
  <2> QED BY <2>2, <2>3
<1> QED BY <1>4, <1>5, <1>6

LEMMA InitInv == Init => IInv
<1> SUFFICES ASSUME Init  PROVE IInv
  OBVIOUS
<1>1. TypeOK
  <2>1. PICK on \in SUBSET Protocols : prot = [p \in Protocols |-> Fresh(p \in on)]
    BY DEF Init
  <2>2. prot \in [Protocols -> Protocol]
    BY <2>1 DEF Fresh, Protocol, Ages
  <2>3. flight \in [Protocols -> Seq(Job)] /\ \A p \in Protocols : Len(flight[p]) <= MaxFlight
    <3>1. << >> \in Seq(Job) /\ Len(<< >>) <= MaxFlight
      BY Constants
    <3> QED BY <3>1 DEF Init
  <2>4. addr \in [Protocols -> Gens \cup {None}]
    BY DEF Init
  <2>5. DOMAIN servers = {} /\ servers \in [DOMAIN servers -> Entry]
    BY DEF Init
  <2>6. /\ stray \in [Protocols -> SUBSET StrayRequest] /\ dels \in [Protocols -> SUBSET Gens]
        /\ chal \in [Protocols -> SUBSET Ages]
    BY DEF Init
  <2>7. gen \in Gens /\ serial \in 0 .. MaxSerial /\ known \in -1 .. serial /\ forgot \in BOOLEAN
    <3>1. gen = 0 /\ serial = 0 /\ known = -1 /\ forgot \in BOOLEAN
      BY DEF Init
    <3> QED BY <3>1, Constants
  <2> QED BY <2>2, <2>3, <2>4, <2>5, <2>6, <2>7 DEF TypeOK
<1>2. TablesAgree
  BY DEF Init, TablesAgree
<1>3. SilentMeansStored /\ OkStored
  BY DEF Init, SilentMeansStored, OkStored
<1> QED BY <1>1, <1>2, <1>3 DEF IInv, MasterAgrees

-----------------------------------------------------------------------------
(* The master.                                                              *)

\* What a step may do to the tables of the master.
MasterStep ==
  /\ addr' \in [Protocols -> Gens \cup {None}]
  /\ DOMAIN servers' \subseteq Gens /\ servers' \in [DOMAIN servers' -> Entry]
  /\ forgot' \in BOOLEAN
  /\ TablesAgree'
  /\ \A me \in DOMAIN servers \cap DOMAIN servers' : servers'[me].serial >= servers[me].serial
  /\ ~ forgot' => /\ ~ forgot
                  /\ gen \in DOMAIN servers => gen \in DOMAIN servers'

LEMMA MasterSame == IInv /\ UNCHANGED master => MasterStep
<1> SUFFICES ASSUME IInv, UNCHANGED master  PROVE MasterStep
  OBVIOUS
<1>1. /\ TypeOK /\ TablesAgree /\ addr' = addr /\ servers' = servers /\ forgot' = forgot
  BY DEF IInv, MasterAgrees, master
<1>2. \A me \in DOMAIN servers : servers[me].serial \in Int
  BY <1>1 DEF TypeOK, Entry
<1>3. TablesAgree'
  BY <1>1 DEF TablesAgree
<1> QED BY <1>1, <1>2, <1>3 DEF MasterStep, TypeOK

\* What is left of the servers when p is no longer an address of the server me.
LEMMA WithoutProps ==
  ASSUME IInv, NEW p \in Protocols, NEW me \in Gens, addr[p] = me
  PROVE  LET s == Without(servers, me, p)
         IN /\ DOMAIN s \subseteq DOMAIN servers
            /\ s \in [DOMAIN s -> Entry]
            /\ \A h \in DOMAIN servers : h # me => h \in DOMAIN s /\ s[h] = servers[h]
            /\ \A h \in DOMAIN s : /\ s[h].serial = servers[h].serial
                                   /\ s[h].addrs = servers[h].addrs \ {p}
                                   /\ s[h].addrs # {}
            /\ me \notin DOMAIN s => servers[me].addrs \ {p} = {}
<1> DEFINE s == Without(servers, me, p)
           left == servers[me].addrs \ {p}
<1>1. /\ servers \in [DOMAIN servers -> Entry] /\ me \in DOMAIN servers
      /\ \A h \in DOMAIN servers : /\ servers[h].addrs = {q \in Protocols : addr[q] = h}
                                   /\ servers[h].addrs # {}
      /\ \A q \in Protocols : addr[q] # None => addr[q] \in DOMAIN servers
  BY Constants DEF IInv, MasterAgrees, TypeOK, TablesAgree
<1>2. \A h \in DOMAIN servers : h # me => servers[h].addrs \ {p} = servers[h].addrs
  BY <1>1
<1>3. CASE left = {}
  <2>1. s = [h \in DOMAIN servers \ {me} |-> servers[h]]
    BY <1>3 DEF Without
  <2> QED BY <1>1, <1>2, <1>3, <2>1
<1>4. CASE left # {}
  <2>1. s = [servers EXCEPT ![me].addrs = left]
    BY <1>4 DEF Without
  <2>2. left \in SUBSET Protocols
    BY <1>1 DEF Entry
  <2>3. /\ DOMAIN s = DOMAIN servers
        /\ \A h \in DOMAIN servers : h # me => s[h] = servers[h]
        /\ s[me] = [servers[me] EXCEPT !.addrs = left]
    BY <1>1, <2>1
  <2>4. s[me] \in Entry /\ s[me].addrs = left /\ s[me].serial = servers[me].serial
    BY <1>1, <2>2, <2>3 DEF Entry
  <2>5. s \in [DOMAIN s -> Entry]
    BY <1>1, <2>1, <2>3, <2>4
  <2> HIDE DEF s
  <2>6. \A h \in DOMAIN s : /\ s[h].serial = servers[h].serial
                           /\ s[h].addrs = servers[h].addrs \ {p}
                           /\ s[h].addrs # {}
    <3> SUFFICES ASSUME NEW h \in DOMAIN s
                 PROVE  /\ s[h].serial = servers[h].serial
                        /\ s[h].addrs = servers[h].addrs \ {p}
                        /\ s[h].addrs # {}
      OBVIOUS
    <3>1. CASE h = me
      BY <1>4, <2>4, <3>1
    <3>2. CASE h # me
      BY <1>1, <1>2, <2>3, <3>2
    <3> QED BY <3>1, <3>2
  <2>7. me \in DOMAIN s /\ DOMAIN s \subseteq DOMAIN servers
    BY <1>1, <2>3
  <2> QED BY <2>3, <2>5, <2>6, <2>7 DEF s
<1> QED BY <1>3, <1>4

LEMMA RemovesStep ==
  ASSUME IInv, NEW p \in Protocols, addr[p] # None, Removes(p), gen' = gen
  PROVE  MasterStep
<1> DEFINE me == addr[p]
           s == Without(servers, me, p)
<1>1. /\ TypeOK /\ TablesAgree /\ me \in Gens /\ me \in DOMAIN servers
  BY DEF IInv, MasterAgrees, TypeOK, TablesAgree
<1>2. /\ addr' = [addr EXCEPT ![p] = None]
      /\ servers' = s
      /\ forgot' = (forgot \/ gen \in DOMAIN servers \ DOMAIN servers')
  BY DEF Removes, Forgets
<1>3. /\ DOMAIN s \subseteq DOMAIN servers
      /\ s \in [DOMAIN s -> Entry]
      /\ \A h \in DOMAIN servers : h # me => h \in DOMAIN s /\ s[h] = servers[h]
      /\ \A h \in DOMAIN s : /\ s[h].serial = servers[h].serial
                             /\ s[h].addrs = servers[h].addrs \ {p}
                             /\ s[h].addrs # {}
      /\ me \notin DOMAIN s => servers[me].addrs \ {p} = {}
  BY <1>1, WithoutProps
<1> HIDE DEF s
<1>4. /\ \A q \in Protocols : addr[q] # None => addr[q] \in DOMAIN servers
      /\ \A h \in DOMAIN servers : servers[h].addrs = {q \in Protocols : addr[q] = h}
      /\ \A h \in DOMAIN servers : servers[h].serial \in Int
      /\ \A h \in DOMAIN servers : h # None
      /\ addr \in [Protocols -> Gens \cup {None}]
  BY <1>1, Constants DEF TypeOK, TablesAgree, Entry
<1>5. \A q \in Protocols : addr'[q] = IF q = p THEN None ELSE addr[q]
  BY <1>2, <1>4
<1>6. TablesAgree'
  <2>1. ASSUME NEW q \in Protocols, addr'[q] # None  PROVE addr'[q] \in DOMAIN s
    <3>1. q # p /\ addr'[q] = addr[q] /\ addr[q] \in DOMAIN servers
      BY <1>4, <1>5, <2>1
    <3>2. CASE addr[q] # me
      BY <1>3, <3>1, <3>2
    <3>3. CASE addr[q] = me
      <4>1. q \in servers[me].addrs \ {p}
        BY <1>1, <1>4, <3>1, <3>3
      <4> QED BY <1>3, <3>1, <3>3, <4>1
    <3> QED BY <3>2, <3>3
  <2>2. ASSUME NEW h \in DOMAIN s
        PROVE  s[h].addrs = {q \in Protocols : addr'[q] = h} /\ s[h].addrs # {}
    <3>1. h \in DOMAIN servers /\ h # None
      BY <1>3, <1>4
    <3>2. s[h].addrs = {q \in Protocols : addr[q] = h} \ {p} /\ s[h].addrs # {}
      BY <1>3, <1>4, <3>1
    <3>3. \A q \in Protocols : addr'[q] = h <=> addr[q] = h /\ q # p
      BY <1>5, <3>1
    <3> QED BY <3>2, <3>3
  <2> QED BY <1>2, <2>1, <2>2 DEF TablesAgree
<1>7. \A h \in DOMAIN servers \cap DOMAIN servers' : servers'[h].serial >= servers[h].serial
  BY <1>2, <1>3, <1>4
<1>8. /\ addr' \in [Protocols -> Gens \cup {None}]
      /\ DOMAIN servers' \subseteq Gens /\ servers' \in [DOMAIN servers' -> Entry]
  BY <1>1, <1>2, <1>3, <1>4 DEF TypeOK
<1>9. /\ forgot' \in BOOLEAN
      /\ ~ forgot' => ~ forgot /\ (gen \in DOMAIN servers => gen \in DOMAIN servers')
  BY <1>2, Zenon
<1> QED BY <1>6, <1>7, <1>8, <1>9, Zenon DEF MasterStep

\* A registration the master accepts leaves its info there.
LEMMA RegistersStep ==
  ASSUME IInv, NEW p \in Protocols, NEW me \in Gens, NEW r, r.serial \in 0 .. MaxSerial,
         Registers(p, me, r), gen' = gen
  PROVE  /\ MasterStep
         /\ Answer(me, r) \in {"ok", "info", "challenge"}
         /\ Answer(me, r) = "ok" => me \in DOMAIN servers' /\ servers'[me].serial >= r.serial
<1>0. Answer(me, r) \in {"ok", "info", "challenge"}
  BY DEF Answer
<1>1. CASE ~ (Valid(r.token) /\ ~ NeedsInfo(me, r))
  <2>1. UNCHANGED master
    BY <1>1 DEF Registers
  <2>2. Answer(me, r) # "ok"
    BY <1>1 DEF Answer
  <2> QED BY <1>0, <2>1, <2>2, MasterSame
<1>2. CASE Valid(r.token) /\ ~ NeedsInfo(me, r)
  <2> DEFINE o == addr[p]
             v == Vacated(me, p)
             s == WithInfo(v, me, p, r.serial)
  <2>1. /\ addr' = [addr EXCEPT ![p] = me]
        /\ servers' = s
        /\ forgot' = (forgot \/ gen \in DOMAIN servers \ DOMAIN servers')
    BY <1>2 DEF Registers, Forgets
  <2>2. /\ servers \in [DOMAIN servers -> Entry]
        /\ \A q \in Protocols : addr[q] # None => addr[q] \in DOMAIN servers
        /\ \A h \in DOMAIN servers : /\ servers[h].addrs = {q \in Protocols : addr[q] = h}
                                     /\ servers[h].addrs # {}
        /\ \A h \in DOMAIN servers : servers[h] \in Entry
        /\ \A h \in DOMAIN servers : servers[h].serial \in Int
        /\ DOMAIN servers \subseteq Gens
        /\ addr \in [Protocols -> Gens \cup {None}]
        /\ r.serial \in Int /\ me # None
    BY Constants DEF IInv, MasterAgrees, TypeOK, TablesAgree, Entry
  <2>3. \A q \in Protocols : addr'[q] = IF q = p THEN me ELSE addr[q]
    BY <2>1, <2>2
  <2>4. /\ DOMAIN v \subseteq DOMAIN servers
        /\ v \in [DOMAIN v -> Entry]
        /\ \A h \in DOMAIN servers : h # o \/ h = me => h \in DOMAIN v /\ v[h] = servers[h]
        /\ \A h \in DOMAIN v : /\ v[h].serial = servers[h].serial
                               /\ h # me => v[h].addrs = servers[h].addrs \ {p}
                               /\ v[h].addrs # {}
        /\ \A h \in DOMAIN servers : h \notin DOMAIN v => servers[h].addrs \ {p} = {}
    <3>1. CASE o \notin {None, me}
      <4>1. o \in Gens /\ o # me
        BY <2>2, <3>1
      <4>2. v = Without(servers, o, p)
        BY <3>1 DEF Vacated
      <4>3. me \in DOMAIN v => v[me] = servers[me]
        BY <4>1, <4>2, WithoutProps
      <4> HIDE DEF v
      <4> QED BY <2>2, <4>1, <4>2, <4>3, WithoutProps
    <3>2. CASE o \in {None, me}
      <4>1. v = servers
        BY <3>2 DEF Vacated
      <4>2. \A h \in DOMAIN servers : h # me => servers[h].addrs = servers[h].addrs \ {p}
        BY <2>2, Constants, <3>2
      <4> HIDE DEF v
      <4> QED BY <2>2, <4>1, <4>2
    <3> QED BY <3>1, <3>2
  <2> HIDE DEF v
  <2>5. /\ DOMAIN s = DOMAIN v \cup {me}
        /\ \A h \in DOMAIN v : h # me => s[h] = v[h]
        /\ s[me] \in Entry
        /\ s[me].serial >= r.serial
        /\ me \in DOMAIN v => s[me].serial >= v[me].serial
        /\ s[me].addrs = IF me \in DOMAIN v THEN v[me].addrs \cup {p} ELSE {p}
        /\ s \in [DOMAIN s -> Entry]
    <3>1. CASE me \in DOMAIN v
      <4> DEFINE m == IF r.serial > v[me].serial THEN r.serial ELSE v[me].serial
      <4>1. s = [v EXCEPT ![me].addrs = v[me].addrs \cup {p}, ![me].serial = m]
        BY <3>1 DEF WithInfo
      <4>2. v[me] \in Entry
        BY <2>4, <3>1
      <4>3. v[me].serial \in 0 .. MaxSerial /\ v[me].addrs \in SUBSET Protocols
        BY <4>2 DEF Entry
      <4>4. m \in 0 .. MaxSerial /\ m >= r.serial /\ m >= v[me].serial
        BY <2>2, <4>3
      <4> HIDE DEF m
      <4>5. /\ DOMAIN s = DOMAIN v
            /\ \A h \in DOMAIN v : h # me => s[h] = v[h]
            /\ s[me] = [v[me] EXCEPT !.addrs = v[me].addrs \cup {p}, !.serial = m]
        BY <2>4, <3>1, <4>1
      <4>6. s[me] \in Entry /\ s[me].serial = m /\ s[me].addrs = v[me].addrs \cup {p}
        BY <4>2, <4>3, <4>4, <4>5 DEF Entry
      <4>7. s \in [DOMAIN s -> Entry]
        BY <2>4, <4>1, <4>5, <4>6
      <4> HIDE DEF s
      <4> QED BY <3>1, <4>4, <4>5, <4>6, <4>7
    <3>2. CASE me \notin DOMAIN v
      <4>1. s = [h \in DOMAIN v \cup {me} |->
                   IF h = me THEN [addrs |-> {p}, serial |-> r.serial] ELSE v[h]]
        BY <3>2 DEF WithInfo
      <4>2. [addrs |-> {p}, serial |-> r.serial] \in Entry
        BY DEF Entry
      <4>3. /\ DOMAIN s = DOMAIN v \cup {me}
            /\ \A h \in DOMAIN v : h # me => s[h] = v[h]
            /\ s[me] = [addrs |-> {p}, serial |-> r.serial]
        BY <3>2, <4>1
      <4>4. \A h \in DOMAIN s : s[h] \in Entry
        BY <2>4, <4>2, <4>3
      <4>5. s \in [DOMAIN s -> Entry]
        BY <4>1, <4>4
      <4> HIDE DEF s
      <4> QED BY <2>2, <3>2, <4>2, <4>3, <4>5
    <3> QED BY <3>1, <3>2
  <2> HIDE DEF s
  <2>6. TablesAgree'
    <3>1. ASSUME NEW q \in Protocols, addr'[q] # None  PROVE addr'[q] \in DOMAIN s
      <4>1. CASE q = p
        BY <2>3, <2>5, <4>1
      <4>2. CASE q # p
        <5>1. addr'[q] = addr[q] /\ addr[q] \in DOMAIN servers
          BY <2>2, <2>3, <3>1, <4>2
        <5>2. q \in servers[addr[q]].addrs \ {p}
          BY <2>2, <4>2, <5>1
        <5>3. addr[q] \in DOMAIN v
          BY <2>4, <5>1, <5>2
        <5> QED BY <2>5, <5>1, <5>3
      <4> QED BY <4>1, <4>2
    <3>2. ASSUME NEW h \in DOMAIN s
          PROVE  s[h].addrs = {q \in Protocols : addr'[q] = h} /\ s[h].addrs # {}
      <4>1. CASE h # me
        <5>1. h \in DOMAIN v /\ h \in DOMAIN servers /\ s[h] = v[h]
          BY <2>4, <2>5, <4>1
        <5>2. s[h].addrs = {q \in Protocols : addr[q] = h} \ {p} /\ s[h].addrs # {}
          BY <2>2, <2>4, <4>1, <5>1
        <5>3. \A q \in Protocols : addr'[q] = h <=> addr[q] = h /\ q # p
          BY <2>3, <4>1
        <5> QED BY <5>2, <5>3
      <4>2. CASE h = me
        <5>1. \A q \in Protocols : addr'[q] = me <=> addr[q] = me \/ q = p
          BY <2>3
        <5>2. CASE me \in DOMAIN v
          <6>1. me \in DOMAIN servers /\ v[me].addrs = {q \in Protocols : addr[q] = me}
            BY <2>2, <2>4, <5>2
          <6> QED BY <2>5, <4>2, <5>1, <5>2, <6>1
        <5>3. CASE me \notin DOMAIN v
          <6>1. me \notin DOMAIN servers
            BY <2>4, <5>3
          <6>2. \A q \in Protocols : addr[q] # me
            BY <2>2, <6>1
          <6> QED BY <2>5, <4>2, <5>1, <5>3, <6>2
        <5> QED BY <5>2, <5>3
      <4> QED BY <4>1, <4>2
    <3> QED BY <2>1, <3>1, <3>2 DEF TablesAgree
  <2>7. \A h \in DOMAIN servers \cap DOMAIN servers' : servers'[h].serial >= servers[h].serial
    <3> SUFFICES ASSUME NEW h \in DOMAIN servers, h \in DOMAIN s
                 PROVE  s[h].serial >= servers[h].serial
      BY <2>1
    <3>1. CASE h = me
      BY <2>2, <2>4, <2>5, <3>1
    <3>2. CASE h # me
      <4>1. s[h] = v[h] /\ v[h].serial = servers[h].serial
        BY <2>4, <2>5, <3>2
      <4> QED BY <2>2, <4>1
    <3> QED BY <3>1, <3>2
  <2>8. /\ addr' \in [Protocols -> Gens \cup {None}]
        /\ DOMAIN servers' \subseteq Gens /\ servers' \in [DOMAIN servers' -> Entry]
    BY <2>1, <2>2, <2>4, <2>5
  <2>9. /\ forgot' \in BOOLEAN
        /\ ~ forgot' => ~ forgot /\ (gen \in DOMAIN servers => gen \in DOMAIN servers')
    BY <2>1, Zenon
  <2>10. MasterStep
    BY <2>6, <2>7, <2>8, <2>9, Zenon DEF MasterStep
  <2> QED BY <1>0, <2>1, <2>5, <2>10
<1> QED BY <1>1, <1>2

-----------------------------------------------------------------------------
(* The game server.                                                         *)

\* Has(s) after the step, of an s from before it.
HasNext(s) == ~ forgot' => gen' \in DOMAIN servers' /\ servers'[gen'].serial >= s

\* What a step may do to the serials that the server knows of ...
KnownStep == known' \in -1 .. serial' /\ (known' <= known \/ HasNext(known'))

\* ... and to the requests under way.
Carried(p, r) ==
  /\ r.serial <= serial'
  /\ r.st \in {"ok", "wasOk"} =>
       \/ HasNext(r.serial)
       \/ \E j \in DOMAIN flight[p] : /\ flight[p][j].serial = r.serial
                                      /\ flight[p][j].st \in {"ok", "wasOk"}
JobsStep ==
  /\ flight' \in [Protocols -> Seq(Job)]
  /\ \A p \in Protocols : Len(flight'[p]) <= MaxFlight
  /\ \A p \in Protocols : \A k \in DOMAIN flight'[p] : Carried(p, flight'[p][k])

\* What the master has it keeps.
LEMMA HasKept ==
  ASSUME IInv, MasterStep, gen' = gen, NEW n \in Int, Has(n)
  PROVE  HasNext(n)
<1> SUFFICES ASSUME ~ forgot'
             PROVE  gen \in DOMAIN servers' /\ servers'[gen].serial >= n
  BY DEF HasNext
<1>1. ~ forgot /\ (gen \in DOMAIN servers => gen \in DOMAIN servers')
  BY DEF MasterStep
<1>2. gen \in DOMAIN servers /\ servers[gen].serial >= n
  BY <1>1 DEF Has
<1>3. servers[gen].serial \in Int
  BY <1>2 DEF IInv, MasterAgrees, TypeOK, Entry
<1>4. /\ gen \in DOMAIN servers' /\ servers'[gen].serial >= servers[gen].serial
      /\ servers'[gen].serial \in Int
  BY <1>1, <1>2 DEF MasterStep, Entry
<1> QED BY <1>2, <1>3, <1>4

\* The parts of a step that keep the invariant.
LEMMA StepInv ==
  ASSUME IInv, MasterStep, KnownStep, JobsStep, gen' = gen,
         serial' \in 0 .. MaxSerial,
         prot' \in [Protocols -> Protocol], stray' \in [Protocols -> SUBSET StrayRequest],
         dels' \in [Protocols -> SUBSET Gens], chal' \in [Protocols -> SUBSET Ages]
  PROVE  IInv'
<1>1. TypeOK'
  BY DEF IInv, MasterAgrees, TypeOK, MasterStep, KnownStep, JobsStep
<1>2. TablesAgree'
  BY DEF MasterStep
<1>3. SilentMeansStored'
  <2> SUFFICES ASSUME known' >= 0  PROVE HasNext(known')
    BY DEF SilentMeansStored, Has, HasNext
  <2>1. CASE HasNext(known')
    BY <2>1
  <2>2. CASE known' <= known
    <3>1. known \in Int /\ known' \in Int
      BY DEF IInv, MasterAgrees, TypeOK, KnownStep
    <3>2. Has(known)
      BY <2>2, <3>1 DEF IInv, MasterAgrees, SilentMeansStored
    <3>3. HasNext(known)
      BY <3>1, <3>2, HasKept
    <3>4. \A me \in DOMAIN servers' : servers'[me].serial \in Int
      BY DEF MasterStep, Entry
    <3> QED BY <2>2, <3>1, <3>3, <3>4 DEF HasNext
  <2> QED BY <2>1, <2>2 DEF KnownStep
<1>4. OkStored'
  <2> SUFFICES ASSUME NEW p \in Protocols, NEW k \in DOMAIN flight'[p]
               PROVE  /\ flight'[p][k].serial <= serial'
                      /\ flight'[p][k].st \in {"ok", "wasOk"} => HasNext(flight'[p][k].serial)
    BY DEF OkStored, Has, HasNext
  <2> DEFINE r == flight'[p][k]
  <2>1. Carried(p, r)
    BY DEF JobsStep
  <2> HIDE DEF r
  <2>2. ASSUME NEW j \in DOMAIN flight[p], flight[p][j].serial = r.serial,
               flight[p][j].st \in {"ok", "wasOk"}
        PROVE  HasNext(r.serial)
    <3>1. flight[p] \in Seq(Job)
      BY DEF IInv, MasterAgrees, TypeOK
    <3>2. flight[p][j].serial \in Int
      <4>1. flight[p][j] \in Job
        BY <3>1
      <4> QED BY <4>1 DEF Job
    <3>3. Has(flight[p][j].serial)
      BY <2>2 DEF IInv, OkStored
    <3>4. HasNext(flight[p][j].serial)
      BY <3>2, <3>3, HasKept
    <3> QED BY <2>2, <3>4
  <2> QED BY <2>1, <2>2 DEF Carried, r
<1> QED BY <1>1, <1>2, <1>3, <1>4 DEF IInv, MasterAgrees

\* Steps that leave the serials or the requests alone.
LEMMA KnownSame == IInv /\ UNCHANGED shared => KnownStep /\ serial' \in 0 .. MaxSerial
<1> SUFFICES ASSUME IInv, UNCHANGED shared
             PROVE  KnownStep /\ serial' \in 0 .. MaxSerial
  OBVIOUS
<1>1. serial' = serial /\ known' = known /\ serial \in 0 .. MaxSerial /\ known \in -1 .. serial
  BY DEF shared, IInv, MasterAgrees, TypeOK
<1> QED BY <1>1 DEF KnownStep

LEMMA JobTypes ==
  ASSUME IInv, NEW p \in Protocols
  PROVE  /\ flight \in [Protocols -> Seq(Job)] /\ flight[p] \in Seq(Job)
         /\ Len(flight[p]) \in Nat /\ Len(flight[p]) <= MaxFlight
         /\ DOMAIN flight[p] = 1 .. Len(flight[p])
         /\ \A k \in DOMAIN flight[p] :
              /\ flight[p][k] \in Job /\ flight[p][k].serial \in 0 .. MaxSerial
              /\ flight[p][k].serial \in Int
              /\ flight[p][k].serial <= serial
         /\ serial \in Int
<1>1. flight \in [Protocols -> Seq(Job)] /\ serial \in Int /\ Len(flight[p]) <= MaxFlight
  BY DEF IInv, MasterAgrees, TypeOK
<1>2. flight[p] \in Seq(Job)
  BY <1>1
<1>3. \A k \in DOMAIN flight[p] : flight[p][k] \in Job
  BY <1>2
<1>4. \A r \in Job : r.serial \in 0 .. MaxSerial /\ r.serial \in Int
  BY DEF Job
<1>5. \A k \in DOMAIN flight[p] : flight[p][k].serial <= serial
  BY DEF IInv, OkStored
<1>6. Len(flight[p]) \in Nat /\ DOMAIN flight[p] = 1 .. Len(flight[p])
  BY <1>2
<1> QED BY <1>1, <1>2, <1>3, <1>4, <1>5, <1>6

\* A request of before the step, or one that is no more accepted than it was.
LEMMA Carries ==
  ASSUME IInv, NEW p \in Protocols, NEW j \in DOMAIN flight[p], serial' = serial,
         NEW r, r.serial = flight[p][j].serial,
         r.st \in {"ok", "wasOk"} => flight[p][j].st \in {"ok", "wasOk"}
  PROVE  Carried(p, r)
BY JobTypes DEF Carried

LEMMA JobsSame == IInv /\ UNCHANGED <<serial, flight>> => JobsStep
<1> SUFFICES ASSUME IInv, UNCHANGED <<serial, flight>>  PROVE JobsStep
  OBVIOUS
<1>1. \A p \in Protocols : \A k \in DOMAIN flight'[p] : Carried(p, flight'[p][k])
  BY Carries
<1>2. flight' \in [Protocols -> Seq(Job)] /\ \A p \in Protocols : Len(flight'[p]) <= MaxFlight
  BY DEF IInv, MasterAgrees, TypeOK
<1> QED BY <1>1, <1>2 DEF JobsStep

\* SendRegister sends a request that nobody has answered.
LEMMA SendStep ==
  ASSUME IInv, NEW P \in SUBSET Protocols, NEW x \in [Protocols -> Protocol],
         NEW n \in 0 .. MaxSerial, n = serial', serial <= n, Send(P, x, n)
  PROVE  JobsStep /\ prot' \in [Protocols -> Protocol]
<1>1. prot' \in [Protocols -> Protocol]
  BY DEF Send, Protocol
<1>2. ASSUME NEW p \in Protocols
      PROVE  /\ flight'[p] \in Seq(Job) /\ Len(flight'[p]) <= MaxFlight
             /\ \A k \in DOMAIN flight'[p] : Carried(p, flight'[p][k])
  <2>0. serial \in Int /\ n \in Int /\ MaxFlight \in Nat
    BY JobTypes, Constants
  <2>1. CASE p \in P
    <3> DEFINE old == [k \in DOMAIN flight[p] |-> [flight[p][k] EXCEPT !.newest = FALSE]]
               new == Request(n, x[p].token)
    <3>1. flight'[p] = Append(old, new) /\ Len(flight[p]) < MaxFlight
      BY <2>1 DEF Send, HasRoom
    <3>2. /\ DOMAIN flight[p] = 1 .. Len(flight[p]) /\ Len(flight[p]) \in Nat
          /\ \A k \in DOMAIN flight[p] : flight[p][k] \in Job
      BY JobTypes
    <3>3. old \in Seq(Job) /\ Len(old) = Len(flight[p]) /\ DOMAIN old = DOMAIN flight[p]
      <4>1. \A r \in Job : [r EXCEPT !.newest = FALSE] \in Job
        BY DEF Job
      <4>2. \A k \in 1 .. Len(flight[p]) : [flight[p][k] EXCEPT !.newest = FALSE] \in Job
        BY <3>2, <4>1
      <4>3. old = [k \in 1 .. Len(flight[p]) |-> [flight[p][k] EXCEPT !.newest = FALSE]]
        BY <3>2
      <4>4. \A k \in 1 .. Len(flight[p]) : old[k] \in Job
        BY <4>2, <4>3
      <4>5. old \in [1 .. Len(flight[p]) -> Job]
        BY <4>3, <4>4
      <4> HIDE DEF old
      <4>6. old \in Seq(Job)
        BY <3>2, <4>5
      <4> QED BY <3>2, <4>5, <4>6
    <3>4. new \in Job /\ new.serial = n /\ new.st = "sent"
      BY DEF Request, Job, Protocol
    <3>5. \A k \in DOMAIN old : Carried(p, old[k])
      <4> SUFFICES ASSUME NEW k \in DOMAIN old  PROVE Carried(p, old[k])
        OBVIOUS
      <4>1. /\ flight[p][k] \in Job /\ k \in DOMAIN flight[p]
            /\ flight[p][k].serial <= serial /\ flight[p][k].serial \in Int
        BY <3>3, JobTypes
      <4>2. old[k].serial = flight[p][k].serial /\ old[k].st = flight[p][k].st
        BY <4>1 DEF Job
      <4> HIDE DEF old
      <4> QED BY <2>0, <4>1, <4>2 DEF Carried
    <3>6. Carried(p, new)
      BY <2>0, <3>4 DEF Carried
    <3> HIDE DEF old, new
    <3>7. /\ flight'[p] \in Seq(Job) /\ Len(flight'[p]) = Len(flight[p]) + 1
          /\ \A k \in DOMAIN flight'[p] : flight'[p][k] = new
                                           \/ (k \in DOMAIN old /\ flight'[p][k] = old[k])
      BY <3>1, <3>3, <3>4
    <3> QED BY <2>0, <3>1, <3>5, <3>6, <3>7, JobTypes
  <2>2. CASE p \notin P
    <3>1. flight'[p] = flight[p]
      BY <2>2 DEF Send
    <3>2. \A k \in DOMAIN flight[p] : Carried(p, flight[p][k])
      BY <2>0, JobTypes DEF Carried
    <3> QED BY <3>1, <3>2, JobTypes
  <2> QED BY <2>1, <2>2
<1>3. flight' \in [Protocols -> Seq(Job)]
  <2>1. flight' = [p \in Protocols |-> flight'[p]]
    BY DEF Send
  <2> QED BY <1>2, <2>1
<1> QED BY <1>1, <1>2, <1>3 DEF JobsStep

\* One request of protocol p becomes q, the others stay.
LEMMA OneChanges ==
  ASSUME IInv, serial' = serial, NEW p \in Protocols, NEW q \in Seq(Job),
         Len(q) <= MaxFlight, \A k \in DOMAIN q : Carried(p, q[k]),
         flight' = [flight EXCEPT ![p] = q]
  PROVE  JobsStep
<1>1. flight \in [Protocols -> Seq(Job)]
  BY JobTypes
<1>2. \A o \in Protocols : flight'[o] = IF o = p THEN q ELSE flight[o]
  BY <1>1
<1>3. flight' \in [Protocols -> Seq(Job)]
  BY <1>1
<1>4. \A o \in Protocols : o # p => \A k \in DOMAIN flight[o] : Carried(o, flight[o][k])
  BY Carries
<1> QED BY <1>2, <1>3, <1>4, JobTypes DEF JobsStep

\* A job ends.
LEMMA JobTaken ==
  ASSUME IInv, serial' = serial, NEW p \in Protocols, NEW q \in Seq(Job),
         Len(q) <= MaxFlight, \A i \in DOMAIN q : Carried(p, q[i]), NEW k \in DOMAIN q,
         flight' = [flight EXCEPT ![p] = RemoveAt(q, k)]
  PROVE  JobsStep
<1>1. /\ RemoveAt(q, k) \in Seq(Job) /\ Len(RemoveAt(q, k)) = Len(q) - 1
      /\ \A i \in DOMAIN RemoveAt(q, k) : \E j \in DOMAIN q : RemoveAt(q, k)[i] = q[j]
  BY RemoveAtProps
<1>2. Len(q) \in Nat /\ MaxFlight \in Nat
  BY Constants
<1>3. PICK t : t = RemoveAt(q, k)
  OBVIOUS
<1>4. /\ t \in Seq(Job) /\ Len(t) <= MaxFlight
      /\ \A i \in DOMAIN t : Carried(p, t[i])
  BY <1>1, <1>2, <1>3
<1> QED BY <1>3, <1>4, OneChanges

-----------------------------------------------------------------------------
(* The steps of Next.                                                       *)

LEMMA Types ==
  ASSUME IInv
  PROVE  /\ prot \in [Protocols -> Protocol] /\ stray \in [Protocols -> SUBSET StrayRequest]
         /\ dels \in [Protocols -> SUBSET Gens] /\ chal \in [Protocols -> SUBSET Ages]
         /\ gen \in Gens /\ serial \in 0 .. MaxSerial
         /\ addr \in [Protocols -> Gens \cup {None}]
BY DEF IInv, MasterAgrees, TypeOK

LEMMA CheckedType == \A x \in Protocol : Checked(x) \in Protocol
<1> SUFFICES ASSUME NEW x \in Protocol  PROVE Checked(x) \in Protocol
  OBVIOUS
<1> DEFINE d == x.due \/ (x.answered /\ ((x.status = "challenge" /\ x.newToken) \/ x.status = "info"))
<1>1. d \in BOOLEAN
  OBVIOUS
<1>2. Checked(x) = [x EXCEPT !.due = d]
  BY DEF Checked
<1> HIDE DEF d
<1> QED BY <1>1, <1>2 DEF Protocol

LEMMA UpdateInv ==
  ASSUME IInv, NEW p \in Protocols, Update(p)
  PROVE  IInv'
<1>1. PICK x : /\ x = [prot EXCEPT ![p] = Checked(@)]
               /\ Send({p}, x, serial)
  BY DEF Update
<1>2. UNCHANGED <<gen, shared, stray, dels, chal, master>>
  BY DEF Update
<1>3. x \in [Protocols -> Protocol]
  BY <1>1, Types, CheckedType
<1>4. serial' = serial /\ serial \in 0 .. MaxSerial /\ serial <= serial
  BY <1>2, Types DEF shared
<1>5. JobsStep /\ prot' \in [Protocols -> Protocol]
  BY <1>1, <1>3, <1>4, SendStep
<1> QED BY <1>2, <1>5, Types, MasterSame, KnownSame, StepInv

LEMMA OnTokenInv ==
  ASSUME IInv, NEW p \in Protocols, OnToken(p)
  PROVE  IInv'
<1>1. PICK t \in chal[p] :
        LET x == [prot EXCEPT ![p] = Checked([@ EXCEPT !.newToken = TRUE, !.token = t])]
        IN /\ chal' = [chal EXCEPT ![p] = @ \ {t}]
           /\ IF x[p].due THEN Send({p}, x, serial) ELSE prot' = x /\ UNCHANGED flight
           /\ UNCHANGED <<gen, shared, stray, dels, master, faults, changes>>
  BY DEF OnToken
<1>2. PICK x : /\ x = [prot EXCEPT ![p] = Checked([@ EXCEPT !.newToken = TRUE, !.token = t])]
               /\ IF x[p].due THEN Send({p}, x, serial) ELSE prot' = x /\ UNCHANGED flight
  BY <1>1
<1>3. /\ chal' = [chal EXCEPT ![p] = @ \ {t}]
      /\ UNCHANGED <<gen, shared, stray, dels, master>>
  BY <1>1
<1>4. x \in [Protocols -> Protocol]
  <2>1. t \in Ages
    BY Types
  <2>2. [prot[p] EXCEPT !.newToken = TRUE, !.token = t] \in Protocol
    <3>1. prot[p] \in Protocol
      BY Types
    <3> QED BY <2>1, <3>1 DEF Protocol
  <2> QED BY <1>2, <2>2, Types, CheckedType
<1>5. serial' = serial /\ serial \in 0 .. MaxSerial /\ serial <= serial
  BY <1>3, Types DEF shared
<1>6. JobsStep /\ prot' \in [Protocols -> Protocol]
  <2>1. CASE x[p].due
    BY <1>2, <1>4, <1>5, <2>1, SendStep
  <2>2. CASE ~ x[p].due
    BY <1>2, <1>4, <1>5, <2>2, JobsSame
  <2> QED BY <2>1, <2>2
<1>7. chal' \in [Protocols -> SUBSET Ages]
  BY <1>3, Types
<1> QED BY <1>3, <1>6, <1>7, Types, MasterSame, KnownSame, StepInv

LEMMA OnNewInfoInv ==
  ASSUME IInv, OnNewInfo
  PROVE  IInv'
<1>1. /\ serial < MaxSerial /\ serial' = serial + 1
      /\ UNCHANGED <<gen, known, stray, dels, chal, master>>
  BY DEF OnNewInfo
<1>2. PICK P \in SUBSET Protocols : Send(P, prot, serial')
  BY DEF OnNewInfo
<1>3. serial' \in 0 .. MaxSerial /\ serial <= serial'
  BY <1>1, Types, Constants
<1>4. JobsStep /\ prot' \in [Protocols -> Protocol]
  <2>1. PICK n : n = serial'
    OBVIOUS
  <2>2. n \in 0 .. MaxSerial /\ serial <= n /\ Send(P, prot, n)
    BY <1>2, <1>3, <2>1
  <2> QED BY <2>1, <2>2, Types, SendStep
<1>5. KnownStep
  <2>1. known \in -1 .. serial /\ serial \in Int /\ known' = known
    BY <1>1 DEF IInv, MasterAgrees, TypeOK
  <2> QED BY <1>1, <2>1 DEF KnownStep
<1> QED BY <1>1, <1>3, <1>4, <1>5, Types, MasterSame, StepInv

LEMMA EnableInv ==
  ASSUME IInv, NEW p \in Protocols, Enable(p)
  PROVE  IInv'
<1>1. PICK x : x = [prot EXCEPT ![p].on = TRUE] /\ Send({p}, x, serial)
  BY DEF Enable
<1>2. UNCHANGED <<gen, shared, stray, dels, chal, master>>
  BY DEF Enable
<1>3. x \in [Protocols -> Protocol]
  <2>1. prot[p] \in Protocol
    BY Types
  <2>2. [prot[p] EXCEPT !.on = TRUE] \in Protocol
    BY <2>1 DEF Protocol
  <2> QED BY <1>1, <2>2, Types
<1>4. serial' = serial /\ serial \in 0 .. MaxSerial /\ serial <= serial
  BY <1>2, Types DEF shared
<1>5. JobsStep /\ prot' \in [Protocols -> Protocol]
  BY <1>1, <1>3, <1>4, SendStep
<1> QED BY <1>2, <1>5, Types, MasterSame, KnownSame, StepInv

\* The steps of the server's thread that send no request.
LEMMA QuietInv ==
  ASSUME IInv, NEW p \in Protocols,
         Elapse(p) \/ Disable(p) \/ LoseChallenge(p) \/ LoseStray(p)
  PROVE  IInv'
<1>1. UNCHANGED <<gen, shared, flight, master>>
  BY DEF Elapse, Disable, LoseChallenge, LoseStray
<1>2. serial' = serial /\ flight' = flight
  BY <1>1 DEF shared
<1>3. JobsStep /\ MasterStep /\ KnownStep /\ serial' \in 0 .. MaxSerial
  BY <1>1, <1>2, JobsSame, MasterSame, KnownSame
<1>4. prot' \in [Protocols -> Protocol]
  <2>1. CASE Elapse(p)
    <3>1. prot' = [prot EXCEPT ![p].due = TRUE]
      BY <2>1 DEF Elapse
    <3>2. prot[p] \in Protocol
      BY Types
    <3>3. [prot[p] EXCEPT !.due = TRUE] \in Protocol
      BY <3>2 DEF Protocol
    <3> QED BY <3>1, <3>3, Types
  <2>2. CASE Disable(p)
    <3>1. prot' = [prot EXCEPT ![p].on = FALSE, ![p].status = "none"]
      BY <2>2 DEF Disable
    <3>2. prot[p] \in Protocol
      BY Types
    <3>3. [prot[p] EXCEPT !.on = FALSE, !.status = "none"] \in Protocol
      BY <3>2 DEF Protocol
    <3>4. prot' = [prot EXCEPT ![p] = [prot[p] EXCEPT !.on = FALSE, !.status = "none"]]
      BY <3>1, Types
    <3> QED BY <3>3, <3>4, Types
  <2>3. CASE LoseChallenge(p) \/ LoseStray(p)
    BY <2>3, Types DEF LoseChallenge, LoseStray
  <2> QED BY <2>1, <2>2, <2>3
<1>5. /\ stray' \in [Protocols -> SUBSET StrayRequest]
      /\ dels' \in [Protocols -> SUBSET Gens] /\ chal' \in [Protocols -> SUBSET Ages]
  BY Types DEF Elapse, Disable, LoseChallenge, LoseStray
<1> QED BY <1>1, <1>3, <1>4, <1>5, StepInv

\* The steps of the master that answer no request of the running process.
LEMMA MasterInv ==
  ASSUME IInv, NEW p \in Protocols,
         OnStrayRegister(p) \/ OnDelete(p) \/ PruneLeft(p) \/ PruneLate(p)
  PROVE  MasterStep /\ IInv'
<1>1. UNCHANGED <<gen, shared, prot, flight, chal>>
  BY DEF OnStrayRegister, OnDelete, PruneLeft, PruneLate
<1>2. serial' = serial /\ flight' = flight /\ gen' = gen
  BY <1>1 DEF shared
<1>3. JobsStep /\ KnownStep /\ serial' \in 0 .. MaxSerial
  BY <1>1, <1>2, JobsSame, KnownSame
<1>4. /\ stray' \in [Protocols -> SUBSET StrayRequest] /\ dels' \in [Protocols -> SUBSET Gens]
  BY Types DEF OnStrayRegister, OnDelete, PruneLeft, PruneLate
<1>5. MasterStep
  <2>1. CASE OnStrayRegister(p)
    <3>1. PICK r \in stray[p] : Registers(p, r.gen, r)
      BY <2>1 DEF OnStrayRegister
    <3>2. r \in StrayRequest
      BY Types
    <3>3. PICK me : me = r.gen
      OBVIOUS
    <3>4. me \in Gens /\ r.serial \in 0 .. MaxSerial /\ Registers(p, me, r)
      BY <3>1, <3>2, <3>3 DEF StrayRequest
    <3> QED BY <1>2, <3>4, RegistersStep
  <2>2. CASE OnDelete(p)
    <3>1. PICK me \in dels[p] : IF addr[p] = me THEN Removes(p) ELSE UNCHANGED master
      BY <2>2 DEF OnDelete
    <3>2. me \in Gens /\ me # None
      BY Types, Constants
    <3> QED BY <1>2, <3>1, <3>2, RemovesStep, MasterSame
  <2>3. CASE PruneLeft(p) \/ PruneLate(p)
    <3>1. addr[p] # None /\ Removes(p)
      BY <2>3 DEF PruneLeft, PruneLate
    <3> QED BY <1>2, <3>1, RemovesStep
  <2> QED BY <2>1, <2>2, <2>3
<1> QED BY <1>1, <1>3, <1>4, <1>5, Types, StepInv

LEMMA OnRegisterInv ==
  ASSUME IInv, NEW p \in Protocols, NEW k \in DOMAIN flight[p], OnRegister(p, k)
  PROVE  MasterStep /\ IInv'
<1>1. PICK r : r = flight[p][k]
  OBVIOUS
<1>2. PICK a : a = Answer(gen, r)
  OBVIOUS
<1>3. /\ Registers(p, gen, r) /\ Challenges(p, r)
      /\ flight' = [flight EXCEPT ![p][k].st = a]
      /\ UNCHANGED <<gen, shared, prot, stray, dels>>
  BY <1>1, <1>2 DEF OnRegister
<1>4. gen' = gen /\ serial' = serial /\ KnownStep /\ serial' \in 0 .. MaxSerial
  BY <1>3, KnownSame DEF shared
<1>5. /\ r \in Job /\ r.serial \in 0 .. MaxSerial /\ r.serial <= serial
      /\ flight \in [Protocols -> Seq(Job)] /\ flight[p] \in Seq(Job)
      /\ Len(flight[p]) <= MaxFlight
  BY <1>1, JobTypes
<1>6. /\ MasterStep /\ a \in {"ok", "info", "challenge"}
      /\ a = "ok" => HasNext(r.serial)
  BY <1>2, <1>3, <1>4, <1>5, Types, RegistersStep DEF HasNext
<1>7. chal' \in [Protocols -> SUBSET Ages]
  BY <1>3, Types DEF Challenges, Ages
<1>8. JobsStep
  <2>1. PICK e : e = [r EXCEPT !.st = a]
    OBVIOUS
  <2>2. e \in Job /\ e.serial = r.serial /\ e.st = a
    BY <1>5, <1>6, <2>1 DEF Job
  <2>3. PICK q : q = [flight[p] EXCEPT ![k] = e]
    OBVIOUS
  <2>4. /\ q \in Seq(Job) /\ Len(q) = Len(flight[p]) /\ DOMAIN q = DOMAIN flight[p]
        /\ q[k] = e /\ \A i \in DOMAIN flight[p] : i # k => q[i] = flight[p][i]
    BY <1>5, <2>2, <2>3
  <2>5. flight' = [flight EXCEPT ![p] = q]
    BY <1>1, <1>3, <1>5, <2>1, <2>3
  <2>6. Carried(p, e)
    BY <1>4, <1>5, <1>6, <2>2 DEF Carried
  <2>7. \A i \in DOMAIN q : Carried(p, q[i])
    <3>1. \A i \in DOMAIN flight[p] : Carried(p, flight[p][i])
      BY <1>4, Carries
    <3> QED BY <2>4, <2>6, <3>1
  <2> QED BY <1>4, <1>5, <2>4, <2>5, <2>7, OneChanges
<1> QED BY <1>3, <1>4, <1>6, <1>7, <1>8, Types, StepInv

LEMMA FailInv ==
  ASSUME IInv, NEW p \in Protocols, NEW k \in DOMAIN flight[p], Fail(p, k)
  PROVE  IInv'
<1>1. /\ flight' = [flight EXCEPT ![p] = RemoveAt(@, k)]
      /\ UNCHANGED <<gen, shared, prot, stray, dels, chal, master>>
  BY DEF Fail
<1>2. serial' = serial
  BY <1>1 DEF shared
<1>3. PICK q : q = flight[p]
  OBVIOUS
<1>4. /\ q \in Seq(Job) /\ Len(q) <= MaxFlight /\ \A i \in DOMAIN q : Carried(p, q[i])
      /\ flight' = [flight EXCEPT ![p] = RemoveAt(q, k)]
  BY <1>1, <1>2, <1>3, JobTypes, Carries
<1>5. JobsStep
  BY <1>2, <1>3, <1>4, JobTaken
<1> QED BY <1>1, <1>5, Types, MasterSame, KnownSame, StepInv

\* A job that has told the protocol its answer, and then the server as a whole.
LEMMA ApplyStatusInv ==
  ASSUME IInv, NEW p \in Protocols, NEW k \in DOMAIN flight[p], ApplyStatus(p, k)
  PROVE  IInv'
<1>1. PICK r : r = flight[p][k]
  OBVIOUS
<1>2. PICK aged : aged = [i \in DOMAIN flight[p] |->
                            IF i < k /\ TakesAnswer(flight[p], k)
                              THEN [flight[p][i] EXCEPT !.stale = TRUE] ELSE flight[p][i]]
  OBVIOUS
<1>3. /\ r.st \in {"ok", "info", "challenge"}
      /\ prot' = [prot EXCEPT ![p] =
           IF TakesAnswer(flight[p], k)
             THEN [@ EXCEPT !.status = r.st, !.answered = r.newest] ELSE @]
      /\ flight' = [flight EXCEPT ![p] =
           CASE r.st = "challenge" -> RemoveAt(aged, k)
             [] r.st = "ok" -> [aged EXCEPT ![k].st = "wasOk"]
             [] r.st = "info" -> [aged EXCEPT ![k].st = "wasInfo"]]
      /\ UNCHANGED <<gen, shared, stray, dels, chal, master>>
  BY <1>1, <1>2 DEF ApplyStatus
<1>4. serial' = serial
  BY <1>3 DEF shared
<1>5. /\ flight[p] \in Seq(Job) /\ DOMAIN flight[p] = 1 .. Len(flight[p])
      /\ Len(flight[p]) \in Nat /\ Len(flight[p]) <= MaxFlight
      /\ \A i \in DOMAIN flight[p] : flight[p][i] \in Job
  BY JobTypes
<1>6. /\ aged \in Seq(Job) /\ Len(aged) = Len(flight[p]) /\ DOMAIN aged = DOMAIN flight[p]
      /\ \A i \in DOMAIN aged : /\ aged[i].serial = flight[p][i].serial
                                /\ aged[i].st = flight[p][i].st
  <2>1. \A j \in Job : LET s == [j EXCEPT !.stale = TRUE]
                       IN s \in Job /\ s.serial = j.serial /\ s.st = j.st
    BY DEF Job
  <2>2. \A i \in 1 .. Len(flight[p]) : /\ aged[i] \in Job
                                       /\ aged[i].serial = flight[p][i].serial
                                       /\ aged[i].st = flight[p][i].st
    BY <1>2, <1>5, <2>1
  <2>3. aged \in [1 .. Len(flight[p]) -> Job]
    BY <1>2, <1>5, <2>2
  <2>4. aged \in Seq(Job)
    BY <1>5, <2>3
  <2> QED BY <1>5, <2>2, <2>3, <2>4
<1>7. \A i \in DOMAIN aged : Carried(p, aged[i])
  BY <1>4, <1>6, Carries
<1>8. JobsStep
  <2>1. CASE r.st = "challenge"
    <3>1. flight' = [flight EXCEPT ![p] = RemoveAt(aged, k)]
      BY <1>3, <2>1
    <3> QED BY <1>4, <1>5, <1>6, <1>7, <3>1, JobTaken
  <2>2. CASE r.st # "challenge"
    <3>1. PICK v \in {"wasOk", "wasInfo"} :
            /\ flight' = [flight EXCEPT ![p] = [aged EXCEPT ![k].st = v]]
            /\ v = "wasOk" => r.st = "ok"
      BY <1>3, <2>2
    <3>2. PICK e : e = [aged[k] EXCEPT !.st = v]
      OBVIOUS
    <3>3. aged[k] \in Job
      BY <1>6
    <3>4. e \in Job /\ e.serial = aged[k].serial /\ e.st = v
      BY <3>2, <3>3 DEF Job
    <3>5. PICK q : q = [aged EXCEPT ![k] = e]
      OBVIOUS
    <3>6. /\ q \in Seq(Job) /\ Len(q) = Len(aged) /\ DOMAIN q = DOMAIN aged
          /\ q[k] = e /\ \A i \in DOMAIN aged : i # k => q[i] = aged[i]
      BY <1>6, <3>4, <3>5
    <3>7. flight' = [flight EXCEPT ![p] = q]
      BY <3>1, <3>2, <3>5
    <3>8. Carried(p, e)
      BY <1>1, <1>4, <1>6, <3>1, <3>4, Carries
    <3>9. \A i \in DOMAIN q : Carried(p, q[i])
      BY <1>7, <3>6, <3>8
    <3> QED BY <1>4, <1>5, <1>6, <3>6, <3>7, <3>9, OneChanges
  <2> QED BY <2>1, <2>2
<1>9. prot' \in [Protocols -> Protocol]
  <2>1. r \in Job
    BY <1>1, <1>5
  <2>2. r.newest \in BOOLEAN
    BY <2>1 DEF Job
  <2>3. [prot[p] EXCEPT !.status = r.st, !.answered = r.newest] \in Protocol
    <3>1. prot[p] \in Protocol
      BY Types
    <3>2. r.st \in {"none", "ok", "info", "challenge"}
      BY <1>3
    <3> QED BY <2>2, <3>1, <3>2 DEF Protocol
  <2> QED BY <1>3, <2>3, Types
<1> QED BY <1>3, <1>8, <1>9, Types, MasterSame, KnownSame, StepInv

LEMMA ApplySerialInv ==
  ASSUME IInv, NEW p \in Protocols, NEW k \in DOMAIN flight[p], ApplySerial(p, k)
  PROVE  IInv'
<1>1. PICK r : r = flight[p][k]
  OBVIOUS
<1>2. /\ r.st \in {"wasOk", "wasInfo"} /\ known' = KnownAfter(r)
      /\ flight' = [flight EXCEPT ![p] = RemoveAt(@, k)]
      /\ UNCHANGED <<gen, serial, prot, stray, dels, chal, master>>
  BY <1>1 DEF ApplySerial
<1>3. r.serial \in 0 .. MaxSerial /\ r.serial <= serial
  BY <1>1, JobTypes
<1>4. known \in -1 .. serial /\ serial \in 0 .. MaxSerial
  BY DEF IInv, MasterAgrees, TypeOK
<1>5. MasterStep
  BY <1>2, MasterSame
<1>6. r.st = "wasOk" => HasNext(r.serial)
  <2>1. r.st = "wasOk" => Has(r.serial)
    BY <1>1 DEF IInv, OkStored
  <2>2. PICK n : n = r.serial
    OBVIOUS
  <2>3. n \in Int /\ (Has(n) => HasNext(n))
    BY <1>2, <1>3, <1>5, <2>2, HasKept
  <2> QED BY <2>1, <2>2, <2>3
<1>7. KnownStep
  <2>1. CASE r.st = "wasOk"
    <3>1. known' = IF r.serial > known THEN r.serial ELSE known
      BY <1>2, <2>1 DEF KnownAfter
    <3> QED BY <1>2, <1>3, <1>4, <1>6, <2>1, <3>1 DEF KnownStep
  <2>2. CASE r.st = "wasInfo"
    <3>1. known' = IF r.serial = known THEN known - 1 ELSE known
      BY <1>2, <2>2 DEF KnownAfter
    <3>2. known' \in -1 .. serial' /\ known' <= known
      BY <1>2, <1>3, <1>4, <3>1
    <3> QED BY <3>2 DEF KnownStep
  <2> QED BY <1>2, <2>1, <2>2
<1>8. JobsStep
  <2>1. PICK q : q = flight[p]
    OBVIOUS
  <2>2. /\ q \in Seq(Job) /\ Len(q) <= MaxFlight /\ \A i \in DOMAIN q : Carried(p, q[i])
        /\ flight' = [flight EXCEPT ![p] = RemoveAt(q, k)]
    BY <1>2, <2>1, JobTypes, Carries
  <2> QED BY <1>2, <2>1, <2>2, JobTaken
<1> QED BY <1>2, <1>4, <1>5, <1>7, <1>8, Types, StepInv

\* The master forgets a seed: every token is one older.
LEMMA ReseedInv ==
  ASSUME IInv, Reseed
  PROVE  IInv'
<1>1. /\ prot' = [p \in Protocols |-> [prot[p] EXCEPT !.token = Older(@)]]
      /\ flight' = [p \in Protocols |-> [k \in DOMAIN flight[p] |->
           [flight[p][k] EXCEPT !.token = Older(@)]]]
      /\ stray' = [p \in Protocols |-> {[r EXCEPT !.token = Older(@)] : r \in stray[p]}]
      /\ chal' = [p \in Protocols |-> {Older(t) : t \in chal[p]}]
      /\ UNCHANGED <<gen, shared, dels, master>>
  BY DEF Reseed
<1>2. \A t \in Ages : Older(t) \in Ages
  BY DEF Ages, Older
<1>3. prot' \in [Protocols -> Protocol]
  <2>1. \A x \in Protocol : [x EXCEPT !.token = Older(@)] \in Protocol
    BY <1>2 DEF Protocol
  <2> QED BY <1>1, <2>1, Types
<1>4. stray' \in [Protocols -> SUBSET StrayRequest]
  <2>1. \A r \in StrayRequest : [r EXCEPT !.token = Older(@)] \in StrayRequest
    BY <1>2 DEF StrayRequest
  <2> QED BY <1>1, <2>1, Types
<1>5. chal' \in [Protocols -> SUBSET Ages]
  BY <1>1, <1>2, Types
<1>6. JobsStep
  <2>1. serial' = serial
    BY <1>1 DEF shared
  <2>2. ASSUME NEW p \in Protocols
        PROVE  /\ flight'[p] \in Seq(Job) /\ Len(flight'[p]) <= MaxFlight
               /\ \A k \in DOMAIN flight'[p] : Carried(p, flight'[p][k])
    <3>1. /\ DOMAIN flight[p] = 1 .. Len(flight[p])
          /\ Len(flight[p]) \in Nat /\ Len(flight[p]) <= MaxFlight
          /\ \A i \in DOMAIN flight[p] : flight[p][i] \in Job
      BY JobTypes
    <3>2. \A j \in Job : LET s == [j EXCEPT !.token = Older(@)]
                         IN s \in Job /\ s.serial = j.serial /\ s.st = j.st
      BY <1>2 DEF Job
    <3>3. PICK s : s = flight'[p]
      OBVIOUS
    <3>4. s = [k \in 1 .. Len(flight[p]) |-> [flight[p][k] EXCEPT !.token = Older(@)]]
      BY <1>1, <3>1, <3>3
    <3>5. \A k \in 1 .. Len(flight[p]) : /\ s[k] \in Job
                                         /\ s[k].serial = flight[p][k].serial
                                         /\ s[k].st = flight[p][k].st
      BY <3>1, <3>2, <3>4
    <3>6. s \in [1 .. Len(flight[p]) -> Job]
      BY <3>4, <3>5
    <3>7. s \in Seq(Job) /\ Len(s) = Len(flight[p])
      BY <3>1, <3>6
    <3>8. \A k \in DOMAIN s : Carried(p, s[k])
      BY <2>1, <3>1, <3>5, <3>6, Carries
    <3> QED BY <3>1, <3>3, <3>7, <3>8
  <2>3. flight' \in [Protocols -> Seq(Job)]
    <3>1. flight' = [p \in Protocols |-> flight'[p]]
      BY <1>1
    <3> QED BY <2>2, <3>1
  <2> QED BY <2>2, <2>3 DEF JobsStep
<1> QED BY <1>1, <1>3, <1>4, <1>5, <1>6, Types, MasterSame, KnownSame, StepInv

\* A process that starts knows nothing, and has nothing under way.
LEMMA RestartInv ==
  ASSUME IInv, NEW b \in BOOLEAN, Restart(b)
  PROVE  IInv'
<1>1. /\ gen < MaxGen /\ gen' = gen + 1 /\ serial' = 0 /\ known' = -1
      /\ prot' = [p \in Protocols |-> Fresh(prot[p].on)]
      /\ flight' = [p \in Protocols |-> <<>>]
      /\ chal' = [p \in Protocols |-> {}]
      /\ forgot' = FALSE /\ addr' = addr /\ servers' = servers
  BY DEF Restart
<1>2. gen' \in Gens /\ serial' \in 0 .. MaxSerial /\ known' \in -1 .. serial'
  BY <1>1, Types, Constants DEF Gens
<1>3. prot' \in [Protocols -> Protocol]
  <2>1. ASSUME NEW p \in Protocols  PROVE Fresh(prot[p].on) \in Protocol
    <3>1. prot[p].on \in BOOLEAN
      <4>1. prot[p] \in Protocol
        BY Types
      <4> QED BY <4>1 DEF Protocol
    <3> QED BY <3>1 DEF Fresh, Protocol, Ages
  <2> QED BY <1>1, <2>1
<1>4. flight' \in [Protocols -> Seq(Job)] /\ \A p \in Protocols : Len(flight'[p]) <= MaxFlight
  <2>1. << >> \in Seq(Job) /\ Len(<< >>) <= MaxFlight
    BY Constants
  <2> QED BY <1>1, <2>1
<1>5. stray' \in [Protocols -> SUBSET StrayRequest]
  <2>1. ASSUME NEW p \in Protocols, NEW k \in DOMAIN flight[p]
        PROVE  [gen |-> gen, serial |-> flight[p][k].serial, info |-> flight[p][k].info,
                token |-> flight[p][k].token] \in StrayRequest
    <3>1. flight[p][k] \in Job
      BY JobTypes
    <3>2. /\ flight[p][k].serial \in 0 .. MaxSerial /\ flight[p][k].info \in BOOLEAN
          /\ flight[p][k].token \in Ages
      BY <3>1 DEF Job
    <3> QED BY <3>2, Types DEF StrayRequest
  <2>2. stray' = [p \in Protocols |-> stray[p] \cup
          {[gen |-> gen, serial |-> flight[p][k].serial,
            info |-> flight[p][k].info, token |-> flight[p][k].token] :
               k \in {i \in DOMAIN flight[p] : flight[p][i].st = "sent"}}]
    BY DEF Restart
  <2>3. ASSUME NEW p \in Protocols  PROVE stray'[p] \subseteq StrayRequest
    BY <2>1, <2>2, Types
  <2> QED BY <2>2, <2>3
<1>6. dels' \in [Protocols -> SUBSET Gens] /\ chal' \in [Protocols -> SUBSET Ages]
  BY <1>1, Types DEF Restart
<1>7. /\ addr' \in [Protocols -> Gens \cup {None}] /\ forgot' \in BOOLEAN
      /\ DOMAIN servers' \subseteq Gens /\ servers' \in [DOMAIN servers' -> Entry]
  BY <1>1 DEF IInv, MasterAgrees, TypeOK
<1>8. TypeOK'
  BY <1>2, <1>3, <1>4, <1>5, <1>6, <1>7 DEF TypeOK
<1>9. TablesAgree'
  BY <1>1 DEF IInv, MasterAgrees, TablesAgree
<1>10. SilentMeansStored' /\ OkStored'
  BY <1>1 DEF SilentMeansStored, OkStored
<1> QED BY <1>8, <1>9, <1>10 DEF IInv, MasterAgrees

LEMMA StutterInv == IInv /\ UNCHANGED vars => IInv'
<1> SUFFICES ASSUME IInv, UNCHANGED vars  PROVE IInv'
  OBVIOUS
<1>1. UNCHANGED <<gen, serial, shared, flight, prot, stray, dels, chal, master>>
  BY DEF vars, shared, master
<1> QED BY <1>1, JobsSame, Types, MasterSame, KnownSame, StepInv

LEMMA NextInv == IInv /\ [Next]_vars => IInv'
<1> SUFFICES ASSUME IInv, [Next]_vars  PROVE IInv'
  OBVIOUS
<1>1. CASE OnNewInfo \/ Reseed \/ \E b \in BOOLEAN : Restart(b)
  BY <1>1, OnNewInfoInv, ReseedInv, RestartInv
<1>2. ASSUME NEW p \in Protocols, Update(p) \/ OnToken(p) \/ Enable(p)  PROVE IInv'
  BY <1>2, UpdateInv, OnTokenInv, EnableInv
<1>3. ASSUME NEW p \in Protocols,
             Elapse(p) \/ Disable(p) \/ LoseChallenge(p) \/ LoseStray(p)
      PROVE  IInv'
  BY <1>3, QuietInv
<1>4. ASSUME NEW p \in Protocols,
             OnStrayRegister(p) \/ OnDelete(p) \/ PruneLeft(p) \/ PruneLate(p)
      PROVE  IInv'
  BY <1>4, MasterInv
<1>5. ASSUME NEW p \in Protocols, NEW k \in DOMAIN flight[p],
             OnRegister(p, k) \/ Fail(p, k) \/ ApplyStatus(p, k) \/ ApplySerial(p, k)
      PROVE  IInv'
  BY <1>5, OnRegisterInv, FailInv, ApplyStatusInv, ApplySerialInv
<1>6. CASE UNCHANGED vars
  BY <1>6, StutterInv
<1> QED BY <1>1, <1>2, <1>3, <1>4, <1>5, <1>6 DEF Next

\* The inductive invariant holds in every state: a request that the master
\* accepted stays known to it until the answer is read (OkStored), which is
\* what makes MasterAgrees inductive.
THEOREM RegisterInvariant == Spec => []IInv
BY InitInv, NextInv, PTL DEF Spec

\* The two tables of the master agree (the unwraps and asserts of
\* Servers::add, remove and prune_before), and whenever CRegister leaves its
\* info out of a request the master has one that is as new.
THEOREM MasterAndServerAgree == Spec => []MasterAgrees
<1>1. IInv => MasterAgrees
  BY DEF IInv
<1> QED BY RegisterInvariant, <1>1, PTL

\* Whatever requests overtake each other, of the same process or of one that
\* has ended, Servers::add replaces no info by an older one.
THEOREM InfoNeverOlder == Spec => InfoOnlyNewer
<1> DEFINE Newer == \A me \in DOMAIN servers \cap DOMAIN servers' :
                      servers'[me].serial >= servers[me].serial
<1>1. IInv /\ [Next]_vars => [Newer]_vars
  <2> SUFFICES ASSUME IInv, [Next]_vars  PROVE Newer
    OBVIOUS
  <2>1. CASE servers' = servers
    <3>1. \A me \in DOMAIN servers : servers[me].serial \in Int
      BY DEF IInv, MasterAgrees, TypeOK, Entry
    <3> QED BY <2>1, <3>1
  <2>2. CASE MasterStep
    BY <2>2 DEF MasterStep
  <2>3. ASSUME NEW p \in Protocols,
               \/ OnStrayRegister(p) \/ OnDelete(p) \/ PruneLeft(p) \/ PruneLate(p)
               \/ \E k \in DOMAIN flight[p] : OnRegister(p, k)
        PROVE  MasterStep
    BY <2>3, MasterInv, OnRegisterInv
  <2>4. ASSUME NEW p \in Protocols,
               \/ Update(p) \/ OnToken(p) \/ Enable(p) \/ Elapse(p) \/ Disable(p)
               \/ LoseChallenge(p) \/ LoseStray(p)
        PROVE  servers' = servers
    BY <2>4 DEF Update, OnToken, Enable, Elapse, Disable, LoseChallenge, LoseStray, master
  <2>5. ASSUME NEW p \in Protocols, NEW k \in DOMAIN flight[p],
               Fail(p, k) \/ ApplyStatus(p, k) \/ ApplySerial(p, k)
        PROVE  servers' = servers
    BY <2>5 DEF Fail, ApplyStatus, ApplySerial, master
  <2>6. ASSUME OnNewInfo \/ Reseed \/ (\E b \in BOOLEAN : Restart(b)) \/ UNCHANGED vars
        PROVE  servers' = servers
    BY <2>6 DEF OnNewInfo, Reseed, Restart, vars, master
  <2> QED BY <2>1, <2>2, <2>3, <2>4, <2>5, <2>6 DEF Next
<1>2. Spec => [][Newer]_vars
  BY <1>1, RegisterInvariant, PTL DEF Spec
<1> QED BY <1>2 DEF InfoOnlyNewer

-----------------------------------------------------------------------------
(* A team nobody is in keeps nothing, and a run is in one place. *)

LEMMA ClientsFinite ==
  ASSUME NEW S \in SUBSET Clients  PROVE IsFiniteSet(S) /\ Cardinality(S) \in Nat
<1>1. IsFiniteSet(Clients)
  BY TeamsAssumption, FS_Interval DEF Clients
<1>2. IsFiniteSet(S)
  BY <1>1, FS_Subset
<1> QED BY <1>2, FS_CardinalityType

LEMMA OnlyMember ==
  ASSUME NEW S \in SUBSET Clients, NEW c \in S
  PROVE  Cardinality(S) <= 1 <=> S = {c}
<1>1. IsFiniteSet(S) /\ Cardinality(S) \in Nat
  BY ClientsFinite
<1>2. ASSUME Cardinality(S) <= 1, NEW d \in S, d # c  PROVE FALSE
  <2>1. {c, d} \subseteq S
    BY <1>2
  <2>2. IsFiniteSet({c}) /\ Cardinality({c}) = 1
    BY FS_Singleton
  <2>3. Cardinality({c} \cup {d}) = 2
    BY <2>2, <1>2, FS_AddElement
  <2>4. Cardinality({c} \cup {d}) <= Cardinality(S)
    BY <1>1, <2>1, FS_Subset
  <2> QED BY <1>1, <1>2, <2>3, <2>4
<1>3. S = {c} => Cardinality(S) = 1
  BY FS_Singleton
<1> QED BY <1>1, <1>2, <1>3

LEMMA TeamConstants ==
  /\ FLOCK \in Teams /\ RealTeams = Teams \ {FLOCK} /\ RealTeams \subseteq Teams
  /\ NumClients \in Nat /\ NumTeams \in Nat /\ MaxRuns \in Nat /\ MaxTeamSize \in Nat
  /\ NoRun \in Runs /\ NoRun.id = 0 /\ NoTeam \in SavedTeams /\ NotSaving \in Savings
  /\ NoTeam.run = NoRun /\ NotSaving.saved = NoTeam /\ NotSaving.kind = "none"
<1>1. NumClients \in Nat /\ NumTeams \in Nat /\ MaxRuns \in Nat /\ MaxTeamSize \in Nat
  BY TeamsAssumption
<1>2. FLOCK \in Teams /\ RealTeams = Teams \ {FLOCK} /\ RealTeams \subseteq Teams
  BY <1>1 DEF FLOCK, Teams, RealTeams
<1>3. NoRun \in Runs /\ NoRun.id = 0
  BY <1>1 DEF NoRun, Runs
<1>4. NoTeam \in SavedTeams /\ NoTeam.run = NoRun
  BY <1>3 DEF NoTeam, SavedTeams, RaceStates
<1>5. NotSaving \in Savings /\ NotSaving.saved = NoTeam /\ NotSaving.kind = "none"
  BY <1>4 DEF NotSaving, Savings
<1> QED BY <1>1, <1>2, <1>3, <1>4, <1>5

LEMMA MarkedRun ==
  ASSUME NEW r \in Runs, NEW m \in {"practiced", "deserted", "stale"}
  PROVE  Marked(r, m) \in Runs /\ Marked(r, m).id = r.id /\ Marked(r, m).marks = r.marks \cup {m}
<1>1. PICK x : x = r.marks \cup {m}
  OBVIOUS
<1>2. x \in SUBSET {"practiced", "deserted", "stale"}
  BY <1>1 DEF Runs
<1>3. Marked(r, m) = [r EXCEPT !.marks = x]
  BY <1>1 DEF Marked
<1>4. r.id \in 0 .. MaxRuns /\ r = [id |-> r.id, marks |-> r.marks]
  BY DEF Runs
<1>5. [r EXCEPT !.marks = x] = [id |-> r.id, marks |-> x]
  BY <1>4
<1> QED BY <1>1, <1>2, <1>3, <1>4, <1>5 DEF Runs

LEMMA ResetFields ==
  ASSUME NEW h \in GameStates, NEW t \in Teams, NEW k, k = ResetTeam(h, t)
  PROVE  /\ k \in GameStates
         /\ k.state = [h.state EXCEPT ![t] = EMPTY]
         /\ k.locked = h.locked \ {t} /\ k.flock = h.flock \ {t}
         /\ k.practice = h.practice \ {t} /\ k.killTick = h.killTick \ {t}
         /\ k.team = h.team /\ k.tee = h.tee /\ k.race = h.race /\ k.started = h.started
         /\ k.finished = h.finished /\ k.saving = h.saving /\ k.run = h.run
         /\ k.ranked = h.ranked
<1>1. PICK st, lo, fl, pr, ki : /\ st = [h.state EXCEPT ![t] = EMPTY]
                                 /\ lo = h.locked \ {t} /\ fl = h.flock \ {t}
                                 /\ pr = h.practice \ {t} /\ ki = h.killTick \ {t}
  OBVIOUS
<1>2. /\ st \in [Teams -> EMPTY .. FINISHED] /\ lo \in SUBSET RealTeams
      /\ fl \in SUBSET RealTeams /\ pr \in SUBSET RealTeams /\ ki \in SUBSET RealTeams
  BY <1>1 DEF GameStates, EMPTY, FINISHED
<1>3. k = [h EXCEPT !.state = st, !.locked = lo, !.flock = fl, !.practice = pr,
                    !.killTick = ki]
  BY <1>1 DEF ResetTeam
<1>4. k \in GameStates
  BY <1>2, <1>3 DEF GameStates
<1>5. /\ k.state = st /\ k.locked = lo /\ k.flock = fl /\ k.practice = pr /\ k.killTick = ki
      /\ k.team = h.team /\ k.tee = h.tee /\ k.race = h.race /\ k.started = h.started
      /\ k.finished = h.finished /\ k.saving = h.saving /\ k.run = h.run
      /\ k.ranked = h.ranked
  BY <1>3 DEF GameStates
<1> QED BY <1>1, <1>4, <1>5

\* What SetForceCharacterTeam does: "gone" is the team that loses its last member, if any.
MoveSpec(h, k, c, t, gone) ==
  /\ k \in GameStates
  /\ k.team = [h.team EXCEPT ![c] = t]
  /\ k.tee = h.tee /\ k.race = h.race /\ k.saving = h.saving /\ k.ranked = h.ranked
  /\ k.started = h.started \ {c} /\ k.finished = h.finished \ {c}
  /\ k.locked = h.locked \ gone /\ k.flock = h.flock \ gone
  /\ k.practice = h.practice \ gone /\ k.killTick = h.killTick \ gone
  /\ \A u \in Teams : /\ k.run[u].id = h.run[u].id
                      /\ h.run[u].marks \subseteq k.run[u].marks
                      /\ k.run[u].marks \subseteq h.run[u].marks \cup {"deserted"}
  /\ \A u \in Teams : u \in gone => k.state[u] = EMPTY
  /\ \A u \in Teams : u \notin gone /\ u # t => k.state[u] = h.state[u]
  /\ h.state[t] # EMPTY \/ t \in h.locked => k.state[t] = h.state[t]
  /\ h.state[t] = EMPTY /\ t \notin h.locked => k.state[t] = OPEN

Gone(h, c, t) ==
  {u \in RealTeams : u = h.team[c] /\ u # t /\ h.state[u] # EMPTY /\ Members(h, u) = {c}}

LEMMA Moves ==
  ASSUME NEW h \in GameStates, NEW c \in Clients, NEW t \in Teams
  PROVE  MoveSpec(h, SetForceCharacterTeam(h, c, t), c, t, Gone(h, c, t))
<1> DEFINE old == h.team[c]
           alone == /\ t # old /\ old # FLOCK /\ h.state[old] # EMPTY
                    /\ TeamSize(h, old) <= 1
           gone == Gone(h, c, t)
<1>1. old \in Teams
  BY DEF GameStates
<1>2. alone => gone = {old}
  <2>1. c \in Members(h, old) /\ Members(h, old) \in SUBSET Clients
    BY DEF Members
  <2>2. TeamSize(h, old) <= 1 <=> Members(h, old) = {c}
    BY <2>1, OnlyMember DEF TeamSize
  <2> QED BY <1>1, <2>2, TeamConstants DEF Gone
<1>3. ~alone => gone = {}
  <2>1. c \in Members(h, old) /\ Members(h, old) \in SUBSET Clients
    BY DEF Members
  <2>2. TeamSize(h, old) <= 1 <=> Members(h, old) = {c}
    BY <2>1, OnlyMember DEF TeamSize
  <2> QED BY <1>1, <2>2, TeamConstants DEF Gone
<1>4. PICK a : a = IF alone THEN ResetTeam(h, old) ELSE h
  OBVIOUS
<1>5. /\ a \in GameStates
      /\ a.team = h.team /\ a.tee = h.tee /\ a.race = h.race /\ a.started = h.started
      /\ a.finished = h.finished /\ a.saving = h.saving /\ a.run = h.run
      /\ a.ranked = h.ranked
      /\ a.locked = h.locked \ gone /\ a.flock = h.flock \ gone
      /\ a.practice = h.practice \ gone /\ a.killTick = h.killTick \ gone
      /\ \A u \in Teams : a.state[u] = IF u \in gone THEN EMPTY ELSE h.state[u]
  <2>1. CASE alone
    <3>1. a = ResetTeam(h, old) /\ gone = {old}
      BY <1>2, <1>4, <2>1
    <3>2. h.state \in [Teams -> EMPTY .. FINISHED]
      BY DEF GameStates
    <3> HIDE DEF alone, gone, old
    <3>3. /\ a \in GameStates
          /\ a.state = [h.state EXCEPT ![old] = EMPTY]
          /\ a.locked = h.locked \ {old} /\ a.flock = h.flock \ {old}
          /\ a.practice = h.practice \ {old} /\ a.killTick = h.killTick \ {old}
          /\ a.team = h.team /\ a.tee = h.tee /\ a.race = h.race /\ a.started = h.started
          /\ a.finished = h.finished /\ a.saving = h.saving /\ a.run = h.run
          /\ a.ranked = h.ranked
      BY <1>1, <3>1, ResetFields
    <3>4. \A u \in Teams : a.state[u] = IF u \in gone THEN EMPTY ELSE h.state[u]
      BY <1>1, <3>1, <3>2, <3>3
    <3> QED BY <3>1, <3>3, <3>4
  <2>2. CASE ~alone
    <3>1. a = h /\ gone = {}
      BY <1>3, <1>4, <2>2
    <3> QED BY <3>1
  <2> QED BY <2>1, <2>2
<1> HIDE DEF gone
<1>6. PICK b : b = ClearFlags(a, c)
  OBVIOUS
<1>7. /\ b \in GameStates
      /\ b.team = h.team /\ b.tee = h.tee /\ b.race = h.race /\ b.started = h.started \ {c}
      /\ b.finished = h.finished \ {c} /\ b.saving = h.saving /\ b.run = h.run
      /\ b.ranked = h.ranked
      /\ b.locked = h.locked \ gone /\ b.flock = h.flock \ gone
      /\ b.practice = h.practice \ gone /\ b.killTick = h.killTick \ gone
      /\ \A u \in Teams : b.state[u] = IF u \in gone THEN EMPTY ELSE h.state[u]
  <2>1. /\ b \in GameStates
        /\ b.team = a.team /\ b.tee = a.tee /\ b.race = a.race /\ b.started = a.started \ {c}
        /\ b.finished = a.finished \ {c} /\ b.saving = a.saving /\ b.run = a.run
        /\ b.ranked = a.ranked /\ b.locked = a.locked /\ b.flock = a.flock
        /\ b.practice = a.practice /\ b.killTick = a.killTick /\ b.state = a.state
    BY <1>5, <1>6 DEF ClearFlags, GameStates
  <2> QED BY <1>5, <2>1
<1>8. PICK q : q = IF t # old /\ Racing(h, old) /\ c \notin h.started
                   THEN Marked(b.run[old], "deserted") ELSE b.run[old]
  OBVIOUS
<1>9. /\ q \in Runs /\ q.id = h.run[old].id /\ h.run[old].marks \subseteq q.marks
      /\ q.marks \subseteq h.run[old].marks \cup {"deserted"}
  <2>1. h.run[old] \in Runs /\ b.run = h.run
    BY <1>1, <1>7 DEF GameStates
  <2> QED BY <1>8, <2>1, MarkedRun
<1>10. PICK z : z = IF b.state[t] = EMPTY /\ t \notin b.locked THEN OPEN ELSE b.state[t]
  OBVIOUS
<1>11. z \in EMPTY .. FINISHED
  BY <1>7, <1>10 DEF GameStates, EMPTY, OPEN, FINISHED
<1>12. PICK k : k = [b EXCEPT !.team[c] = t, !.run[old] = q, !.state[t] = z]
  OBVIOUS
<1>13. SetForceCharacterTeam(h, c, t) = k
  BY <1>4, <1>6, <1>8, <1>10, <1>12 DEF SetForceCharacterTeam
<1>14. /\ k.team = [h.team EXCEPT ![c] = t] /\ k.run = [h.run EXCEPT ![old] = q]
       /\ k.state = [b.state EXCEPT ![t] = z]
       /\ k.tee = h.tee /\ k.race = h.race /\ k.started = h.started \ {c}
       /\ k.finished = h.finished \ {c} /\ k.saving = h.saving
       /\ k.ranked = h.ranked
       /\ k.locked = h.locked \ gone /\ k.flock = h.flock \ gone
       /\ k.practice = h.practice \ gone /\ k.killTick = h.killTick \ gone
       /\ k \in GameStates
  BY <1>1, <1>7, <1>9, <1>11, <1>12 DEF GameStates
<1>15. t \notin gone
  BY DEF gone, Gone
<1>16. \A u \in Teams : k.run[u] = IF u = old THEN q ELSE h.run[u]
  BY <1>14, <1>1 DEF GameStates
<1>17. \A u \in Teams : k.state[u] = IF u = t THEN z ELSE b.state[u]
  BY <1>14, <1>7 DEF GameStates
<1>18. /\ h.state[t] # EMPTY \/ t \in h.locked => z = h.state[t]
       /\ h.state[t] = EMPTY /\ t \notin h.locked => z = OPEN
  BY <1>7, <1>10, <1>15
<1>19. gone = Gone(h, c, t)
  BY DEF gone
<1> HIDE DEF old
<1> QED BY <1>7, <1>9, <1>13, <1>14, <1>15, <1>16, <1>17, <1>18, <1>19 DEF MoveSpec

-----------------------------------------------------------------------------
(* What every handler keeps. *)

OnRun(h, t) == h.state[t] \in {STARTED, STARTED_UNFINISHABLE} /\ h.run[t].id # 0

TeamsSound(h) ==
  /\ h \in GameStates
  /\ h.state[FLOCK] = OPEN
  /\ \A t \in RealTeams : h.state[t] = EMPTY <=> Members(h, t) = {}
  /\ \A t \in RealTeams : h.state[t] = EMPTY => t \notin h.locked \cup h.flock \cup h.practice
  /\ \A t \in RealTeams : h.state[t] = STARTED /\ t \notin h.flock => h.run[t].id # 0

NoNewRun(h, k) ==
  \A t \in RealTeams : OnRun(k, t) => OnRun(h, t) /\ k.run[t].id = h.run[t].id

OutStays(h, k) ==
  \A c \in Clients : /\ k.tee[c] = "out" <=> h.tee[c] = "out"
                     /\ h.team[c] = FLOCK => k.team[c] = FLOCK

Keeps(h, k) == TeamsSound(k) /\ k.saving = h.saving /\ NoNewRun(h, k) /\ OutStays(h, k)

LEMMA KeepsItself ==
  ASSUME NEW h, TeamsSound(h)  PROVE Keeps(h, h)
BY DEF Keeps, NoNewRun, OutStays

LEMMA KeepsOn ==
  ASSUME NEW a, NEW b, NEW d, Keeps(a, b), Keeps(b, d)  PROVE Keeps(a, d)
BY DEF Keeps, NoNewRun, OutStays

LEMMA MoveSound ==
  ASSUME NEW h, TeamsSound(h), NEW c \in Clients, NEW t \in Teams,
         NEW k, k = SetForceCharacterTeam(h, c, t)
  PROVE  /\ TeamsSound(k) /\ NoNewRun(h, k)
         /\ k.saving = h.saving /\ k.tee = h.tee /\ k.team = [h.team EXCEPT ![c] = t]
<1> DEFINE gone == Gone(h, c, t)
<1>1. h \in GameStates
  BY DEF TeamsSound
<1>2. MoveSpec(h, k, c, t, gone)
  BY <1>1, Moves
<1>3. /\ gone \subseteq RealTeams /\ t \notin gone
      /\ \A u \in gone : u = h.team[c] /\ Members(h, u) = {c}
      /\ \A u \in RealTeams : u = h.team[c] /\ u # t /\ Members(h, u) = {c} /\ h.state[u] # EMPTY
           => u \in gone
  BY DEF gone, Gone
<1> HIDE DEF gone
<1>4. k \in GameStates /\ k.team = [h.team EXCEPT ![c] = t]
  BY <1>2 DEF MoveSpec
<1>5. \A d \in Clients : k.team[d] = IF d = c THEN t ELSE h.team[d]
  BY <1>1, <1>4 DEF GameStates
<1>6. Members(k, t) # {}
  BY <1>5 DEF Members
<1>7. \A u \in RealTeams : u # t /\ u # h.team[c] => Members(k, u) = Members(h, u)
  BY <1>5 DEF Members
<1>8. \A u \in RealTeams : u # t /\ u = h.team[c] => Members(k, u) = Members(h, u) \ {c}
  BY <1>5 DEF Members
<1>9. c \in Members(h, h.team[c])
  BY DEF Members
<1>10. k.state[t] # EMPTY
  <2>1. h.state[t] = EMPTY => t \notin h.locked
    BY TeamConstants, <1>1 DEF TeamsSound, GameStates, OPEN, EMPTY
  <2> QED BY <1>2, <2>1 DEF MoveSpec, OPEN, EMPTY
<1>11. k.state[FLOCK] = OPEN
  <2>1. FLOCK \notin gone /\ h.state[FLOCK] = OPEN
    BY <1>3, TeamConstants DEF TeamsSound
  <2> QED BY <1>2, <2>1, TeamConstants DEF MoveSpec, OPEN, EMPTY
<1>12. ASSUME NEW u \in RealTeams  PROVE k.state[u] = EMPTY <=> Members(k, u) = {}
  <2>1. CASE u = t
    BY <2>1, <1>6, <1>10
  <2>2. CASE u # t /\ u # h.team[c]
    <3>1. u \notin gone
      BY <2>2, <1>3
    <3>2. k.state[u] = h.state[u]
      BY <1>2, <2>2, <3>1, TeamConstants DEF MoveSpec
    <3> QED BY <3>2, <2>2, <1>7 DEF TeamsSound
  <2>3. CASE u # t /\ u = h.team[c] /\ u \in gone
    <3>1. Members(k, u) = {}
      BY <2>3, <1>3, <1>8
    <3> QED BY <3>1, <2>3, <1>2, TeamConstants DEF MoveSpec
  <2>4. CASE u # t /\ u = h.team[c] /\ u \notin gone
    <3>1. k.state[u] = h.state[u]
      BY <1>2, <2>4, TeamConstants DEF MoveSpec
    <3>2. h.state[u] # EMPTY
      BY <2>4, <1>9 DEF TeamsSound
    <3>3. Members(h, u) # {c}
      BY <2>4, <3>2, <1>3
    <3>4. Members(k, u) # {}
      BY <3>3, <2>4, <1>8, <1>9
    <3> QED BY <3>1, <3>2, <3>4
  <2> QED BY <2>1, <2>2, <2>3, <2>4
<1>13. ASSUME NEW u \in RealTeams, k.state[u] = EMPTY
       PROVE u \notin k.locked \cup k.flock \cup k.practice
  <2>1. CASE u \in gone
    BY <2>1, <1>2 DEF MoveSpec
  <2>2. CASE u \notin gone
    <3>1. u # t
      BY <1>10, <1>13
    <3>2. h.state[u] = EMPTY
      BY <1>2, <1>13, <2>2, <3>1, TeamConstants DEF MoveSpec
    <3> QED BY <3>2, <1>2, <2>2 DEF MoveSpec, TeamsSound
  <2> QED BY <2>1, <2>2
<1>14. \A u \in RealTeams : k.state[u] \in {STARTED, STARTED_UNFINISHABLE} =>
         k.state[u] = h.state[u] /\ u \notin gone /\ k.run[u].id = h.run[u].id
  BY <1>2, TeamConstants DEF MoveSpec, EMPTY, OPEN, STARTED, STARTED_UNFINISHABLE
<1>15. \A u \in RealTeams : k.state[u] = STARTED /\ u \notin k.flock => k.run[u].id # 0
  BY <1>14, <1>2 DEF MoveSpec, TeamsSound
<1>16. NoNewRun(h, k)
  BY <1>14 DEF NoNewRun, OnRun
<1>17. k.saving = h.saving /\ k.tee = h.tee
  BY <1>2 DEF MoveSpec
<1> QED BY <1>4, <1>11, <1>12, <1>13, <1>15, <1>16, <1>17 DEF TeamsSound

LEMMA MoveKeeps ==
  ASSUME NEW h, TeamsSound(h), NEW c \in Clients, NEW t \in {FLOCK, h.team[c]},
         NEW k, k = SetForceCharacterTeam(h, c, t)
  PROVE  Keeps(h, k)
<1>1. h \in GameStates
  BY DEF TeamsSound
<1>2. t \in Teams
  BY <1>1, TeamConstants DEF GameStates
<1>3. /\ TeamsSound(k) /\ NoNewRun(h, k)
      /\ k.saving = h.saving /\ k.tee = h.tee /\ k.team = [h.team EXCEPT ![c] = t]
  BY <1>2, MoveSound
<1>4. OutStays(h, k)
  BY <1>1, <1>3 DEF OutStays, GameStates
<1> QED BY <1>3, <1>4 DEF Keeps

\* What leaves the members, the modes and the runs of the teams alone.
LEMMA RestKeeps ==
  ASSUME NEW h, TeamsSound(h), NEW k \in GameStates,
         k.team = h.team, k.saving = h.saving, k.flock = h.flock, k.state[FLOCK] = OPEN,
         \A u \in RealTeams : k.run[u].id = h.run[u].id,
         \A u \in RealTeams :
           \/ k.state[u] = h.state[u]
           \/ /\ h.state[u] # EMPTY /\ k.state[u] \notin {EMPTY, STARTED}
              /\ k.state[u] = STARTED_UNFINISHABLE => h.state[u] = STARTED,
         \A u \in RealTeams : u \in k.locked \cup k.practice =>
           u \in h.locked \cup h.practice \/ h.state[u] # EMPTY,
         \A c \in Clients : k.tee[c] = "out" <=> h.tee[c] = "out"
  PROVE  Keeps(h, k)
<1>1. \A u \in Teams : Members(k, u) = Members(h, u)
  BY DEF Members
<1>2. \A u \in RealTeams : k.state[u] = EMPTY <=> h.state[u] = EMPTY
  OBVIOUS
<1>3. \A u \in RealTeams : k.state[u] = STARTED => h.state[u] = STARTED
  OBVIOUS
<1>4. TeamsSound(k)
  BY <1>1, <1>2, <1>3, TeamConstants DEF TeamsSound
<1>5. NoNewRun(h, k)
  BY DEF NoNewRun, OnRun, EMPTY, STARTED, STARTED_UNFINISHABLE
<1>6. OutStays(h, k)
  BY DEF OutStays
<1> QED BY <1>4, <1>5, <1>6 DEF Keeps

LEMMA TurnInduction ==
  ASSUME NEW n \in Nat, NEW S, 0 \in S, \A i \in 1 .. n : i - 1 \in S => i \in S
  PROVE  0 .. n \subseteq S
<1> DEFINE T == {i \in Nat : i <= n => i \in S}
<1>1. 0 \in T
  OBVIOUS
<1>2. ASSUME NEW i \in Nat, i \in T  PROVE i + 1 \in T
  <2> SUFFICES ASSUME i + 1 <= n  PROVE i + 1 \in S
    OBVIOUS
  <2>1. PICK j \in 1 .. n : j = i + 1 /\ j - 1 = i
    OBVIOUS
  <2>2. i \in S
    BY <1>2
  <2> QED BY <2>1, <2>2
<1> HIDE DEF T
<1>3. Nat \subseteq T
  BY <1>1, <1>2, NumberInduction
<1> QED BY <1>3 DEF T

-----------------------------------------------------------------------------
(* The loop that moves clients to team 0.                                   *)

\* The clients C were moved to team 0.
AwaySpec(h, k, C) ==
  /\ k \in GameStates
  /\ \A c \in Clients : k.team[c] = IF c \in C THEN FLOCK ELSE h.team[c]
  /\ k.tee = h.tee /\ k.race = h.race /\ k.saving = h.saving /\ k.ranked = h.ranked
  /\ k.started = h.started \ C /\ k.finished = h.finished \ C
  /\ k.locked \subseteq h.locked /\ k.flock \subseteq h.flock
  /\ \A u \in Teams : /\ k.run[u].id = h.run[u].id
                      /\ h.run[u].marks \subseteq k.run[u].marks
                      /\ k.run[u].marks \subseteq h.run[u].marks \cup {"deserted"}
  /\ \A u \in RealTeams :
       \/ k.state[u] = EMPTY
       \/ /\ k.state[u] = h.state[u]
          /\ (u \in k.practice <=> u \in h.practice) /\ (u \in k.flock <=> u \in h.flock)

LEMMA OneAway ==
  ASSUME NEW h, TeamsSound(h), NEW c \in Clients, NEW k, k = ToFlock(h, c)
  PROVE  AwaySpec(h, k, {c})
<1>1. h \in GameStates
  BY DEF TeamsSound
<1>2. MoveSpec(h, k, c, FLOCK, Gone(h, c, FLOCK))
  BY <1>1, Moves, TeamConstants DEF ToFlock
<1>3. \A d \in Clients : k.team[d] = IF d \in {c} THEN FLOCK ELSE h.team[d]
  BY <1>1, <1>2 DEF MoveSpec, GameStates
<1>4. \A u \in RealTeams :
        \/ k.state[u] = EMPTY
        \/ /\ k.state[u] = h.state[u]
           /\ (u \in k.practice <=> u \in h.practice) /\ (u \in k.flock <=> u \in h.flock)
  BY <1>2, TeamConstants DEF MoveSpec
<1> QED BY <1>2, <1>3, <1>4 DEF MoveSpec, AwaySpec

LEMMA AwayOn ==
  ASSUME NEW a, NEW b, NEW d, NEW B, NEW D, AwaySpec(a, b, B), AwaySpec(b, d, D),
         TeamsSound(a)
  PROVE  AwaySpec(a, d, B \cup D)
<1>1. \A c \in Clients : d.team[c] = IF c \in B \cup D THEN FLOCK ELSE a.team[c]
  BY DEF AwaySpec
<1>2. \A u \in RealTeams :
        \/ d.state[u] = EMPTY
        \/ /\ d.state[u] = a.state[u]
           /\ (u \in d.practice <=> u \in a.practice) /\ (u \in d.flock <=> u \in a.flock)
  BY DEF AwaySpec
<1>3. \A u \in Teams : /\ d.run[u].id = a.run[u].id
                       /\ a.run[u].marks \subseteq d.run[u].marks
                       /\ d.run[u].marks \subseteq a.run[u].marks \cup {"deserted"}
  BY DEF AwaySpec
<1> QED BY <1>1, <1>2, <1>3 DEF AwaySpec

AwayBody(k, n, C) == IF n \in C THEN ToFlock(k, n) ELSE k

LEMMA AllAway ==
  ASSUME NEW h, TeamsSound(h), NEW C \in SUBSET Clients, NEW k, k = AllToFlock(h, C)
  PROVE  Keeps(h, k) /\ AwaySpec(h, k, C)
<1> DEFINE X == {x \in GameStates : TeamsSound(x)}
           F == [y \in Nat \X X |-> AwayBody(y[2], y[1], C)]
<1>1. ASSUME NEW x \in X, NEW n \in Nat
      PROVE  AwayBody(x, n, C) \in X /\ Keeps(x, AwayBody(x, n, C))
  <2>1. CASE n \in C
    <3>1. Keeps(x, ToFlock(x, n))
      BY <2>1, MoveKeeps DEF ToFlock
    <3>2. ToFlock(x, n) \in X
      BY <3>1 DEF Keeps, TeamsSound
    <3> QED BY <3>1, <3>2, <2>1 DEF AwayBody
  <2>2. CASE n \notin C
    BY <2>2, KeepsItself DEF AwayBody
  <2> QED BY <2>1, <2>2
<1>2. F \in [Nat \X X -> X] /\ \A i \in Nat, x \in X : F[<<i, x>>] = AwayBody(x, i, C)
  BY <1>1
<1>3. h \in X
  BY DEF TeamsSound
<1>4. NumClients \in Nat
  BY TeamConstants
<1> HIDE DEF F, X
<1>5. PICK f \in [0 .. NumClients -> X] :
        f[0] = h /\ \A i \in 1 .. NumClients : f[i] = F[<<i, f[i - 1]>>]
  <2>1. TurnsFrom(h, F, X, NumClients) # {}
    BY Zenon, <1>2, <1>3, <1>4, TurnsDefined
  <2> QED BY Zenon, <2>1 DEF TurnsFrom
<1>6. f = [n \in 0 .. NumClients |->
             IF n = 0 THEN h
             ELSE IF n \in C THEN ToFlock(f[n - 1], n) ELSE f[n - 1]]
  <2>1. ASSUME NEW n \in 0 .. NumClients, n # 0  PROVE f[n] = AwayBody(f[n - 1], n, C)
    <3>1. n \in 1 .. NumClients /\ n \in Nat /\ f[n - 1] \in X
      BY <1>4, <2>1
    <3> QED BY <1>2, <1>5, <3>1
  <2> QED BY <1>5, <2>1 DEF AwayBody
<1> DEFINE turn == CHOOSE e : e = [n \in 0 .. NumClients |->
                     IF n = 0 THEN h
                     ELSE IF n \in C THEN ToFlock(e[n - 1], n) ELSE e[n - 1]]
<1>7. turn = [n \in 0 .. NumClients |->
                IF n = 0 THEN h
                ELSE IF n \in C THEN ToFlock(turn[n - 1], n) ELSE turn[n - 1]]
  BY Zenon, <1>6
<1>8. k = turn[NumClients]
  BY DEF AllToFlock
<1> HIDE DEF turn
<1> DEFINE S == {n \in 0 .. NumClients :
                   Keeps(h, turn[n]) /\ AwaySpec(h, turn[n], C \cap 1 .. n)}
<1>9. 0 \in S
  <2>1. turn[0] = h /\ C \cap 1 .. 0 = {}
    BY <1>4, <1>7
  <2>2. AwaySpec(h, h, {})
    BY DEF AwaySpec, TeamsSound
  <2> QED BY <1>4, <2>1, <2>2, KeepsItself
<1>10. ASSUME NEW n \in 1 .. NumClients, n - 1 \in S  PROVE n \in S
  <2>1. turn[n] = AwayBody(turn[n - 1], n, C)
    BY <1>4, <1>7 DEF AwayBody
  <2>2. PICK x : x = turn[n - 1]
    OBVIOUS
  <2>3. Keeps(h, x) /\ AwaySpec(h, x, C \cap 1 .. n - 1) /\ TeamsSound(x) /\ x \in GameStates
    BY <1>10, <2>2 DEF Keeps, TeamsSound
  <2>4. Keeps(x, turn[n])
    BY <1>1, <2>1, <2>2, <2>3 DEF X
  <2>5. Keeps(h, turn[n])
    BY <2>3, <2>4, KeepsOn
  <2>6. CASE n \in C
    <3>1. AwaySpec(x, turn[n], {n})
      BY <2>1, <2>2, <2>3, <2>6, OneAway DEF AwayBody
    <3>2. C \cap 1 .. n = (C \cap 1 .. n - 1) \cup {n}
      BY <2>6
    <3> QED BY <2>3, <2>5, <3>1, <3>2, AwayOn
  <2>7. CASE n \notin C
    <3>1. turn[n] = x
      BY <2>1, <2>2, <2>7 DEF AwayBody
    <3>2. C \cap 1 .. n = C \cap 1 .. n - 1
      BY <2>7
    <3>3. AwaySpec(h, turn[n], C \cap 1 .. n)
      BY Zenon, <2>3, <3>1, <3>2
    <3> QED BY <2>5, <3>3
  <2> QED BY <2>6, <2>7
<1>11. NumClients \in S
  <2> HIDE DEF S
  <2>1. 0 .. NumClients \subseteq S
    BY <1>4, <1>9, <1>10, TurnInduction
  <2> QED BY <1>4, <2>1
<1>12. C \cap 1 .. NumClients = C
  BY DEF Clients
<1> QED BY <1>8, <1>11, <1>12

-----------------------------------------------------------------------------
(* Finishes and deaths. *)

\* The team t finished with its tees C.
FinishSpec(h, k, t, C) ==
  /\ k \in GameStates
  /\ k.team = h.team /\ k.tee = h.tee /\ k.saving = h.saving /\ k.run = h.run
  /\ k.locked = h.locked /\ k.flock = h.flock /\ k.practice = h.practice
  /\ k.killTick = h.killTick
  /\ k.started = h.started \ C /\ k.finished = h.finished \ C
  /\ \A c \in Clients : k.race[c] = IF c \in C THEN "FINISHED" ELSE h.race[c]
  /\ \A u \in Teams : k.state[u] = IF u = t THEN FINISHED ELSE h.state[u]

LEMMA AliveMembers ==
  ASSUME NEW h, NEW t
  PROVE  Alive(h, t) \in SUBSET Clients /\ Players(h, t) \in SUBSET Clients
         /\ Members(h, t) \in SUBSET Clients
BY DEF Alive, Players, Members

\* The team t finishes.
Finishes(h, k, t) ==
  /\ h.state[t] = STARTED /\ Members(h, t) \subseteq h.finished /\ Alive(h, t) # {}
  /\ t \in RealTeams
  /\ \E d : /\ FinishSpec(h, d, t, Alive(h, t)) /\ Keeps(h, d)
            /\ d.ranked = IF t \in h.practice THEN h.ranked ELSE h.ranked \cup {h.run[t]}
            /\ k = d \/ k = AllToFlock(d, Alive(h, t))

LEMMA CheckCases ==
  ASSUME NEW h, TeamsSound(h), NEW t \in Teams, NEW k, k = CheckTeamFinished(h, t),
         k # h
  PROVE  Finishes(h, k, t)
<1> DEFINE C == Alive(h, t)
<1>1. TeamFinished(h, t) /\ C # {}
  BY DEF CheckTeamFinished
<1>2. h.state[t] = STARTED /\ Members(h, t) \subseteq h.finished
  BY <1>1 DEF TeamFinished
<1>3. t \in RealTeams
  BY <1>2, TeamConstants DEF TeamsSound, OPEN, STARTED
<1>4. h \in GameStates /\ C \in SUBSET Clients
  BY AliveMembers DEF TeamsSound
<1> HIDE DEF C
<1>5. PICK ra, st, sd, fd :
        /\ ra = [c \in Clients |-> IF c \in C THEN "FINISHED" ELSE h.race[c]]
        /\ st = [h.state EXCEPT ![t] = FINISHED]
        /\ sd = h.started \ C /\ fd = h.finished \ C
  OBVIOUS
<1>6. /\ ra \in [Clients -> RaceStates] /\ st \in [Teams -> EMPTY .. FINISHED]
      /\ sd \in SUBSET Clients /\ fd \in SUBSET Clients
      /\ \A u \in Teams : st[u] = IF u = t THEN FINISHED ELSE h.state[u]
  BY <1>4, <1>5 DEF GameStates, RaceStates, EMPTY, FINISHED
<1>7. PICK d : d = [h EXCEPT !.started = sd, !.finished = fd, !.race = ra, !.state = st]
  OBVIOUS
<1>8. /\ d \in GameStates
      /\ d.team = h.team /\ d.tee = h.tee /\ d.saving = h.saving /\ d.run = h.run
      /\ d.locked = h.locked /\ d.flock = h.flock /\ d.practice = h.practice
      /\ d.killTick = h.killTick /\ d.ranked = h.ranked
      /\ d.started = sd /\ d.finished = fd /\ d.race = ra /\ d.state = st
  BY <1>4, <1>6, <1>7 DEF GameStates
<1>9. PICK e : e = [d EXCEPT !.ranked = h.ranked \cup {h.run[t]}]
  OBVIOUS
<1>10. /\ e \in GameStates
       /\ e.team = h.team /\ e.tee = h.tee /\ e.saving = h.saving /\ e.run = h.run
       /\ e.locked = h.locked /\ e.flock = h.flock /\ e.practice = h.practice
       /\ e.killTick = h.killTick /\ e.ranked = h.ranked \cup {h.run[t]}
       /\ e.started = sd /\ e.finished = fd /\ e.race = ra /\ e.state = st
  <2>1. h.ranked \cup {h.run[t]} \in SUBSET Runs
    BY <1>4 DEF GameStates
  <2> QED BY <1>8, <1>9, <2>1 DEF GameStates
<1>11. FinishSpec(h, d, t, C) /\ FinishSpec(h, e, t, C)
  BY <1>5, <1>6, <1>8, <1>10 DEF FinishSpec
<1>12. ASSUME NEW x, FinishSpec(h, x, t, C)  PROVE Keeps(h, x)
  <2>1. x.state[FLOCK] = OPEN
    BY <1>3, <1>12, TeamConstants DEF FinishSpec, TeamsSound
  <2>2. \A u \in RealTeams :
          \/ x.state[u] = h.state[u]
          \/ /\ h.state[u] # EMPTY /\ x.state[u] \notin {EMPTY, STARTED}
             /\ x.state[u] = STARTED_UNFINISHABLE => h.state[u] = STARTED
    BY <1>2, <1>12, TeamConstants DEF FinishSpec, EMPTY, STARTED, STARTED_UNFINISHABLE, FINISHED
  <2> QED BY <1>12, <2>1, <2>2, RestKeeps DEF FinishSpec
<1>13. k = IF t \in h.practice THEN d
           ELSE IF t \in e.locked THEN e ELSE AllToFlock(e, C)
  <2>1. k = IF t \in h.practice THEN d ELSE Rejoin([d EXCEPT !.ranked = @ \cup {h.run[t]}], t, C)
    BY <1>1, <1>5, <1>7 DEF CheckTeamFinished, C
  <2>2. [d EXCEPT !.ranked = @ \cup {h.run[t]}] = e
    BY <1>8, <1>9
  <2> QED BY <2>1, <2>2 DEF Rejoin
<1>14. C = Alive(h, t)
  BY DEF C
<1>15. CASE t \in h.practice
  BY <1>1, <1>2, <1>3, <1>8, <1>11, <1>12, <1>13, <1>14, <1>15 DEF Finishes
<1>16. CASE t \notin h.practice
  BY <1>1, <1>2, <1>3, <1>10, <1>11, <1>12, <1>13, <1>14, <1>16 DEF Finishes
<1> QED BY <1>15, <1>16

LEMMA CheckKeeps ==
  ASSUME NEW h, TeamsSound(h), NEW t \in Teams, NEW k, k = CheckTeamFinished(h, t)
  PROVE  Keeps(h, k) /\ k.tee = h.tee
<1>1. CASE k = h
  BY <1>1, KeepsItself
<1>2. CASE k # h
  <2> Finishes(h, k, t)
    BY <1>2, CheckCases
  <2>1. PICK d : /\ FinishSpec(h, d, t, Alive(h, t)) /\ Keeps(h, d)
                 /\ k = d \/ k = AllToFlock(d, Alive(h, t))
    BY DEF Finishes
  <2>2. TeamsSound(d) /\ d.tee = h.tee
    BY <2>1 DEF Keeps, FinishSpec
  <2>3. CASE k = d
    BY <2>1, <2>2, <2>3
  <2>4. CASE k = AllToFlock(d, Alive(h, t))
    <3>1. Keeps(d, k) /\ AwaySpec(d, k, Alive(h, t))
      BY <2>2, <2>4, AllAway, AliveMembers
    <3>2. k.tee = h.tee
      BY <2>2, <3>1 DEF AwaySpec
    <3> QED BY <2>1, <3>1, <3>2, KeepsOn
  <2> QED BY <2>1, <2>3, <2>4
<1> QED BY <1>1, <1>2

LEMMA KilledFields ==
  ASSUME NEW h \in GameStates, NEW c \in Clients, NEW k, k = Killed(h, c)
  PROVE  /\ k \in GameStates
         /\ k.team = h.team /\ k.tee = [h.tee EXCEPT ![c] = "dead"]
         /\ k.race = h.race /\ k.started = h.started /\ k.finished = h.finished
         /\ k.state = h.state /\ k.locked = h.locked /\ k.flock = h.flock
         /\ k.practice = h.practice /\ k.killTick = h.killTick /\ k.saving = h.saving
         /\ k.run = h.run /\ k.ranked = h.ranked
<1>1. PICK te : te = [h.tee EXCEPT ![c] = "dead"]
  OBVIOUS
<1>2. te \in [Clients -> {"out", "spec", "dead", "alive"}]
  BY <1>1 DEF GameStates
<1>3. k = [h EXCEPT !.tee = te]
  BY <1>1 DEF Killed
<1>4. k \in GameStates
  BY <1>2, <1>3 DEF GameStates
<1> QED BY <1>1, <1>3, <1>4 DEF GameStates

LEMMA KilledKeeps ==
  ASSUME NEW h, TeamsSound(h), NEW c \in Clients, h.tee[c] # "out",
         NEW k, k = Killed(h, c)
  PROVE  Keeps(h, k)
<1>1. h \in GameStates
  BY DEF TeamsSound
<1>2. /\ k \in GameStates
      /\ k.team = h.team /\ k.tee = [h.tee EXCEPT ![c] = "dead"]
      /\ k.state = h.state /\ k.locked = h.locked /\ k.flock = h.flock
      /\ k.practice = h.practice /\ k.saving = h.saving /\ k.run = h.run
  BY <1>1, KilledFields
<1>3. \A d \in Clients : k.tee[d] = "out" <=> h.tee[d] = "out"
  BY <1>1, <1>2 DEF GameStates
<1> QED BY <1>2, <1>3, RestKeeps DEF TeamsSound

SpoilSpec(h, k, t) ==
  /\ k.tee = h.tee /\ k.team = h.team
  /\ k.state = [h.state EXCEPT ![t] = STARTED_UNFINISHABLE]
  /\ k.race = h.race /\ k.started = h.started /\ k.finished = h.finished
  /\ k.locked = h.locked /\ k.flock = h.flock
  /\ k.practice = h.practice /\ k.saving = h.saving
  /\ k.run = h.run /\ k.ranked = h.ranked

LEMMA SpoilKeeps ==
  ASSUME NEW h, TeamsSound(h), NEW t \in RealTeams, h.state[t] = STARTED,
         NEW k, k = Spoil(h, t)
  PROVE  Keeps(h, k) /\ SpoilSpec(h, k, t)
<1>1. h \in GameStates
  BY DEF TeamsSound
<1>2. PICK ki, st : /\ ki = h.killTick \cup {t}
                    /\ st = [h.state EXCEPT ![t] = STARTED_UNFINISHABLE]
  OBVIOUS
<1>3. ki \in SUBSET RealTeams /\ st \in [Teams -> EMPTY .. FINISHED]
  <2>1. h.killTick \in SUBSET RealTeams /\ h.state \in [Teams -> EMPTY .. FINISHED]
    BY <1>1 DEF GameStates
  <2>2. STARTED_UNFINISHABLE \in EMPTY .. FINISHED
    BY DEF EMPTY, FINISHED, STARTED_UNFINISHABLE
  <2> QED BY <1>2, <2>1, <2>2
<1>4. k = [h EXCEPT !.killTick = ki, !.state = st]
  BY <1>2 DEF Spoil
<1>5. /\ k \in GameStates
      /\ k.tee = h.tee /\ k.team = h.team /\ k.state = st
      /\ k.race = h.race /\ k.started = h.started /\ k.finished = h.finished
      /\ k.locked = h.locked /\ k.flock = h.flock
      /\ k.practice = h.practice /\ k.saving = h.saving
      /\ k.run = h.run /\ k.ranked = h.ranked
  BY <1>1, <1>3, <1>4 DEF GameStates
<1>6. k.state[FLOCK] = OPEN
  BY <1>1, <1>2, <1>5, TeamConstants DEF TeamsSound, GameStates
<1>7. \A u \in RealTeams :
        \/ k.state[u] = h.state[u]
        \/ /\ h.state[u] # EMPTY /\ k.state[u] \notin {EMPTY, STARTED}
           /\ k.state[u] = STARTED_UNFINISHABLE => h.state[u] = STARTED
  BY <1>1, <1>2, <1>5, TeamConstants
     DEF GameStates, EMPTY, STARTED, STARTED_UNFINISHABLE
<1>8. Keeps(h, k)
  BY <1>5, <1>6, <1>7, RestKeeps
<1> QED BY <1>2, <1>5, <1>8 DEF SpoilSpec

LEMMA DiesAloneKeeps ==
  ASSUME NEW h, TeamsSound(h), NEW c \in Clients, NEW weapon,
         NEW k, k = DiesAlone(h, c, weapon)
  PROVE  Keeps(h, k) /\ k.tee = h.tee
<1> DEFINE t == h.team[c]
<1>1. t \in Teams /\ h \in GameStates
  BY DEF TeamsSound, GameStates
<1>2. PICK a : a = IF h.state[t] = STARTED /\ c \notin h.started /\ t \notin h.flock
                   THEN Spoil(h, t) ELSE h
  OBVIOUS
<1>3. Keeps(h, a) /\ a.tee = h.tee
  <2>1. CASE a = h
    BY <2>1, KeepsItself
  <2>2. CASE a # h
    <3>1. t \in RealTeams /\ h.state[t] = STARTED /\ a = Spoil(h, t)
      BY <1>1, <1>2, <2>2, TeamConstants DEF TeamsSound, OPEN, STARTED
    <3>2. Keeps(h, a) /\ SpoilSpec(h, a, t)
      BY <3>1, SpoilKeeps
    <3> QED BY <3>2 DEF SpoilSpec
  <2> QED BY <2>1, <2>2
<1>4. PICK b : b = ToFlock(a, c)
  OBVIOUS
<1>5. TeamsSound(a)
  BY <1>3 DEF Keeps
<1>6. Keeps(a, b) /\ b.tee = a.tee
  <2>1. Keeps(a, b)
    BY <1>4, <1>5, MoveKeeps DEF ToFlock
  <2>2. AwaySpec(a, b, {c})
    BY <1>4, <1>5, OneAway
  <2> QED BY <2>1, <2>2 DEF AwaySpec
<1>7. PICK d : d = CheckTeamFinished(b, t)
  OBVIOUS
<1>8. Keeps(b, d) /\ d.tee = b.tee
  <2>1. TeamsSound(b)
    BY <1>6 DEF Keeps
  <2> QED BY <1>1, <1>7, <2>1, CheckKeeps
<1>9. Keeps(h, d) /\ d.tee = h.tee
  <2>1. Keeps(h, b)
    BY <1>3, <1>6, KeepsOn
  <2> QED BY <2>1, <1>3, <1>6, <1>8, KeepsOn
<1>10. PICK e : e = SetForceCharacterTeam(h, c, t)
  OBVIOUS
<1>11. Keeps(h, e) /\ e.tee = h.tee
  <2>1. Keeps(h, e)
    BY <1>10, MoveKeeps
  <2>2. MoveSpec(h, e, c, t, Gone(h, c, t))
    BY <1>1, <1>10, Moves
  <2> QED BY <2>1, <2>2 DEF MoveSpec
<1>12. k = h \/ k = d \/ k = e
  BY <1>2, <1>4, <1>7, <1>10 DEF DiesAlone
<1> QED BY <1>9, <1>11, <1>12, KeepsItself

LEMMA KilledAliveKeeps ==
  ASSUME NEW h, TeamsSound(h), NEW t, NEW c \in Alive(h, t), NEW k, k = Killed(h, c)
  PROVE  Keeps(h, k) /\ c \in Clients
<1>1. c \in Clients /\ h.tee[c] # "out"
  BY DEF Alive, Members
<1> QED BY <1>1, KilledKeeps

KillRestBody(k, n, t, c) ==
  IF n \in Alive(k, t) \ {c} THEN DiesAlone(Killed(k, n), n, "self") ELSE k

LEMMA RestDies ==
  ASSUME NEW h, TeamsSound(h), NEW n, NEW t, NEW c, NEW k, k = KillRestBody(h, n, t, c)
  PROVE  Keeps(h, k)
<1>1. CASE n \in Alive(h, t) \ {c}
  <2>1. PICK a : a = Killed(h, n)
    OBVIOUS
  <2>2. Keeps(h, a) /\ n \in Clients
    BY <1>1, <2>1, KilledAliveKeeps
  <2>3. k = DiesAlone(a, n, "self") /\ TeamsSound(a)
    BY <1>1, <2>1, <2>2 DEF KillRestBody, Keeps
  <2>4. Keeps(a, k)
    BY <2>2, <2>3, DiesAloneKeeps
  <2> QED BY <2>2, <2>4, KeepsOn
<1>2. CASE n \notin Alive(h, t) \ {c}
  BY <1>2, KeepsItself DEF KillRestBody
<1> QED BY <1>1, <1>2

LEMMA KillRestTurns ==
  ASSUME NEW h, TeamsSound(h), NEW t, NEW c, NEW k, k = KillRest(h, t, c)
  PROVE  \E turn : /\ turn[0] = h /\ k = turn[NumClients]
                    /\ \A n \in 1 .. NumClients : turn[n] = KillRestBody(turn[n - 1], n, t, c)
<1> DEFINE X == {x \in GameStates : TeamsSound(x)}
           F == [y \in Nat \X X |-> KillRestBody(y[2], y[1], t, c)]
<1>1. ASSUME NEW x \in X, NEW n \in Nat
      PROVE  KillRestBody(x, n, t, c) \in X /\ Keeps(x, KillRestBody(x, n, t, c))
  <2>1. Keeps(x, KillRestBody(x, n, t, c))
    BY RestDies
  <2> QED BY <2>1 DEF Keeps, TeamsSound
<1>2. F \in [Nat \X X -> X] /\ \A i \in Nat, x \in X : F[<<i, x>>] = KillRestBody(x, i, t, c)
  BY <1>1
<1>3. h \in X
  BY DEF TeamsSound
<1>4. NumClients \in Nat
  BY TeamConstants
<1> HIDE DEF F, X
<1>5. PICK f \in [0 .. NumClients -> X] :
        f[0] = h /\ \A i \in 1 .. NumClients : f[i] = F[<<i, f[i - 1]>>]
  <2>1. TurnsFrom(h, F, X, NumClients) # {}
    BY Zenon, <1>2, <1>3, <1>4, TurnsDefined
  <2> QED BY Zenon, <2>1 DEF TurnsFrom
<1>6. f = [n \in 0 .. NumClients |->
             IF n = 0 THEN h
             ELSE LET y == f[n - 1] IN
                  IF n \in Alive(y, t) \ {c} THEN DiesAlone(Killed(y, n), n, "self") ELSE y]
  <2>1. ASSUME NEW n \in 0 .. NumClients, n # 0  PROVE f[n] = KillRestBody(f[n - 1], n, t, c)
    <3>1. n \in 1 .. NumClients /\ n \in Nat /\ f[n - 1] \in X
      BY <1>4, <2>1
    <3> QED BY <1>2, <1>5, <3>1
  <2> QED BY <1>5, <2>1 DEF KillRestBody
<1> DEFINE turn == CHOOSE e : e = [n \in 0 .. NumClients |->
                     IF n = 0 THEN h
                     ELSE LET y == e[n - 1] IN
                          IF n \in Alive(y, t) \ {c} THEN DiesAlone(Killed(y, n), n, "self")
                          ELSE y]
<1>7. turn = [n \in 0 .. NumClients |->
                IF n = 0 THEN h
                ELSE LET y == turn[n - 1] IN
                     IF n \in Alive(y, t) \ {c} THEN DiesAlone(Killed(y, n), n, "self")
                     ELSE y]
  BY Zenon, <1>6
<1>8. k = turn[NumClients]
  BY DEF KillRest
<1> HIDE DEF turn
<1>9. turn[0] = h
  BY <1>4, <1>7
<1>10. ASSUME NEW n \in 1 .. NumClients  PROVE turn[n] = KillRestBody(turn[n - 1], n, t, c)
  BY <1>4, <1>7 DEF KillRestBody
<1> QED BY <1>8, <1>9, <1>10

LEMMA KillRestKeeps ==
  ASSUME NEW h, TeamsSound(h), NEW t, NEW c, NEW k, k = KillRest(h, t, c)
  PROVE  Keeps(h, k)
<1>1. PICK turn : /\ turn[0] = h /\ k = turn[NumClients]
                  /\ \A n \in 1 .. NumClients : turn[n] = KillRestBody(turn[n - 1], n, t, c)
  BY KillRestTurns
<1>2. NumClients \in Nat
  BY TeamConstants
<1> DEFINE S == {n \in 0 .. NumClients : Keeps(h, turn[n])}
<1>3. 0 \in S
  BY <1>1, <1>2, KeepsItself
<1>4. ASSUME NEW n \in 1 .. NumClients, n - 1 \in S  PROVE n \in S
  <2>1. PICK x : x = turn[n - 1]
    OBVIOUS
  <2>2. Keeps(h, x) /\ TeamsSound(x) /\ turn[n] = KillRestBody(x, n, t, c)
    BY <1>1, <1>4, <2>1 DEF Keeps
  <2>3. Keeps(x, turn[n])
    BY <2>2, RestDies
  <2> QED BY <2>2, <2>3, KeepsOn
<1>5. NumClients \in S
  <2> HIDE DEF S
  <2>1. 0 .. NumClients \subseteq S
    BY <1>2, <1>3, <1>4, TurnInduction
  <2> QED BY <1>2, <2>1
<1> QED BY <1>1, <1>5

\* What OnCharacterDeath makes of a locked team whose run is over.
Opened(h, t) == [h EXCEPT !.state[t] = OPEN, !.practice = @ \ {t}]

OpenedSpec(h, k, t) ==
  /\ k \in GameStates
  /\ k.team = h.team /\ k.tee = h.tee /\ k.race = h.race /\ k.started = h.started
  /\ k.finished = h.finished /\ k.saving = h.saving /\ k.run = h.run
  /\ k.ranked = h.ranked /\ k.locked = h.locked /\ k.flock = h.flock
  /\ k.practice = h.practice \ {t} /\ k.state = [h.state EXCEPT ![t] = OPEN]

LEMMA OpenedKeeps ==
  ASSUME NEW h, TeamsSound(h), NEW t \in RealTeams, Members(h, t) # {},
         NEW k, k = Opened(h, t)
  PROVE  OpenedSpec(h, k, t) /\ Keeps(h, k)
<1>1. h \in GameStates
  BY DEF TeamsSound
<1>2. PICK pr, st : pr = h.practice \ {t} /\ st = [h.state EXCEPT ![t] = OPEN]
  OBVIOUS
<1>3. pr \in SUBSET RealTeams /\ st \in [Teams -> EMPTY .. FINISHED]
  <2>1. h.practice \in SUBSET RealTeams /\ h.state \in [Teams -> EMPTY .. FINISHED]
    BY <1>1 DEF GameStates
  <2>2. OPEN \in EMPTY .. FINISHED
    BY DEF EMPTY, FINISHED, OPEN
  <2> QED BY <1>2, <2>1, <2>2
<1>4. k = [h EXCEPT !.state = st, !.practice = pr]
  BY <1>2 DEF Opened
<1>5. OpenedSpec(h, k, t)
  <2>1. k \in GameStates /\ k.state = st /\ k.practice = pr
    BY <1>1, <1>3, <1>4 DEF GameStates
  <2>2. /\ k.team = h.team /\ k.tee = h.tee /\ k.race = h.race /\ k.started = h.started
        /\ k.finished = h.finished /\ k.saving = h.saving /\ k.run = h.run
        /\ k.ranked = h.ranked /\ k.locked = h.locked /\ k.flock = h.flock
    BY <1>1, <1>4 DEF GameStates
  <2> QED BY <1>2, <2>1, <2>2 DEF OpenedSpec
<1>6. k.state[FLOCK] = OPEN
  BY <1>1, <1>5, TeamConstants DEF TeamsSound, GameStates, OpenedSpec
<1>7. h.state[t] # EMPTY
  BY DEF TeamsSound
<1>8. \A u \in RealTeams :
        \/ k.state[u] = h.state[u]
        \/ /\ h.state[u] # EMPTY /\ k.state[u] \notin {EMPTY, STARTED}
           /\ k.state[u] = STARTED_UNFINISHABLE => h.state[u] = STARTED
  BY <1>1, <1>5, <1>7, TeamConstants
     DEF GameStates, EMPTY, OPEN, STARTED, STARTED_UNFINISHABLE, OpenedSpec
<1>9. Keeps(h, k)
  <2>1. \A u \in RealTeams : k.run[u].id = h.run[u].id
    BY <1>5 DEF OpenedSpec
  <2>2. \A u \in RealTeams : u \in k.locked \cup k.practice =>
          u \in h.locked \cup h.practice \/ h.state[u] # EMPTY
    BY <1>5 DEF OpenedSpec
  <2>3. /\ k \in GameStates /\ k.team = h.team /\ k.saving = h.saving /\ k.flock = h.flock
        /\ \A c \in Clients : k.tee[c] = "out" <=> h.tee[c] = "out"
    BY <1>5 DEF OpenedSpec
  <2> QED BY <1>6, <1>8, <2>1, <2>2, <2>3, RestKeeps
<1> QED BY <1>5, <1>9

LEMMA UnlockKeeps ==
  ASSUME NEW h, TeamsSound(h), NEW t, NEW k, k = [h EXCEPT !.locked = @ \ {t}]
  PROVE  /\ Keeps(h, k) /\ k.locked = h.locked \ {t}
         /\ k.team = h.team /\ k.tee = h.tee /\ k.race = h.race /\ k.started = h.started
         /\ k.finished = h.finished /\ k.run = h.run /\ k.ranked = h.ranked
         /\ k.flock = h.flock /\ k.practice = h.practice /\ k.state = h.state
<1>1. h \in GameStates
  BY DEF TeamsSound
<1>2. PICK lo : lo = h.locked \ {t}
  OBVIOUS
<1>3. lo \in SUBSET RealTeams
  BY <1>1, <1>2 DEF GameStates
<1>4. k = [h EXCEPT !.locked = lo]
  BY <1>2
<1>5. /\ k \in GameStates /\ k.locked = lo
      /\ k.team = h.team /\ k.tee = h.tee /\ k.race = h.race /\ k.started = h.started
      /\ k.finished = h.finished /\ k.run = h.run /\ k.ranked = h.ranked
      /\ k.flock = h.flock /\ k.practice = h.practice /\ k.state = h.state
      /\ k.saving = h.saving
  BY <1>1, <1>3, <1>4 DEF GameStates
<1>6. k.state[FLOCK] = OPEN
  BY <1>5 DEF TeamsSound
<1>7. Keeps(h, k)
  BY <1>2, <1>5, <1>6, RestKeeps
<1> QED BY <1>2, <1>5, <1>7

\* OnCharacterDeath by cases.
LEMMA DeathCases ==
  ASSUME NEW h, NEW c, NEW weapon, NEW t, t = h.team[c],
         NEW open, open = Opened(SetForceCharacterTeam(h, c, t), t),
         NEW rest, rest = KillRest([open EXCEPT !.locked = @ \ {t}], t, c),
         NEW k, k = OnCharacterDeath(h, c, weapon)
  PROVE  \/ k = DiesAlone(h, c, weapon)
         \/ /\ ~GetSaving(h, t) /\ t \in h.locked /\ t \notin h.flock /\ h.state[t] # OPEN
            /\ weapon # "game"
            /\ \/ k = open /\ TeamSize(open, t) <= 1
               \/ k = KillRest(open, t, c)
               \/ k = AllToFlock(rest, Players(rest, t))
BY Zenon DEF OnCharacterDeath, Opened

LEMMA DeathKeeps ==
  ASSUME NEW h, TeamsSound(h), NEW c \in Clients, NEW weapon,
         NEW k, k = OnCharacterDeath(h, c, weapon)
  PROVE  Keeps(h, k)
<1>1. PICK t : t = h.team[c]
  OBVIOUS
<1>2. h \in GameStates /\ t \in Teams
  BY <1>1 DEF TeamsSound, GameStates
<1>3. PICK a : a = SetForceCharacterTeam(h, c, t)
  OBVIOUS
<1>4. PICK open : open = Opened(a, t)
  OBVIOUS
<1>5. PICK b : b = [open EXCEPT !.locked = @ \ {t}]
  OBVIOUS
<1>6. PICK rest : rest = KillRest(b, t, c)
  OBVIOUS
<1>7. CASE k = DiesAlone(h, c, weapon)
  BY <1>7, DiesAloneKeeps
<1>8. ASSUME k # DiesAlone(h, c, weapon)  PROVE Keeps(h, k)
  <2>1. /\ t \in h.locked
        /\ k = open \/ k = KillRest(open, t, c) \/ k = AllToFlock(rest, Players(rest, t))
    BY <1>1, <1>3, <1>4, <1>5, <1>6, <1>8, DeathCases
  <2>2. t \in RealTeams
    BY <1>2, <2>1 DEF GameStates
  <2>3. Keeps(h, a) /\ TeamsSound(a)
    <3>1. Keeps(h, a)
      BY <1>1, <1>3, MoveKeeps
    <3> QED BY <3>1 DEF Keeps
  <2>4. Members(a, t) # {}
    <3>1. a.team = [h.team EXCEPT ![c] = t]
      BY <1>2, <1>3, MoveSound
    <3> QED BY <1>2, <3>1 DEF Members, GameStates
  <2>5. Keeps(h, open) /\ TeamsSound(open)
    <3>1. Keeps(a, open)
      BY <1>4, <2>2, <2>3, <2>4, OpenedKeeps
    <3> QED BY <2>3, <3>1, KeepsOn DEF Keeps
  <2>6. Keeps(h, b) /\ TeamsSound(b)
    <3>1. Keeps(open, b)
      BY <1>5, <2>5, UnlockKeeps
    <3> QED BY <2>5, <3>1, KeepsOn DEF Keeps
  <2>7. Keeps(h, rest) /\ TeamsSound(rest)
    <3>1. Keeps(b, rest)
      BY <1>6, <2>6, KillRestKeeps
    <3> QED BY <2>6, <3>1, KeepsOn DEF Keeps
  <2>8. CASE k = open
    BY <2>5, <2>8
  <2>9. CASE k = KillRest(open, t, c)
    <3>1. Keeps(open, k)
      BY <2>5, <2>9, KillRestKeeps
    <3> QED BY <2>5, <3>1, KeepsOn
  <2>10. CASE k = AllToFlock(rest, Players(rest, t))
    <3>1. Keeps(rest, k)
      BY <2>7, <2>10, AllAway, AliveMembers
    <3> QED BY <2>7, <3>1, KeepsOn
  <2> QED BY <2>1, <2>8, <2>9, <2>10
<1> QED BY <1>7, <1>8

LEMMA DieKeeps ==
  ASSUME NEW h, TeamsSound(h), NEW c \in Clients, h.tee[c] # "out", NEW weapon,
         NEW k, k = Die(h, c, weapon)
  PROVE  Keeps(h, k)
<1>1. PICK a : a = Killed(h, c)
  OBVIOUS
<1>2. Keeps(h, a) /\ TeamsSound(a)
  <2>1. Keeps(h, a)
    BY <1>1, KilledKeeps
  <2> QED BY <2>1 DEF Keeps
<1>3. Keeps(a, k)
  BY <1>1, <1>2, DeathKeeps DEF Die
<1> QED BY <1>2, <1>3, KeepsOn

KillTeamBody(k, n, t) == IF n \in Alive(k, t) THEN Die(k, n, "self") ELSE k

LEMMA OneOfTeamDies ==
  ASSUME NEW h, TeamsSound(h), NEW n, NEW t, NEW k, k = KillTeamBody(h, n, t)
  PROVE  Keeps(h, k)
<1>1. CASE n \in Alive(h, t)
  <2>1. n \in Clients /\ h.tee[n] # "out" /\ k = Die(h, n, "self")
    BY <1>1 DEF Alive, Members, KillTeamBody
  <2> QED BY <2>1, DieKeeps
<1>2. CASE n \notin Alive(h, t)
  BY <1>2, KeepsItself DEF KillTeamBody
<1> QED BY <1>1, <1>2

LEMMA KillTeamTurns ==
  ASSUME NEW h, TeamsSound(h), NEW t, NEW k, k = KillTeam(h, t)
  PROVE  \E turn : /\ turn[0] = h /\ k = turn[NumClients]
                    /\ \A n \in 1 .. NumClients : turn[n] = KillTeamBody(turn[n - 1], n, t)
<1> DEFINE X == {x \in GameStates : TeamsSound(x)}
           F == [y \in Nat \X X |-> KillTeamBody(y[2], y[1], t)]
<1>1. ASSUME NEW x \in X, NEW n \in Nat
      PROVE  KillTeamBody(x, n, t) \in X /\ Keeps(x, KillTeamBody(x, n, t))
  <2>1. Keeps(x, KillTeamBody(x, n, t))
    BY OneOfTeamDies
  <2> QED BY <2>1 DEF Keeps, TeamsSound
<1>2. F \in [Nat \X X -> X] /\ \A i \in Nat, x \in X : F[<<i, x>>] = KillTeamBody(x, i, t)
  BY <1>1
<1>3. h \in X
  BY DEF TeamsSound
<1>4. NumClients \in Nat
  BY TeamConstants
<1> HIDE DEF F, X
<1>5. PICK f \in [0 .. NumClients -> X] :
        f[0] = h /\ \A i \in 1 .. NumClients : f[i] = F[<<i, f[i - 1]>>]
  <2>1. TurnsFrom(h, F, X, NumClients) # {}
    BY Zenon, <1>2, <1>3, <1>4, TurnsDefined
  <2> QED BY Zenon, <2>1 DEF TurnsFrom
<1>6. f = [n \in 0 .. NumClients |->
             IF n = 0 THEN h
             ELSE LET y == f[n - 1] IN IF n \in Alive(y, t) THEN Die(y, n, "self") ELSE y]
  <2>1. ASSUME NEW n \in 0 .. NumClients, n # 0  PROVE f[n] = KillTeamBody(f[n - 1], n, t)
    <3>1. n \in 1 .. NumClients /\ n \in Nat /\ f[n - 1] \in X
      BY <1>4, <2>1
    <3> QED BY <1>2, <1>5, <3>1
  <2> QED BY <1>5, <2>1 DEF KillTeamBody
<1> DEFINE turn == CHOOSE e : e = [n \in 0 .. NumClients |->
                     IF n = 0 THEN h
                     ELSE LET y == e[n - 1] IN
                          IF n \in Alive(y, t) THEN Die(y, n, "self") ELSE y]
<1>7. turn = [n \in 0 .. NumClients |->
                IF n = 0 THEN h
                ELSE LET y == turn[n - 1] IN
                     IF n \in Alive(y, t) THEN Die(y, n, "self") ELSE y]
  BY Zenon, <1>6
<1>8. k = turn[NumClients]
  BY DEF KillTeam
<1> HIDE DEF turn
<1>9. turn[0] = h
  BY <1>4, <1>7
<1>10. ASSUME NEW n \in 1 .. NumClients  PROVE turn[n] = KillTeamBody(turn[n - 1], n, t)
  BY <1>4, <1>7 DEF KillTeamBody
<1> QED BY <1>8, <1>9, <1>10

LEMMA KillTeamKeeps ==
  ASSUME NEW h, TeamsSound(h), NEW t, NEW k, k = KillTeam(h, t)
  PROVE  Keeps(h, k)
<1>1. PICK turn : /\ turn[0] = h /\ k = turn[NumClients]
                  /\ \A n \in 1 .. NumClients : turn[n] = KillTeamBody(turn[n - 1], n, t)
  BY KillTeamTurns
<1>2. NumClients \in Nat
  BY TeamConstants
<1> DEFINE S == {n \in 0 .. NumClients : Keeps(h, turn[n])}
<1>3. 0 \in S
  BY <1>1, <1>2, KeepsItself
<1>4. ASSUME NEW n \in 1 .. NumClients, n - 1 \in S  PROVE n \in S
  <2>1. PICK x : x = turn[n - 1]
    OBVIOUS
  <2>2. Keeps(h, x) /\ TeamsSound(x) /\ turn[n] = KillTeamBody(x, n, t)
    BY <1>1, <1>4, <2>1 DEF Keeps
  <2>3. Keeps(x, turn[n])
    BY <2>2, OneOfTeamDies
  <2> QED BY <2>2, <2>3, KeepsOn
<1>5. NumClients \in S
  <2> HIDE DEF S
  <2>1. 0 .. NumClients \subseteq S
    BY <1>2, <1>3, <1>4, TurnInduction
  <2> QED BY <1>2, <2>1
<1> QED BY <1>1, <1>5

-----------------------------------------------------------------------------
(* Spawns. *)

LEMMA OnSpawnKeeps ==
  ASSUME NEW h, TeamsSound(h), NEW c \in Clients, NEW k, k = OnCharacterSpawn(h, c)
  PROVE  Keeps(h, k)
<1>1. PICK t : t = h.team[c]
  OBVIOUS
<1>2. t \in Teams
  BY <1>1 DEF TeamsSound, GameStates
<1>3. PICK a : a = ToFlock(h, c)
  OBVIOUS
<1>4. Keeps(h, a) /\ TeamsSound(a)
  <2>1. Keeps(h, a)
    BY <1>3, MoveKeeps DEF ToFlock
  <2> QED BY <2>1 DEF Keeps
<1>5. k = h \/ k = a \/ k = CheckTeamFinished(a, t)
  BY Zenon, <1>1, <1>3 DEF OnCharacterSpawn
<1>6. CASE k = CheckTeamFinished(a, t)
  <2>1. Keeps(a, k)
    BY <1>2, <1>4, <1>6, CheckKeeps
  <2> QED BY <1>4, <2>1, KeepsOn
<1> QED BY <1>4, <1>5, <1>6, KeepsItself

\* The tee c gets the condition e.
WithTee(h, c, e) == [h EXCEPT !.tee[c] = e]

TeeSpec(h, k, c, e) ==
  /\ TeamsSound(k) /\ k.tee = [h.tee EXCEPT ![c] = e] /\ k.saving = h.saving
  /\ k.team = h.team /\ k.state = h.state /\ k.run = h.run /\ k.race = h.race
  /\ k.started = h.started /\ k.finished = h.finished /\ k.ranked = h.ranked
  /\ k.practice = h.practice /\ k.flock = h.flock /\ k.locked = h.locked
  /\ h.tee[c] # "out" /\ e # "out" => Keeps(h, k)

LEMMA TeeSet ==
  ASSUME NEW h, TeamsSound(h), NEW c \in Clients, NEW e \in {"out", "spec", "dead", "alive"},
         NEW k, k = WithTee(h, c, e)
  PROVE  TeeSpec(h, k, c, e)
<1>1. h \in GameStates
  BY DEF TeamsSound
<1>2. PICK te : te = [h.tee EXCEPT ![c] = e]
  OBVIOUS
<1>3. te \in [Clients -> {"out", "spec", "dead", "alive"}]
  BY <1>1, <1>2 DEF GameStates
<1>4. k = [h EXCEPT !.tee = te]
  BY <1>2 DEF WithTee
<1>5. /\ k \in GameStates /\ k.tee = te /\ k.locked = h.locked
      /\ k.team = h.team /\ k.race = h.race /\ k.started = h.started
      /\ k.finished = h.finished /\ k.run = h.run /\ k.ranked = h.ranked
      /\ k.flock = h.flock /\ k.practice = h.practice /\ k.state = h.state
      /\ k.saving = h.saving
  BY <1>1, <1>3, <1>4 DEF GameStates
<1>6. \A u : Members(k, u) = Members(h, u)
  BY <1>5 DEF Members
<1>7. TeamsSound(k)
  BY <1>5, <1>6 DEF TeamsSound
<1>8. h.tee[c] # "out" /\ e # "out" => Keeps(h, k)
  <2>1. h.tee[c] # "out" /\ e # "out" => \A d \in Clients : k.tee[d] = "out" <=> h.tee[d] = "out"
    BY <1>1, <1>2, <1>5 DEF GameStates
  <2>2. h.tee[c] # "out" /\ e # "out" => OutStays(h, k)
    BY <1>5, <2>1 DEF OutStays
  <2>3. NoNewRun(h, k)
    BY <1>5 DEF NoNewRun, OnRun
  <2> QED BY <1>5, <1>7, <2>2, <2>3 DEF Keeps
<1> QED BY <1>2, <1>5, <1>7, <1>8 DEF TeeSpec

\* The races and the flags are set.
WithRaces(h, ra, sd, fd) == [h EXCEPT !.race = ra, !.started = sd, !.finished = fd]

RaceSpec(h, k, ra, sd, fd) ==
  /\ k.race = ra /\ k.started = sd /\ k.finished = fd
  /\ k.team = h.team /\ k.state = h.state /\ k.run = h.run /\ k.tee = h.tee
  /\ k.ranked = h.ranked /\ k.practice = h.practice /\ k.flock = h.flock
  /\ k.locked = h.locked

LEMMA RaceSet ==
  ASSUME NEW h, TeamsSound(h), NEW ra \in [Clients -> RaceStates],
         NEW sd \in SUBSET Clients, NEW fd \in SUBSET Clients,
         NEW k, k = WithRaces(h, ra, sd, fd)
  PROVE  Keeps(h, k) /\ RaceSpec(h, k, ra, sd, fd)
<1>1. h \in GameStates
  BY DEF TeamsSound
<1>2. /\ k \in GameStates /\ k.race = ra /\ k.started = sd /\ k.finished = fd
      /\ k.team = h.team /\ k.state = h.state /\ k.run = h.run /\ k.tee = h.tee
      /\ k.ranked = h.ranked /\ k.practice = h.practice /\ k.flock = h.flock
      /\ k.locked = h.locked /\ k.saving = h.saving
  BY <1>1 DEF GameStates, WithRaces
<1>3. k.state[FLOCK] = OPEN
  BY <1>2 DEF TeamsSound
<1>4. Keeps(h, k)
  BY <1>2, <1>3, RestKeeps
<1> QED BY <1>2, <1>4 DEF RaceSpec

LEMMA LastOne ==
  ASSUME NEW n \in Nat, NEW T \in SUBSET (1 .. n), T # {}
  PROVE  \E x \in T : \A y \in T : y <= x
<1> DEFINE U == {n - x : x \in T}
<1>1. U \in SUBSET Nat /\ U # {}
  <2>1. \A x \in T : n - x \in Nat
    OBVIOUS
  <2> QED BY <2>1
<1>2. PICK u \in U : \A v \in U : u <= v
  BY <1>1, SmallestNumber
<1>3. PICK x \in T : u = n - x
  OBVIOUS
<1>4. ASSUME NEW y \in T  PROVE y <= x
  <2>1. n - y \in U
    OBVIOUS
  <2> QED BY <1>2, <1>3, <2>1
<1> QED BY <1>4

LEMMA SpawnKeeps ==
  ASSUME NEW h, TeamsSound(h), NEW c \in Clients, h.tee[c] = "dead", NEW k, k = Spawn(h, c)
  PROVE  Keeps(h, k)
<1>1. PICK a : a = WithTee(h, c, "alive")
  OBVIOUS
<1>2. Keeps(h, a) /\ TeamsSound(a)
  <2>1. TeeSpec(h, a, c, "alive")
    BY <1>1, TeeSet
  <2> QED BY <2>1 DEF TeeSpec
<1>3. PICK b : b = OnCharacterSpawn(a, c)
  OBVIOUS
<1>4. Keeps(h, b) /\ TeamsSound(b)
  <2>1. Keeps(a, b)
    BY <1>2, <1>3, OnSpawnKeeps
  <2> QED BY <1>2, <2>1, KeepsOn DEF Keeps
<1> DEFINE t == b.team[c]
           mates == Alive(b, t) \ {c}
           last == CHOOSE m \in mates : \A n \in mates : n <= m
           taken == t \in b.locked /\ t \notin b.flock /\ mates # {}
           r == IF taken THEN b.race[last] ELSE "NONE"
<1>6. k = [b EXCEPT !.race[c] = r]
  BY <1>1, <1>3 DEF Spawn, WithTee
<1>7. b \in GameStates
  BY <1>4 DEF TeamsSound
<1>8. r \in RaceStates
  <2>1. mates \subseteq Clients
    BY AliveMembers
  <2>2. ASSUME mates # {}  PROVE \E m \in mates : \A n \in mates : n <= m
    <3> HIDE DEF mates
    <3>1. NumClients \in Nat /\ mates \in SUBSET (1 .. NumClients) /\ mates # {}
      BY <2>1, <2>2, TeamConstants DEF Clients
    <3> QED BY <3>1, LastOne
  <2>3. taken => last \in Clients
    BY <2>1, <2>2
  <2> HIDE DEF taken, last
  <2> QED BY <1>7, <2>3 DEF GameStates, RaceStates
<1> HIDE DEF r
<1>9. PICK ra : ra = [b.race EXCEPT ![c] = r]
  OBVIOUS
<1>10. ra \in [Clients -> RaceStates] /\ b.started \in SUBSET Clients
       /\ b.finished \in SUBSET Clients
  BY <1>7, <1>8, <1>9 DEF GameStates
<1>11. k = WithRaces(b, ra, b.started, b.finished)
  BY <1>6, <1>7, <1>9 DEF GameStates, WithRaces
<1>12. Keeps(b, k)
  BY <1>4, <1>10, <1>11, RaceSet
<1> QED BY <1>4, <1>12, KeepsOn

-----------------------------------------------------------------------------
(* The inductive invariant of TeamsConsistent.                              *)

HeldId(h, t) == IF OnRun(h, t) /\ h.saving[t].kind # "save" THEN h.run[t].id ELSE 0
SavedId(h, t) == h.saving[t].saved.run.id

\* The runs that are raced, with a worker or in the table V are different ones.
Apart(h, V) ==
  /\ \A t, u \in RealTeams : HeldId(h, t) # 0 /\ HeldId(h, t) = HeldId(h, u) => t = u
  /\ \A t, u \in RealTeams : SavedId(h, t) # 0 /\ SavedId(h, t) = SavedId(h, u) => t = u
  /\ \A v, w \in V : v.run.id = w.run.id => v = w
  /\ \A t, u \in RealTeams : HeldId(h, t) # 0 => HeldId(h, t) # SavedId(h, u)
  /\ \A t \in RealTeams, v \in V : HeldId(h, t) # v.run.id /\ SavedId(h, t) # v.run.id

SavingSound(h) ==
  \A t \in RealTeams :
    LET s == h.saving[t] IN
    /\ s.kind = "none" => s = NotSaving
    /\ s.kind = "save" /\ s.status # "done" => s.saved.run.id # 0
    /\ s.kind = "load" /\ s.status = "done" => s.saved.run.id # 0

OutInFlock(h) == \A c \in Clients : h.tee[c] = "out" => h.team[c] = FLOCK

NoIdleRun(h) ==
  \A t \in Teams : h.state[t] \notin {STARTED, STARTED_UNFINISHABLE} => h.run[t] = NoRun

SavesSound(V) == \A v \in V : v \in SavedTeams /\ v.run.id # 0

Full(h, V) ==
  TeamsSound(h) /\ Apart(h, V) /\ SavingSound(h) /\ OutInFlock(h) /\ SavesSound(V)

TeamsInv == Full(g, saves) /\ NoIdleRun(g)

LEMMA SettledFields ==
  ASSUME NEW h \in GameStates, NEW k, k = Settled(h)
  PROVE  /\ k \in GameStates
         /\ k.team = h.team /\ k.tee = h.tee /\ k.state = h.state /\ k.locked = h.locked
         /\ k.flock = h.flock /\ k.practice = h.practice /\ k.saving = h.saving
         /\ k.ranked = h.ranked
         /\ k.started = h.started \cap {c \in Clients : h.team[c] # FLOCK}
         /\ k.finished = h.finished \cap {c \in Clients : h.team[c] # FLOCK}
         /\ \A t \in Teams : k.run[t] = IF h.state[t] \in {STARTED, STARTED_UNFINISHABLE}
                                        THEN h.run[t] ELSE NoRun
         /\ \A c \in Clients : k.race[c] = IF h.tee[c] = "alive" THEN h.race[c] ELSE "NONE"
<1> DEFINE I == {c \in Clients : h.team[c] # FLOCK}
<1>1. PICK ru, ki, ra, sd, fd :
        /\ ru = [t \in Teams |-> IF h.state[t] \in {STARTED, STARTED_UNFINISHABLE}
                                 THEN h.run[t] ELSE NoRun]
        /\ ki = {t \in h.killTick : h.state[t] = STARTED_UNFINISHABLE}
        /\ ra = [c \in Clients |-> IF h.tee[c] = "alive" THEN h.race[c] ELSE "NONE"]
        /\ sd = h.started \cap I /\ fd = h.finished \cap I
  OBVIOUS
<1>2. k = [h EXCEPT !.run = ru, !.killTick = ki, !.race = ra, !.started = sd, !.finished = fd]
  BY Zenon, <1>1 DEF Settled
<1>3. ru \in [Teams -> Runs]
  <2>1. h.run \in [Teams -> Runs]
    BY DEF GameStates
  <2> QED BY <1>1, <2>1, TeamConstants
<1>4. ra \in [Clients -> RaceStates]
  <2>1. h.race \in [Clients -> RaceStates] /\ "NONE" \in RaceStates
    BY DEF GameStates, RaceStates
  <2> QED BY <1>1, <2>1
<1>5. ki \in SUBSET RealTeams /\ sd \in SUBSET Clients /\ fd \in SUBSET Clients
  BY <1>1 DEF GameStates
<1>6. /\ k \in GameStates
      /\ k.run = ru /\ k.race = ra /\ k.started = sd /\ k.finished = fd
      /\ k.team = h.team /\ k.tee = h.tee /\ k.state = h.state /\ k.locked = h.locked
      /\ k.flock = h.flock /\ k.practice = h.practice /\ k.saving = h.saving
      /\ k.ranked = h.ranked
  BY <1>2, <1>3, <1>4, <1>5 DEF GameStates
<1> QED BY <1>1, <1>6

LEMMA SettledSound ==
  ASSUME NEW h, TeamsSound(h), NEW k, k = Settled(h)
  PROVE  /\ TeamsSound(k) /\ NoIdleRun(k) /\ k.saving = h.saving
         /\ k.tee = h.tee /\ k.team = h.team
         /\ \A t \in RealTeams : HeldId(k, t) = HeldId(h, t)
<1>1. h \in GameStates
  BY DEF TeamsSound
<1>2. /\ k \in GameStates
      /\ k.team = h.team /\ k.tee = h.tee /\ k.state = h.state /\ k.locked = h.locked
      /\ k.flock = h.flock /\ k.practice = h.practice /\ k.saving = h.saving
      /\ \A t \in Teams : k.run[t] = IF h.state[t] \in {STARTED, STARTED_UNFINISHABLE}
                                     THEN h.run[t] ELSE NoRun
  BY <1>1, SettledFields
<1>3. \A t : Members(k, t) = Members(h, t)
  BY <1>2 DEF Members
<1>4. \A t \in RealTeams : h.state[t] = STARTED => k.run[t] = h.run[t]
  BY <1>2, TeamConstants
<1>5. TeamsSound(k)
  BY <1>2, <1>3, <1>4 DEF TeamsSound
<1>6. NoIdleRun(k)
  BY <1>2 DEF NoIdleRun
<1>7. \A t \in RealTeams : HeldId(k, t) = HeldId(h, t)
  <2>1. \A t \in RealTeams : OnRun(k, t) <=> OnRun(h, t)
    BY <1>2, TeamConstants DEF OnRun
  <2>2. \A t \in RealTeams : OnRun(h, t) => k.run[t] = h.run[t]
    BY <1>2, TeamConstants DEF OnRun
  <2> QED BY <1>2, <2>1, <2>2 DEF HeldId
<1> QED BY <1>2, <1>5, <1>6, <1>7

LEMMA SettledFull ==
  ASSUME NEW h, NEW V, Full(h, V), NEW k, k = Settled(h)
  PROVE  Full(k, V) /\ NoIdleRun(k)
<1>1. TeamsSound(h)
  BY DEF Full
<1>2. /\ TeamsSound(k) /\ NoIdleRun(k) /\ k.saving = h.saving
      /\ k.tee = h.tee /\ k.team = h.team
      /\ \A t \in RealTeams : HeldId(k, t) = HeldId(h, t)
  BY <1>1, SettledSound
<1>3. \A t \in RealTeams : SavedId(k, t) = SavedId(h, t)
  BY <1>2 DEF SavedId
<1>4. Apart(k, V)
  BY Zenon, <1>2, <1>3 DEF Full, Apart
<1>5. SavingSound(k) /\ OutInFlock(k)
  BY <1>2 DEF Full, SavingSound, OutInFlock
<1> QED BY <1>2, <1>4, <1>5 DEF Full

\* The runs of k are runs of h.
LEMMA FewerApart ==
  ASSUME NEW h, NEW V, Apart(h, V), SavesSound(V), NEW k,
         \A t \in RealTeams : HeldId(k, t) # 0 => HeldId(k, t) = HeldId(h, t),
         \A t \in RealTeams : SavedId(k, t) = SavedId(h, t)
  PROVE  Apart(k, V)
<1>1. \A t, u \in RealTeams : HeldId(k, t) # 0 /\ HeldId(k, t) = HeldId(k, u) => t = u
  BY DEF Apart
<1>2. \A t, u \in RealTeams : SavedId(k, t) # 0 /\ SavedId(k, t) = SavedId(k, u) => t = u
  BY DEF Apart
<1>3. \A t, u \in RealTeams : HeldId(k, t) # 0 => HeldId(k, t) # SavedId(k, u)
  BY DEF Apart
<1>4. \A t \in RealTeams, v \in V : HeldId(k, t) # v.run.id /\ SavedId(k, t) # v.run.id
  BY DEF Apart, SavesSound
<1> QED BY <1>1, <1>2, <1>3, <1>4 DEF Apart

LEMMA KeepsFull ==
  ASSUME NEW h, NEW V, Full(h, V), NEW k, Keeps(h, k)
  PROVE  Full(k, V)
<1>1. TeamsSound(k) /\ k.saving = h.saving
  BY DEF Keeps
<1>2. \A t \in RealTeams : HeldId(k, t) # 0 => HeldId(k, t) = HeldId(h, t)
  BY <1>1 DEF Keeps, NoNewRun, HeldId
<1>3. \A t \in RealTeams : SavedId(k, t) = SavedId(h, t)
  BY <1>1 DEF SavedId
<1>4. Apart(k, V)
  BY <1>2, <1>3, FewerApart DEF Full
<1>5. SavingSound(k)
  BY <1>1 DEF Full, SavingSound
<1>6. OutInFlock(k)
  BY DEF Full, Keeps, OutStays, OutInFlock
<1> QED BY <1>1, <1>4, <1>5, <1>6 DEF Full

LEMMA BecomesFull ==
  ASSUME TeamsInv, NEW h, Keeps(g, h), Becomes(h), UNCHANGED saves  PROVE TeamsInv'
<1>1. Full(h, saves)
  BY KeepsFull DEF TeamsInv
<1>2. Full(g', saves) /\ NoIdleRun(g')
  BY <1>1, SettledFull DEF Becomes
<1> QED BY <1>2 DEF TeamsInv

-----------------------------------------------------------------------------
(* The actions keep the runs apart, one by one. *)

LEMMA InvFacts ==
  ASSUME TeamsInv
  PROVE  TeamsSound(g) /\ g \in GameStates /\ \A c \in Clients : g.team[c] \in Teams
BY DEF TeamsInv, Full, TeamsSound, GameStates

LEMMA RespawnFull ==
  ASSUME TeamsInv, NEW c \in Clients, Respawn(c)  PROVE TeamsInv'
<1>1. Keeps(g, Spawn(g, c))
  BY InvFacts, SpawnKeeps DEF Respawn
<1> QED BY <1>1, BecomesFull DEF Respawn

LEMMA KillFull ==
  ASSUME TeamsInv, NEW c \in Clients, Kill(c)  PROVE TeamsInv'
<1>1. Keeps(g, Die(g, c, "self"))
  BY InvFacts, DieKeeps DEF Kill
<1> QED BY <1>1, BecomesFull DEF Kill

LEMMA SpectateFull ==
  ASSUME TeamsInv, NEW c \in Clients, Spectate(c)  PROVE TeamsInv'
<1>1. TeamsSound(g) /\ g.tee[c] # "out"
  BY InvFacts DEF Spectate
<1>2. PICK h : h = OnCharacterDeath(g, c, "game")
  OBVIOUS
<1>3. Keeps(g, h) /\ TeamsSound(h)
  <2>1. Keeps(g, h)
    BY <1>1, <1>2, DeathKeeps
  <2> QED BY <2>1 DEF Keeps
<1>4. PICK a : a = ToFlock(h, c)
  OBVIOUS
<1>5. Keeps(g, a) /\ TeamsSound(a)
  <2>1. Keeps(h, a)
    BY <1>3, <1>4, MoveKeeps DEF ToFlock
  <2> QED BY <1>3, <2>1, KeepsOn DEF Keeps
<1>6. PICK k : k = CheckTeamFinished(a, h.team[c])
  OBVIOUS
<1>7. Keeps(g, k) /\ TeamsSound(k)
  <2>1. h.team[c] \in Teams
    BY <1>3 DEF TeamsSound, GameStates
  <2>2. Keeps(a, k)
    BY <1>5, <1>6, <2>1, CheckKeeps
  <2> QED BY <1>5, <2>2, KeepsOn DEF Keeps
<1>8. PICK b : b = IF g.tee[c] = "alive" THEN Die(k, c, "game") ELSE g
  OBVIOUS
<1>9. Keeps(g, b) /\ TeamsSound(b)
  <2>1. CASE g.tee[c] = "alive"
    <3>1. k.tee[c] # "out"
      BY <1>1, <1>7 DEF Keeps, OutStays
    <3>2. Keeps(k, b)
      BY <1>7, <1>8, <2>1, <3>1, DieKeeps
    <3> QED BY <1>7, <3>2, KeepsOn DEF Keeps
  <2>2. CASE g.tee[c] # "alive"
    BY <1>1, <1>8, <2>2, KeepsItself
  <2> QED BY <2>1, <2>2
<1>10. PICK d : d = WithTee(b, c, "spec")
  OBVIOUS
<1>11. Keeps(b, d)
  <2>1. b.tee[c] # "out"
    BY <1>1, <1>9 DEF Keeps, OutStays
  <2>2. TeeSpec(b, d, c, "spec")
    BY <1>9, <1>10, TeeSet
  <2> QED BY <2>1, <2>2 DEF TeeSpec
<1>12. Keeps(g, d)
  BY <1>9, <1>11, KeepsOn
<1>13. Becomes(d) /\ UNCHANGED saves
  BY Zenon, <1>2, <1>4, <1>6, <1>8, <1>10 DEF Spectate, WithTee
<1> QED BY <1>12, <1>13, BecomesFull

LEMMA FinishTileFull ==
  ASSUME TeamsInv, NEW c \in Clients, FinishTile(c)  PROVE TeamsInv'
<1> DEFINE t == g.team[c]
<1>1. TeamsSound(g) /\ g \in GameStates /\ t \in Teams
  BY InvFacts
<1>2. PICK ra : ra = [g.race EXCEPT ![c] = "FINISHED"]
  OBVIOUS
<1>3. PICK fd : fd = g.finished \cup ({c} \cap g.started)
  OBVIOUS
<1>4. /\ ra \in [Clients -> RaceStates] /\ g.race \in [Clients -> RaceStates]
      /\ fd \in SUBSET Clients /\ g.finished \in SUBSET Clients /\ g.started \in SUBSET Clients
  BY <1>1, <1>2, <1>3 DEF GameStates, RaceStates
<1>5. PICK a : a = WithRaces(g, ra, g.started, g.finished)
  OBVIOUS
<1>6. PICK b : b = WithRaces(g, g.race, g.started, fd)
  OBVIOUS
<1>7. Keeps(g, a)
  BY <1>1, <1>4, <1>5, RaceSet
<1>8. Keeps(g, b) /\ TeamsSound(b)
  <2>1. Keeps(g, b)
    BY <1>1, <1>4, <1>6, RaceSet
  <2> QED BY <2>1 DEF Keeps
<1>9. [g EXCEPT !.race[c] = "FINISHED"] = a
  BY <1>1, <1>2, <1>5 DEF WithRaces, GameStates
<1>10. [g EXCEPT !.finished = @ \cup ({c} \cap g.started)] = b
  BY <1>1, <1>3, <1>6 DEF WithRaces, GameStates
<1>11. PICK k : k = CheckTeamFinished(b, t)
  OBVIOUS
<1>12. Keeps(g, k)
  <2>1. Keeps(b, k)
    BY <1>1, <1>8, <1>11, CheckKeeps
  <2> QED BY <1>8, <2>1, KeepsOn
<1>13. OnCharacterFinish(g, c) = a \/ OnCharacterFinish(g, c) = k
  BY <1>9, <1>10, <1>11 DEF OnCharacterFinish
<1> QED BY <1>7, <1>12, <1>13, BecomesFull DEF FinishTile

LEMMA UnlockTileFull ==
  ASSUME TeamsInv, NEW c \in Clients, UnlockTile(c)  PROVE TeamsInv'
<1>1. PICK h : h = [g EXCEPT !.locked = @ \ {g.team[c]}]
  OBVIOUS
<1>2. Keeps(g, h)
  BY <1>1, InvFacts, UnlockKeeps
<1> QED BY <1>1, <1>2, BecomesFull DEF UnlockTile

LEMMA MemberTeam ==
  ASSUME NEW h, TeamsSound(h), NEW c \in Clients, h.team[c] # FLOCK
  PROVE  h.team[c] \in RealTeams /\ h.state[h.team[c]] # EMPTY
<1>1. h.team[c] \in RealTeams
  BY TeamConstants DEF TeamsSound, GameStates
<1>2. c \in Members(h, h.team[c])
  BY DEF Members
<1> QED BY <1>1, <1>2 DEF TeamsSound

LEMMA LockFull ==
  ASSUME TeamsInv, NEW c \in Clients, Lock(c)  PROVE TeamsInv'
<1> DEFINE t == g.team[c]
<1>1. TeamsSound(g) /\ g \in GameStates
  BY InvFacts
<1>2. t \in RealTeams /\ g.state[t] # EMPTY
  BY <1>1, MemberTeam DEF Lock
<1>3. PICK lo : lo = g.locked \cup {t}
  OBVIOUS
<1>4. lo \in SUBSET RealTeams
  BY <1>1, <1>2, <1>3 DEF GameStates
<1>5. PICK h : h = [g EXCEPT !.locked = lo]
  OBVIOUS
<1>6. /\ h \in GameStates /\ h.locked = lo
      /\ h.team = g.team /\ h.state = g.state /\ h.run = g.run /\ h.tee = g.tee
      /\ h.practice = g.practice /\ h.flock = g.flock /\ h.saving = g.saving
  BY <1>1, <1>4, <1>5 DEF GameStates
<1>7. h.state[FLOCK] = OPEN
  BY <1>1, <1>6 DEF TeamsSound
<1>8. \A u \in RealTeams : u \in h.locked \cup h.practice =>
        u \in g.locked \cup g.practice \/ g.state[u] # EMPTY
  BY <1>2, <1>3, <1>6
<1>9. Keeps(g, h)
  BY <1>1, <1>6, <1>7, <1>8, RestKeeps
<1>10. Becomes(h) /\ UNCHANGED saves
  BY <1>3, <1>5 DEF Lock
<1> QED BY <1>9, <1>10, BecomesFull

LEMMA PracticeFull ==
  ASSUME TeamsInv, NEW c \in Clients, Practice(c)  PROVE TeamsInv'
<1> DEFINE t == g.team[c]
<1>1. TeamsSound(g) /\ g \in GameStates
  BY InvFacts
<1>2. t \in RealTeams /\ g.state[t] # EMPTY
  BY <1>1, MemberTeam DEF Practice
<1>3. g.run[t] \in Runs
  BY <1>1, <1>2, TeamConstants DEF GameStates
<1>4. PICK q : q = IF g.run[t].id = 0 THEN g.run[t] ELSE Marked(g.run[t], "practiced")
  OBVIOUS
<1>5. q \in Runs /\ q.id = g.run[t].id
  BY <1>3, <1>4, MarkedRun
<1>6. PICK pr, ru : pr = g.practice \cup {t} /\ ru = [g.run EXCEPT ![t] = q]
  OBVIOUS
<1>7. /\ pr \in SUBSET RealTeams /\ ru \in [Teams -> Runs]
      /\ \A u \in Teams : ru[u].id = g.run[u].id
  BY <1>1, <1>2, <1>5, <1>6 DEF GameStates
<1>8. PICK h : h = [g EXCEPT !.practice = pr, !.run = ru]
  OBVIOUS
<1>9. /\ h \in GameStates /\ h.practice = pr /\ h.run = ru
      /\ h.team = g.team /\ h.state = g.state /\ h.tee = g.tee
      /\ h.locked = g.locked /\ h.flock = g.flock /\ h.saving = g.saving
  BY <1>1, <1>7, <1>8 DEF GameStates
<1>10. h.state[FLOCK] = OPEN
  BY <1>1, <1>9 DEF TeamsSound
<1>11. \A u \in RealTeams : u \in h.locked \cup h.practice =>
         u \in g.locked \cup g.practice \/ g.state[u] # EMPTY
  BY <1>2, <1>6, <1>9
<1>12. \A u \in RealTeams : h.run[u].id = g.run[u].id
  BY <1>7, <1>9, TeamConstants
<1>13. Keeps(g, h)
  BY <1>1, <1>9, <1>10, <1>11, <1>12, RestKeeps
<1>14. h = [g EXCEPT !.practice = @ \cup {t},
                     !.run[t] = IF @.id = 0 THEN @ ELSE Marked(@, "practiced")]
  BY <1>1, <1>4, <1>6, <1>8 DEF GameStates
<1>15. Becomes(h) /\ UNCHANGED saves
  BY <1>14 DEF Practice
<1> QED BY <1>13, <1>15, BecomesFull

LEMMA LessPractice ==
  ASSUME NEW h, TeamsSound(h), NEW t, NEW k, k = [h EXCEPT !.practice = @ \ {t}]
  PROVE  /\ Keeps(h, k) /\ k.practice = h.practice \ {t}
         /\ k.team = h.team /\ k.tee = h.tee /\ k.race = h.race /\ k.started = h.started
         /\ k.finished = h.finished /\ k.run = h.run /\ k.ranked = h.ranked
         /\ k.flock = h.flock /\ k.locked = h.locked /\ k.state = h.state
<1>1. h \in GameStates
  BY DEF TeamsSound
<1>2. PICK pr : pr = h.practice \ {t}
  OBVIOUS
<1>3. pr \in SUBSET RealTeams
  BY <1>1, <1>2 DEF GameStates
<1>4. k = [h EXCEPT !.practice = pr]
  BY <1>2
<1>5. /\ k \in GameStates /\ k.practice = pr
      /\ k.team = h.team /\ k.tee = h.tee /\ k.race = h.race /\ k.started = h.started
      /\ k.finished = h.finished /\ k.run = h.run /\ k.ranked = h.ranked
      /\ k.flock = h.flock /\ k.locked = h.locked /\ k.state = h.state
      /\ k.saving = h.saving
  BY <1>1, <1>3, <1>4 DEF GameStates
<1>6. k.state[FLOCK] = OPEN
  BY <1>5 DEF TeamsSound
<1>7. Keeps(h, k)
  BY <1>2, <1>5, <1>6, RestKeeps
<1> QED BY <1>2, <1>5, <1>7

LEMMA UnPracticeFull ==
  ASSUME TeamsInv, NEW c \in Clients, UnPractice(c)  PROVE TeamsInv'
<1> DEFINE t == g.team[c]
<1>1. PICK a : a = KillTeam(g, t)
  OBVIOUS
<1>2. Keeps(g, a) /\ TeamsSound(a)
  <2>1. Keeps(g, a)
    BY <1>1, InvFacts, KillTeamKeeps
  <2> QED BY <2>1 DEF Keeps
<1>3. PICK b : b = [a EXCEPT !.practice = @ \ {t}]
  OBVIOUS
<1>4. Keeps(a, b)
  BY <1>2, <1>3, LessPractice
<1>5. Keeps(g, b)
  BY <1>2, <1>4, KeepsOn
<1>6. Becomes(b) /\ UNCHANGED saves
  BY Zenon, <1>1, <1>3 DEF UnPractice
<1> QED BY <1>5, <1>6, BecomesFull

LEMMA SwapFull ==
  ASSUME TeamsInv, NEW c \in Clients, NEW d \in Clients, Swap(c, d)  PROVE TeamsInv'
<1> DEFINE other(m) == IF m = c THEN d ELSE IF m = d THEN c ELSE m
<1>1. TeamsSound(g) /\ g \in GameStates
  BY InvFacts
<1>2. PICK ra, sd, fd : /\ ra = [m \in Clients |-> g.race[other(m)]]
                        /\ sd = {m \in Clients : other(m) \in g.started}
                        /\ fd = {m \in Clients : other(m) \in g.finished}
  OBVIOUS
<1>3. ra \in [Clients -> RaceStates] /\ sd \in SUBSET Clients /\ fd \in SUBSET Clients
  BY <1>1, <1>2 DEF GameStates
<1>4. PICK h : h = WithRaces(g, ra, sd, fd)
  OBVIOUS
<1>5. Keeps(g, h)
  BY <1>1, <1>3, <1>4, RaceSet
<1>6. Becomes(h) /\ UNCHANGED saves
  <2>1. h = [g EXCEPT !.race = [m \in Clients |-> @[other(m)]],
                      !.started = {m \in Clients : other(m) \in @},
                      !.finished = {m \in Clients : other(m) \in @}]
    BY <1>1, <1>2, <1>4 DEF WithRaces, GameStates
  <2> QED BY Zenon, <2>1 DEF Swap
<1> QED BY <1>5, <1>6, BecomesFull

LEMMA TickFull ==
  ASSUME TeamsInv, NEW t \in RealTeams, Tick(t)  PROVE TeamsInv'
<1>1. TeamsSound(g) /\ g \in GameStates
  BY InvFacts
<1>2. PICK ki : ki = g.killTick \ {t}
  OBVIOUS
<1>3. ki \in SUBSET RealTeams
  BY <1>1, <1>2 DEF GameStates
<1>4. PICK a : a = [g EXCEPT !.killTick = ki]
  OBVIOUS
<1>5. /\ a \in GameStates
      /\ a.team = g.team /\ a.tee = g.tee /\ a.run = g.run /\ a.practice = g.practice
      /\ a.flock = g.flock /\ a.locked = g.locked /\ a.state = g.state
      /\ a.saving = g.saving
  BY <1>1, <1>3, <1>4 DEF GameStates
<1>6. a.state[FLOCK] = OPEN
  BY <1>1, <1>5 DEF TeamsSound
<1>7. Keeps(g, a)
  BY <1>1, <1>5, <1>6, RestKeeps
<1>8. PICK b : b = KillTeam(g, t)
  OBVIOUS
<1>9. Keeps(g, b)
  BY <1>1, <1>8, KillTeamKeeps
<1>10. (Becomes(a) \/ Becomes(b)) /\ UNCHANGED saves
  BY <1>2, <1>4, <1>8 DEF Tick
<1> QED BY <1>7, <1>9, <1>10, BecomesFull

\* Steps that bring players into the game or into a team.
LEMMA FullOn ==
  ASSUME NEW h, NEW V, Full(h, V), NEW k, TeamsSound(k), k.saving = h.saving,
         NoNewRun(h, k), OutInFlock(k)
  PROVE  Full(k, V)
<1>1. \A t \in RealTeams : HeldId(k, t) # 0 => HeldId(k, t) = HeldId(h, t)
  BY DEF NoNewRun, HeldId
<1>2. \A t \in RealTeams : SavedId(k, t) = SavedId(h, t)
  BY DEF SavedId
<1>3. Apart(k, V)
  BY <1>1, <1>2, FewerApart DEF Full
<1>4. SavingSound(k)
  BY DEF Full, SavingSound
<1> QED BY <1>3, <1>4 DEF Full

LEMMA BecomesFullOn ==
  ASSUME TeamsInv, NEW h, TeamsSound(h), h.saving = g.saving, NoNewRun(g, h), OutInFlock(h),
         Becomes(h), UNCHANGED saves
  PROVE  TeamsInv'
<1>1. Full(h, saves)
  BY FullOn DEF TeamsInv
<1>2. Full(g', saves) /\ NoIdleRun(g')
  BY <1>1, SettledFull DEF Becomes
<1> QED BY <1>2 DEF TeamsInv

LEMMA EnterFull ==
  ASSUME TeamsInv, NEW c \in Clients, Enter(c)  PROVE TeamsInv'
<1>1. PICK h : h = WithTee(g, c, "dead")
  OBVIOUS
<1>2. /\ TeamsSound(h) /\ h.tee = [g.tee EXCEPT ![c] = "dead"] /\ h.saving = g.saving
      /\ h.team = g.team /\ h.state = g.state /\ h.run = g.run
  <2>1. TeeSpec(g, h, c, "dead")
    BY <1>1, InvFacts, TeeSet
  <2> QED BY <2>1 DEF TeeSpec
<1>3. NoNewRun(g, h)
  BY <1>2 DEF NoNewRun, OnRun
<1>4. OutInFlock(h)
  BY <1>2, InvFacts DEF OutInFlock, TeamsInv, Full, GameStates
<1>5. Becomes(h) /\ UNCHANGED saves
  BY <1>1 DEF Enter, WithTee
<1> QED BY <1>2, <1>3, <1>4, <1>5, BecomesFullOn

LEMMA JoinFull ==
  ASSUME TeamsInv, NEW c \in Clients, NEW t \in Teams, Join(c, t)  PROVE TeamsInv'
<1>1. PICK h : h = SetForceCharacterTeam(g, c, t)
  OBVIOUS
<1>2. /\ TeamsSound(h) /\ NoNewRun(g, h)
      /\ h.saving = g.saving /\ h.tee = g.tee /\ h.team = [g.team EXCEPT ![c] = t]
  BY <1>1, InvFacts, MoveSound
<1>3. g.tee[c] = "alive"
  BY DEF Join, CanJoinTeam
<1>4. OutInFlock(h)
  BY <1>2, <1>3, InvFacts DEF OutInFlock, TeamsInv, Full, GameStates
<1>5. Becomes(h) /\ UNCHANGED saves
  BY <1>1 DEF Join
<1> QED BY <1>2, <1>4, <1>5, BecomesFullOn

LEMMA LeaveFull ==
  ASSUME TeamsInv, NEW c \in Clients, Leave(c)  PROVE TeamsInv'
<1>1. PICK h : h = IF g.tee[c] = "alive" THEN Die(g, c, "game") ELSE g
  OBVIOUS
<1>2. Keeps(g, h) /\ TeamsSound(h)
  <2>1. CASE g.tee[c] = "alive"
    <3>1. Keeps(g, h)
      BY <1>1, <2>1, InvFacts, DieKeeps
    <3> QED BY <3>1 DEF Keeps
  <2>2. CASE g.tee[c] # "alive"
    BY <1>1, <2>2, InvFacts, KeepsItself
  <2> QED BY <2>1, <2>2
<1>3. PICK a : a = WithTee(h, c, "out")
  OBVIOUS
<1>4. /\ TeamsSound(a) /\ a.tee = [h.tee EXCEPT ![c] = "out"] /\ a.saving = h.saving
      /\ a.team = h.team /\ a.state = h.state /\ a.run = h.run
  <2>1. TeeSpec(h, a, c, "out")
    BY <1>2, <1>3, TeeSet
  <2> QED BY <2>1 DEF TeeSpec
<1>5. PICK b : b = ToFlock(a, c)
  OBVIOUS
<1>6. /\ TeamsSound(b) /\ NoNewRun(a, b)
      /\ b.saving = a.saving /\ b.tee = a.tee /\ b.team = [a.team EXCEPT ![c] = FLOCK]
  BY <1>4, <1>5, MoveSound, TeamConstants DEF ToFlock
<1>7. NoNewRun(g, b)
  BY <1>2, <1>4, <1>6 DEF Keeps, NoNewRun, OnRun
<1>8. OutInFlock(b)
  <2>1. OutInFlock(h)
    BY <1>2 DEF Keeps, OutStays, OutInFlock, TeamsInv, Full
  <2> QED BY <2>1, <1>2, <1>4, <1>6 DEF OutInFlock, TeamsSound, GameStates
<1>9. b.saving = g.saving
  BY <1>2, <1>4, <1>6 DEF Keeps
<1>10. Becomes(b) /\ UNCHANGED saves
  BY Zenon, <1>1, <1>3, <1>5 DEF Leave, WithTee
<1> QED BY <1>6, <1>7, <1>8, <1>9, <1>10, BecomesFullOn

LEMMA Team0ModeFull ==
  ASSUME TeamsInv, NEW c \in Clients, Team0Mode(c)  PROVE TeamsInv'
<1> DEFINE t == g.team[c]
<1>1. TeamsSound(g) /\ g \in GameStates /\ g.state[t] = OPEN
  BY InvFacts DEF Team0Mode
<1>2. t \in RealTeams
  BY <1>1, MemberTeam DEF Team0Mode
<1>3. PICK fl : fl = IF t \in g.flock THEN g.flock \ {t} ELSE g.flock \cup {t}
  OBVIOUS
<1>4. fl \in SUBSET RealTeams /\ \A u \in RealTeams : u # t => (u \in fl <=> u \in g.flock)
  BY <1>1, <1>2, <1>3 DEF GameStates
<1>5. PICK h : h = [g EXCEPT !.flock = fl]
  OBVIOUS
<1>6. /\ h \in GameStates /\ h.flock = fl
      /\ h.team = g.team /\ h.tee = g.tee /\ h.run = g.run /\ h.practice = g.practice
      /\ h.locked = g.locked /\ h.state = g.state /\ h.saving = g.saving
  BY <1>1, <1>4, <1>5 DEF GameStates
<1>7. \A u : Members(h, u) = Members(g, u)
  BY <1>6 DEF Members
<1>8. \A u \in RealTeams : h.state[u] = EMPTY => u # t
  BY <1>1, <1>6 DEF OPEN, EMPTY
<1>9. \A u \in RealTeams : h.state[u] = STARTED => u # t
  BY <1>1, <1>6 DEF OPEN, STARTED
<1>10. TeamsSound(h)
  BY <1>1, <1>4, <1>6, <1>7, <1>8, <1>9 DEF TeamsSound
<1>11. NoNewRun(g, h) /\ OutInFlock(h)
  BY <1>6 DEF NoNewRun, OnRun, OutInFlock, TeamsInv, Full
<1>12. Becomes(h) /\ UNCHANGED saves
  <2>1. h = [g EXCEPT !.flock = IF t \in @ THEN @ \ {t} ELSE @ \cup {t}]
    BY <1>3, <1>5
  <2> QED BY Zenon, <2>1 DEF Team0Mode
<1> QED BY <1>6, <1>10, <1>11, <1>12, BecomesFullOn

LEMMA FreshNumber ==
  ASSUME TeamsInv, UsedRuns # 1 .. MaxRuns
  PROVE  /\ FreeRun \in 1 .. MaxRuns
         /\ \A t \in RealTeams : FreeRun # HeldId(g, t) /\ FreeRun # SavedId(g, t)
         /\ \A v \in saves : FreeRun # v.run.id
<1>1. g \in GameStates /\ SavesSound(saves)
  BY InvFacts DEF TeamsInv, Full
<1>2. Copies \subseteq Runs
  <2>1. \A t \in RealTeams : g.run[t] \in Runs /\ g.saving[t].saved.run \in Runs
    BY <1>1, TeamConstants DEF GameStates, Savings, SavedTeams
  <2>2. \A v \in saves : v.run \in Runs
    BY <1>1 DEF SavesSound, SavedTeams
  <2> QED BY <2>1, <2>2 DEF Copies
<1>3. UsedRuns \subseteq 1 .. MaxRuns
  <2>1. \A r \in Copies \cup g.ranked : r.id \in 0 .. MaxRuns
    BY <1>1, <1>2 DEF GameStates, Runs
  <2> QED BY <2>1, TeamConstants DEF UsedRuns
<1>4. \E i \in 1 .. MaxRuns : i \notin UsedRuns
  BY <1>3
<1>5. FreeRun \in 1 .. MaxRuns /\ FreeRun \notin UsedRuns
  BY Zenon, <1>4 DEF FreeRun
<1>6. FreeRun # 0
  BY <1>5, TeamConstants
<1>7. \A r \in Copies : FreeRun # r.id
  BY <1>5, <1>6 DEF UsedRuns
<1>8. \A t \in RealTeams : FreeRun # g.run[t].id /\ FreeRun # g.saving[t].saved.run.id
  BY <1>7 DEF Copies
<1>9. \A v \in saves : FreeRun # v.run.id
  BY <1>7 DEF Copies
<1> QED BY <1>5, <1>6, <1>8, <1>9 DEF HeldId, SavedId

\* A tee of team 0 or of a team in its mode starts for itself.
StartsAlone(h, c) ==
  LET t == h.team[c] IN
  [h EXCEPT !.started = @ \cup {c}, !.race[c] = "STARTED",
            !.state[t] = IF t # FLOCK /\ @ < STARTED THEN STARTED ELSE @]

AloneSpec(h, k, c) ==
  /\ k.team = h.team /\ k.tee = h.tee /\ k.run = h.run /\ k.practice = h.practice
  /\ k.locked = h.locked /\ k.flock = h.flock /\ k.saving = h.saving
  /\ k.ranked = h.ranked /\ k.finished = h.finished
  /\ k.race = [h.race EXCEPT ![c] = "STARTED"]
  /\ \A u \in Teams :
       \/ k.state[u] = h.state[u]
       \/ k.state[u] = STARTED /\ u \in h.flock /\ u = h.team[c] /\ h.state[u] < STARTED
  /\ h.team[c] # FLOCK => ~(k.state[h.team[c]] < STARTED)

LEMMA AloneSound ==
  ASSUME NEW h, TeamsSound(h), NoIdleRun(h), NEW c \in Clients,
         h.team[c] = FLOCK \/ h.team[c] \in h.flock, NEW k, k = StartsAlone(h, c)
  PROVE  TeamsSound(k) /\ NoNewRun(h, k) /\ AloneSpec(h, k, c)
<1> DEFINE t == h.team[c]
<1>1. h \in GameStates /\ t \in Teams
  BY DEF TeamsSound, GameStates
<1>2. PICK sd : sd = h.started \cup {c}
  OBVIOUS
<1>3. PICK ra : ra = [h.race EXCEPT ![c] = "STARTED"]
  OBVIOUS
<1>4. PICK x : x = IF t # FLOCK /\ h.state[t] < STARTED THEN STARTED ELSE h.state[t]
  OBVIOUS
<1>5. PICK st : st = [h.state EXCEPT ![t] = x]
  OBVIOUS
<1>6. sd \in SUBSET Clients /\ ra \in [Clients -> RaceStates]
  BY <1>1, <1>2, <1>3 DEF GameStates, RaceStates
<1>7. st \in [Teams -> EMPTY .. FINISHED]
  <2>1. h.state \in [Teams -> EMPTY .. FINISHED]
    BY <1>1 DEF GameStates
  <2>2. STARTED \in EMPTY .. FINISHED
    BY DEF EMPTY, STARTED, FINISHED
  <2> QED BY <1>1, <1>4, <1>5, <2>1, <2>2
<1>8. k = [h EXCEPT !.started = sd, !.race = ra, !.state = st]
  BY <1>1, <1>2, <1>3, <1>4, <1>5 DEF StartsAlone, GameStates
<1>9. /\ k \in GameStates /\ k.state = st
      /\ k.team = h.team /\ k.tee = h.tee /\ k.run = h.run /\ k.practice = h.practice
      /\ k.locked = h.locked /\ k.flock = h.flock /\ k.saving = h.saving
      /\ k.ranked = h.ranked /\ k.finished = h.finished /\ k.race = ra
  BY <1>1, <1>6, <1>7, <1>8 DEF GameStates
<1>10. \A u \in Teams : st[u] = IF u = t THEN x ELSE h.state[u]
  BY <1>1, <1>5 DEF GameStates
<1>11. x = h.state[t] \/ (x = STARTED /\ h.state[t] < STARTED /\ t # FLOCK /\ t \in h.flock)
  BY <1>4
<1>12. \A u \in Teams : k.state[u] = h.state[u] \/ (k.state[u] = STARTED /\ u \in h.flock
                          /\ u = t /\ u # FLOCK /\ h.state[u] < STARTED)
  BY <1>9, <1>10, <1>11
<1>13. AloneSpec(h, k, c)
  <2>1. t # FLOCK => ~(k.state[t] < STARTED)
    <3>1. k.state[t] = x
      BY <1>1, <1>9, <1>10
    <3> QED BY <1>4, <3>1 DEF STARTED
  <2> QED BY <1>3, <1>9, <1>12, <2>1 DEF AloneSpec
<1>14. \A u : Members(k, u) = Members(h, u)
  BY <1>9 DEF Members
<1>15. t # FLOCK => h.state[t] # EMPTY
  BY MemberTeam
<1>16. \A u \in RealTeams : k.state[u] = EMPTY <=> h.state[u] = EMPTY
  BY <1>12, <1>15, TeamConstants DEF STARTED, EMPTY
<1>17. k.state[FLOCK] = OPEN
  BY <1>12, TeamConstants DEF TeamsSound
<1>18. \A u \in RealTeams : k.state[u] = STARTED /\ u \notin k.flock => k.run[u].id # 0
  BY <1>9, <1>12, TeamConstants DEF TeamsSound
<1>19. TeamsSound(k)
  BY <1>9, <1>14, <1>16, <1>17, <1>18 DEF TeamsSound
<1>20. NoNewRun(h, k)
  <2>1. ASSUME NEW u \in RealTeams, OnRun(k, u), k.state[u] # h.state[u]  PROVE FALSE
    <3>1. h.state[u] < STARTED
      BY <1>12, <2>1, TeamConstants
    <3>2. h.state[u] \notin {STARTED, STARTED_UNFINISHABLE}
      BY <3>1 DEF STARTED, STARTED_UNFINISHABLE
    <3>3. h.run[u] = NoRun
      BY <3>2, TeamConstants DEF NoIdleRun
    <3> QED BY <3>3, <1>9, <2>1, TeamConstants DEF OnRun
  <2> QED BY <1>9, <2>1 DEF NoNewRun, OnRun
<1> QED BY <1>13, <1>19, <1>20

\* The first start of a team.
Begins(h, c) ==
  LET t == h.team[c] IN
  [h EXCEPT
    !.started = @ \cup {c}, !.state[t] = STARTED, !.killTick = @ \ {t},
    !.race = [m \in Clients |-> IF m \in Alive(h, t) THEN "STARTED" ELSE @[m]],
    !.run[t] = [id |-> FreeRun,
                marks |-> {m \in {"practiced", "stale"} :
                  \/ m = "practiced" /\ t \in h.practice
                  \/ m = "stale" /\ Members(h, t) \cap h.finished # {}}]]

BeginSpec(h, k, c, t) ==
  /\ k \in GameStates
  /\ k.team = h.team /\ k.tee = h.tee /\ k.practice = h.practice
  /\ k.locked = h.locked /\ k.flock = h.flock /\ k.saving = h.saving
  /\ k.ranked = h.ranked /\ k.finished = h.finished /\ k.started = h.started \cup {c}
  /\ k.state = [h.state EXCEPT ![t] = STARTED]
  /\ \A u \in Teams : u # t => k.run[u] = h.run[u]
  /\ k.run[t].id = FreeRun
  /\ "practiced" \in k.run[t].marks <=> t \in h.practice
  /\ "stale" \in k.run[t].marks <=> Members(h, t) \cap h.finished # {}
  /\ "deserted" \notin k.run[t].marks
  /\ \A m \in Clients : k.race[m] = IF m \in Alive(h, t) THEN "STARTED" ELSE h.race[m]

LEMMA BeginFields ==
  ASSUME NEW h \in GameStates, NEW c \in Clients, FreeRun \in 1 .. MaxRuns,
         NEW t \in RealTeams, t = h.team[c], NEW k, k = Begins(h, c)
  PROVE  BeginSpec(h, k, c, t)
<1>1. t \in Teams
  BY TeamConstants
<1>2. PICK sd : sd = h.started \cup {c}
  OBVIOUS
<1>3. PICK st : st = [h.state EXCEPT ![t] = STARTED]
  OBVIOUS
<1>4. PICK ki : ki = h.killTick \ {t}
  OBVIOUS
<1>5. PICK ra : ra = [m \in Clients |-> IF m \in Alive(h, t) THEN "STARTED" ELSE h.race[m]]
  OBVIOUS
<1>6. PICK ma : ma = {m \in {"practiced", "stale"} :
                        \/ m = "practiced" /\ t \in h.practice
                        \/ m = "stale" /\ Members(h, t) \cap h.finished # {}}
  OBVIOUS
<1>7. PICK q : q = [id |-> FreeRun, marks |-> ma]
  OBVIOUS
<1>8. PICK ru : ru = [h.run EXCEPT ![t] = q]
  OBVIOUS
<1>9. k = [h EXCEPT !.started = sd, !.state = st, !.killTick = ki, !.race = ra, !.run = ru]
  BY Zenon, <1>2, <1>3, <1>4, <1>5, <1>6, <1>7, <1>8 DEF Begins
<1>10. /\ q \in Runs /\ q.id = FreeRun /\ q.marks = ma
       /\ "practiced" \in ma <=> t \in h.practice
       /\ "stale" \in ma <=> Members(h, t) \cap h.finished # {}
       /\ "deserted" \notin ma
  <2>1. FreeRun \in 0 .. MaxRuns
    BY TeamConstants
  <2>2. ma \in SUBSET {"practiced", "deserted", "stale"}
    BY <1>6
  <2>3. /\ "practiced" \in ma <=> t \in h.practice
        /\ "stale" \in ma <=> Members(h, t) \cap h.finished # {}
        /\ "deserted" \notin ma
    BY <1>6
  <2> QED BY <1>7, <2>1, <2>2, <2>3 DEF Runs
<1>11. st \in [Teams -> EMPTY .. FINISHED]
  <2>1. h.state \in [Teams -> EMPTY .. FINISHED]
    BY DEF GameStates
  <2>2. STARTED \in EMPTY .. FINISHED
    BY DEF EMPTY, STARTED, FINISHED
  <2> QED BY <1>3, <2>1, <2>2
<1>12. /\ ra \in [Clients -> RaceStates]
       /\ \A m \in Clients : ra[m] = IF m \in Alive(h, t) THEN "STARTED" ELSE h.race[m]
  BY <1>5 DEF GameStates, RaceStates
<1>13. ru \in [Teams -> Runs] /\ ru[t] = q /\ \A u \in Teams : u # t => ru[u] = h.run[u]
  BY <1>1, <1>8, <1>10 DEF GameStates
<1>14. sd \in SUBSET Clients /\ ki \in SUBSET RealTeams
  BY <1>2, <1>4 DEF GameStates
<1>15. /\ k \in GameStates
       /\ k.started = sd /\ k.state = st /\ k.race = ra /\ k.run = ru
       /\ k.team = h.team /\ k.tee = h.tee /\ k.practice = h.practice
       /\ k.locked = h.locked /\ k.flock = h.flock /\ k.saving = h.saving
       /\ k.ranked = h.ranked /\ k.finished = h.finished
  BY <1>9, <1>11, <1>12, <1>13, <1>14 DEF GameStates
<1> QED BY <1>2, <1>3, <1>10, <1>12, <1>13, <1>15 DEF BeginSpec

LEMMA BeginFull ==
  ASSUME TeamsInv, NEW c \in Clients, UsedRuns # 1 .. MaxRuns,
         NEW t \in RealTeams, t = g.team[c], NEW h, h = Begins(g, c)
  PROVE  BeginSpec(g, h, c, t) /\ Full(h, saves)
<1>1. TeamsSound(g) /\ g \in GameStates
  BY InvFacts
<1>2. PICK r : r = FreeRun
  OBVIOUS
<1>3. /\ r \in 1 .. MaxRuns /\ r \in Nat \ {0}
      /\ \A u \in RealTeams : r # HeldId(g, u) /\ r # SavedId(g, u)
      /\ \A v \in saves : r # v.run.id
  BY <1>2, FreshNumber, TeamConstants
<1>4. BeginSpec(g, h, c, t)
  BY <1>1, <1>2, <1>3, BeginFields
<1>5. /\ h \in GameStates
      /\ h.team = g.team /\ h.tee = g.tee /\ h.practice = g.practice
      /\ h.locked = g.locked /\ h.flock = g.flock /\ h.saving = g.saving
      /\ \A u \in Teams : h.state[u] = IF u = t THEN STARTED ELSE g.state[u]
      /\ \A u \in Teams : u # t => h.run[u] = g.run[u]
      /\ h.run[t].id = r
  BY <1>1, <1>2, <1>4 DEF BeginSpec, GameStates
<1>6. \A u : Members(h, u) = Members(g, u)
  BY <1>5 DEF Members
<1>7. g.state[t] # EMPTY
  BY <1>1, MemberTeam, TeamConstants
<1>8. \A u \in RealTeams : h.state[u] = EMPTY <=> g.state[u] = EMPTY
  BY <1>5, <1>7, TeamConstants DEF STARTED, EMPTY
<1>9. h.state[FLOCK] = OPEN
  BY <1>1, <1>5, TeamConstants DEF TeamsSound
<1>10. \A u \in RealTeams : h.state[u] = STARTED /\ u \notin h.flock => h.run[u].id # 0
  BY <1>1, <1>3, <1>5, TeamConstants DEF TeamsSound
<1>11. TeamsSound(h)
  BY <1>1, <1>5, <1>6, <1>8, <1>9, <1>10 DEF TeamsSound
<1>12. \A u \in RealTeams : u # t => HeldId(h, u) = HeldId(g, u)
  BY <1>5, TeamConstants DEF HeldId, OnRun
<1>13. \A u \in RealTeams : SavedId(h, u) = SavedId(g, u)
  BY <1>5 DEF SavedId
<1>14. HeldId(h, t) \in {0, r}
  BY <1>5 DEF HeldId
<1>15. Apart(h, saves)
  <2>1. \A u, w \in RealTeams : HeldId(h, u) # 0 /\ HeldId(h, u) = HeldId(h, w) => u = w
    BY <1>3, <1>12, <1>14 DEF TeamsInv, Full, Apart
  <2>2. \A u, w \in RealTeams : HeldId(h, u) # 0 => HeldId(h, u) # SavedId(h, w)
    BY <1>3, <1>12, <1>13, <1>14 DEF TeamsInv, Full, Apart
  <2>3. \A u \in RealTeams, v \in saves : HeldId(h, u) # v.run.id /\ SavedId(h, u) # v.run.id
    <3>1. \A v \in saves : v.run.id # 0
      BY DEF TeamsInv, Full, SavesSound
    <3> QED BY <3>1, <1>3, <1>12, <1>13, <1>14 DEF TeamsInv, Full, Apart
  <2>4. \A u, w \in RealTeams : SavedId(h, u) # 0 /\ SavedId(h, u) = SavedId(h, w) => u = w
    BY <1>13 DEF TeamsInv, Full, Apart
  <2>5. \A v, w \in saves : v.run.id = w.run.id => v = w
    BY DEF TeamsInv, Full, Apart
  <2> QED BY <2>1, <2>2, <2>3, <2>4, <2>5 DEF Apart
<1>16. SavingSound(h) /\ OutInFlock(h) /\ SavesSound(saves)
  BY <1>5 DEF TeamsInv, Full, SavingSound, OutInFlock
<1> QED BY <1>4, <1>11, <1>15, <1>16 DEF Full

\* OnCharacterStart by cases.
WithStart(h, c) == [h EXCEPT !.started = @ \cup {c}]
WithNoRace(h, c) == [h EXCEPT !.race[c] = "NONE"]

StartCases(h, c, k) ==
  \/ k = h
  \/ (h.team[c] = FLOCK \/ h.team[c] \in h.flock) /\ k = StartsAlone(h, c)
  \/ k = WithNoRace(h, c)
  \/ /\ h.team[c] # FLOCK /\ h.team[c] \notin h.flock /\ h.state[h.team[c]] < STARTED
     /\ h.race[c] # "FINISHED" /\ \A m \in Alive(h, h.team[c]) : h.race[m] # "FINISHED"
     /\ k = Begins(h, c)
  \/ /\ h.team[c] # FLOCK /\ h.team[c] \notin h.flock /\ ~(h.state[h.team[c]] < STARTED)
     /\ k = WithStart(h, c)

LEMMA StartByCases ==
  ASSUME NEW h, NEW c, NEW k, k = OnCharacterStart(h, c)  PROVE StartCases(h, c, k)
<1> DEFINE t == h.team[c]
           solo == t = FLOCK \/ t \in h.flock
<1>1. CASE ~solo /\ h.race[c] = "FINISHED"
  BY Zenon, <1>1 DEF OnCharacterStart, StartCases
<1>2. CASE solo
  BY Zenon, <1>2 DEF OnCharacterStart, StartCases, StartsAlone
<1>3. CASE ~solo /\ h.race[c] # "FINISHED" /\ \E m \in Alive(h, t) : h.race[m] = "FINISHED"
  BY Zenon, <1>3 DEF OnCharacterStart, StartCases, WithNoRace
<1>4. CASE /\ ~solo /\ h.race[c] # "FINISHED"
           /\ ~\E m \in Alive(h, t) : h.race[m] = "FINISHED"
           /\ h.state[t] < STARTED
  BY Zenon, <1>4 DEF OnCharacterStart, StartCases, Begins
<1>5. CASE /\ ~solo /\ h.race[c] # "FINISHED"
           /\ ~\E m \in Alive(h, t) : h.race[m] = "FINISHED"
           /\ ~(h.state[t] < STARTED)
  BY Zenon, <1>5 DEF OnCharacterStart, StartCases, WithStart
<1> QED BY Zenon, <1>1, <1>2, <1>3, <1>4, <1>5

LEMMA StartsKeep ==
  ASSUME NEW h, TeamsSound(h), NEW c \in Clients, NEW k,
         k = WithStart(h, c) \/ k = WithNoRace(h, c)
  PROVE  /\ Keeps(h, k)
         /\ k = WithStart(h, c) => RaceSpec(h, k, h.race, h.started \cup {c}, h.finished)
         /\ k = WithNoRace(h, c) =>
              RaceSpec(h, k, [h.race EXCEPT ![c] = "NONE"], h.started, h.finished)
<1>1. h \in GameStates
  BY DEF TeamsSound
<1>2. PICK sd : sd = h.started \cup {c}
  OBVIOUS
<1>3. PICK ra : ra = [h.race EXCEPT ![c] = "NONE"]
  OBVIOUS
<1>4. /\ sd \in SUBSET Clients /\ ra \in [Clients -> RaceStates]
      /\ h.started \in SUBSET Clients /\ h.finished \in SUBSET Clients
      /\ h.race \in [Clients -> RaceStates]
  BY <1>1, <1>2, <1>3 DEF GameStates, RaceStates
<1>5. WithStart(h, c) = WithRaces(h, h.race, sd, h.finished)
  BY <1>1, <1>2 DEF WithStart, WithRaces, GameStates
<1>6. WithNoRace(h, c) = WithRaces(h, ra, h.started, h.finished)
  BY <1>1, <1>3 DEF WithNoRace, WithRaces, GameStates
<1>7. ASSUME k = WithStart(h, c)  PROVE Keeps(h, k) /\ RaceSpec(h, k, h.race, sd, h.finished)
  BY <1>4, <1>5, <1>7, RaceSet
<1>8. ASSUME k = WithNoRace(h, c)  PROVE Keeps(h, k) /\ RaceSpec(h, k, ra, h.started, h.finished)
  BY <1>4, <1>6, <1>8, RaceSet
<1> QED BY <1>2, <1>3, <1>7, <1>8

LEMMA StartTileFull ==
  ASSUME TeamsInv, NEW c \in Clients, StartTile(c)  PROVE TeamsInv'
<1> DEFINE t == g.team[c]
<1>1. TeamsSound(g) /\ g \in GameStates /\ NoIdleRun(g) /\ OutInFlock(g)
  BY InvFacts DEF TeamsInv, Full
<1>2. CASE GetSaving(g, t)
  <2>1. Keeps(g, Die(g, c, "world"))
    BY <1>1, DieKeeps DEF StartTile
  <2> QED BY <1>2, <2>1, BecomesFull DEF StartTile
<1>3. CASE ~GetSaving(g, t)
  <2>1. PICK h : h = OnCharacterStart(g, c)
    OBVIOUS
  <2>2. Becomes(h) /\ UNCHANGED saves /\ (g.state[t] < STARTED => UsedRuns # 1 .. MaxRuns)
    BY Zenon, <1>3, <2>1 DEF StartTile
  <2>3. StartCases(g, c, h)
    BY <2>1, StartByCases
  <2>4. CASE h = g
    BY <1>1, <2>2, <2>4, KeepsItself, BecomesFull
  <2>5. CASE (t = FLOCK \/ t \in g.flock) /\ h = StartsAlone(g, c)
    <3>1. TeamsSound(h) /\ NoNewRun(g, h) /\ AloneSpec(g, h, c)
      BY <1>1, <2>5, AloneSound
    <3>2. h.saving = g.saving /\ OutInFlock(h)
      BY <1>1, <3>1 DEF AloneSpec, OutInFlock
    <3> QED BY <2>2, <3>1, <3>2, BecomesFullOn
  <2>6. CASE h = WithNoRace(g, c) \/ h = WithStart(g, c)
    <3>1. Keeps(g, h)
      BY <1>1, <2>6, StartsKeep
    <3> QED BY <2>2, <3>1, BecomesFull
  <2>7. CASE t # FLOCK /\ g.state[t] < STARTED /\ h = Begins(g, c)
    <3>1. t \in RealTeams
      BY <1>1, <2>7, MemberTeam
    <3>2. Full(h, saves)
      BY <2>2, <2>7, <3>1, BeginFull
    <3>3. Full(g', saves) /\ NoIdleRun(g')
      BY <2>2, <3>2, SettledFull DEF Becomes
    <3> QED BY <2>2, <3>3 DEF TeamsInv
  <2> QED BY <2>3, <2>4, <2>5, <2>6, <2>7 DEF StartCases
<1> QED BY <1>2, <1>3

-----------------------------------------------------------------------------
(* Saving and loading. *)

WithSaving(h, t, s) == [h EXCEPT !.saving[t] = s]

SavingSpec(h, k, t, s) ==
  /\ TeamsSound(k)
  /\ k.saving = [h.saving EXCEPT ![t] = s]
  /\ k.team = h.team /\ k.tee = h.tee /\ k.race = h.race /\ k.started = h.started
  /\ k.finished = h.finished /\ k.state = h.state /\ k.run = h.run /\ k.ranked = h.ranked
  /\ k.practice = h.practice /\ k.flock = h.flock /\ k.locked = h.locked

LEMMA SavingSet ==
  ASSUME NEW h, TeamsSound(h), NEW t \in RealTeams, NEW s \in Savings,
         NEW k, k = WithSaving(h, t, s)
  PROVE  SavingSpec(h, k, t, s)
<1>1. h \in GameStates
  BY DEF TeamsSound
<1>2. PICK sv : sv = [h.saving EXCEPT ![t] = s]
  OBVIOUS
<1>3. sv \in [Teams -> Savings]
  BY <1>1, <1>2, TeamConstants DEF GameStates
<1>4. k = [h EXCEPT !.saving = sv]
  BY <1>2 DEF WithSaving
<1>5. /\ k \in GameStates /\ k.saving = sv
      /\ k.team = h.team /\ k.tee = h.tee /\ k.race = h.race /\ k.started = h.started
      /\ k.finished = h.finished /\ k.state = h.state /\ k.run = h.run /\ k.ranked = h.ranked
      /\ k.practice = h.practice /\ k.flock = h.flock /\ k.locked = h.locked
  BY <1>1, <1>3, <1>4 DEF GameStates
<1>6. \A u : Members(k, u) = Members(h, u)
  BY <1>5 DEF Members
<1>7. TeamsSound(k)
  BY <1>5, <1>6 DEF TeamsSound
<1> QED BY <1>2, <1>5, <1>7 DEF SavingSpec

LEMMA SavedTeamTyped ==
  ASSUME NEW h \in GameStates, NEW t \in Teams, NEW v, v = SavedTeam(h, t)
  PROVE  /\ v \in SavedTeams /\ v.run = h.run[t] /\ v.names = Members(h, t)
         /\ v.started = h.started \cap Members(h, t)
         /\ v.finished = h.finished \cap Members(h, t)
         /\ \A c \in Clients : v.race[c] = IF c \in Members(h, t) THEN h.race[c] ELSE "NONE"
<1>1. PICK C : C = Members(h, t)
  OBVIOUS
<1>2. C \in SUBSET Clients
  BY <1>1, AliveMembers
<1>3. PICK ra : ra = [c \in Clients |-> IF c \in C THEN h.race[c] ELSE "NONE"]
  OBVIOUS
<1>4. PICK sd, fd, lo : sd = h.started \cap C /\ fd = h.finished \cap C /\ lo = (t \in h.locked)
  OBVIOUS
<1>5. v = [run |-> h.run[t], locked |-> t \in h.locked, names |-> C, started |-> sd,
           finished |-> fd, race |-> ra]
  BY Zenon, <1>1, <1>3, <1>4 DEF SavedTeam
<1>6. /\ ra \in [Clients -> RaceStates]
      /\ \A c \in Clients : ra[c] = IF c \in C THEN h.race[c] ELSE "NONE"
  BY <1>2, <1>3 DEF GameStates, RaceStates
<1>7. sd \in SUBSET Clients /\ fd \in SUBSET Clients /\ h.run[t] \in Runs
  BY <1>2, <1>4 DEF GameStates
<1>8. (t \in h.locked) \in BOOLEAN
  OBVIOUS
<1>9. v \in SavedTeams
  BY <1>2, <1>5, <1>6, <1>7, <1>8 DEF SavedTeams
<1> QED BY <1>1, <1>4, <1>5, <1>6, <1>9

LEMMA SavingFacts ==
  ASSUME NEW h, TeamsSound(h), NEW t \in RealTeams, NEW s \in Savings,
         NEW k, SavingSpec(h, k, t, s)
  PROVE  /\ SavedId(k, t) = s.saved.run.id
         /\ \A u \in RealTeams : u # t => SavedId(k, u) = SavedId(h, u)
         /\ \A u \in RealTeams : u # t => HeldId(k, u) = HeldId(h, u)
         /\ HeldId(k, t) = IF OnRun(h, t) /\ s.kind # "save" THEN h.run[t].id ELSE 0
         /\ \A u \in RealTeams : u # t => k.saving[u] = h.saving[u]
         /\ k.saving[t] = s
<1>1. /\ k.saving[t] = s
      /\ \A u \in RealTeams : u # t => k.saving[u] = h.saving[u]
  BY TeamConstants DEF SavingSpec, TeamsSound, GameStates
<1>2. \A u \in RealTeams : OnRun(k, u) <=> OnRun(h, u)
  BY DEF OnRun, SavingSpec
<1>3. k.run = h.run
  BY DEF SavingSpec
<1> QED BY <1>1, <1>2, <1>3 DEF SavedId, HeldId

LEMMA OtherSaving ==
  ASSUME NEW h, SavingSound(h), NEW k, NEW t \in RealTeams,
         \A u \in RealTeams : u # t => k.saving[u] = h.saving[u],
         k.saving[t].kind = "none" => k.saving[t] = NotSaving,
         k.saving[t].kind = "save" /\ k.saving[t].status # "done"
           => k.saving[t].saved.run.id # 0,
         k.saving[t].kind = "load" /\ k.saving[t].status = "done"
           => k.saving[t].saved.run.id # 0
  PROVE  SavingSound(k)
<1> SUFFICES ASSUME NEW u \in RealTeams
             PROVE  LET s == k.saving[u] IN
                    /\ s.kind = "none" => s = NotSaving
                    /\ s.kind = "save" /\ s.status # "done" => s.saved.run.id # 0
                    /\ s.kind = "load" /\ s.status = "done" => s.saved.run.id # 0
  BY DEF SavingSound
<1>1. CASE u = t
  BY <1>1
<1>2. CASE u # t
  BY <1>2 DEF SavingSound
<1> QED BY <1>1, <1>2

LEMMA SaveTeamFull ==
  ASSUME TeamsInv, NEW c \in Clients, SaveTeam(c)  PROVE TeamsInv'
<1> DEFINE t == g.team[c]
<1>1. TeamsSound(g) /\ g \in GameStates /\ OutInFlock(g) /\ SavingSound(g)
      /\ Apart(g, saves) /\ SavesSound(saves)
  BY InvFacts DEF TeamsInv, Full
<1>2. /\ t \in RealTeams /\ t \in Teams /\ t \notin g.flock /\ g.state[t] = STARTED
      /\ g.saving[t].kind = "none"
  BY <1>1, MemberTeam, TeamConstants DEF SaveTeam, GetSaving
<1>3. g.run[t].id # 0
  BY <1>1, <1>2 DEF TeamsSound
<1>4. PICK v : v = SavedTeam(g, t)
  OBVIOUS
<1>5. v \in SavedTeams /\ v.run = g.run[t]
  BY <1>1, <1>2, <1>4, SavedTeamTyped
<1>6. PICK s : s = [kind |-> "save", status |-> "pending", saved |-> v]
  OBVIOUS
<1>7. s \in Savings /\ s.kind = "save" /\ s.status = "pending" /\ s.saved = v
  BY <1>5, <1>6 DEF Savings
<1>8. PICK h : h = WithSaving(g, t, s)
  OBVIOUS
<1>9. SavingSpec(g, h, t, s)
  BY <1>1, <1>2, <1>7, <1>8, SavingSet
<1>10. /\ SavedId(h, t) = g.run[t].id
       /\ \A u \in RealTeams : u # t => SavedId(h, u) = SavedId(g, u)
       /\ \A u \in RealTeams : u # t => HeldId(h, u) = HeldId(g, u)
       /\ HeldId(h, t) = 0
       /\ \A u \in RealTeams : u # t => h.saving[u] = g.saving[u]
       /\ h.saving[t] = s
  BY <1>1, <1>2, <1>5, <1>7, <1>9, SavingFacts
<1>11. HeldId(g, t) = g.run[t].id
  BY <1>2, <1>3 DEF HeldId, OnRun
<1>12. SavingSound(h)
  BY <1>1, <1>2, <1>3, <1>5, <1>7, <1>10, OtherSaving
<1>13. Apart(h, saves)
  <2>1. \A u, w \in RealTeams : HeldId(h, u) # 0 /\ HeldId(h, u) = HeldId(h, w) => u = w
    BY <1>1, <1>10 DEF Apart
  <2>2. \A u, w \in RealTeams : SavedId(h, u) # 0 /\ SavedId(h, u) = SavedId(h, w) => u = w
    BY <1>1, <1>2, <1>3, <1>10, <1>11 DEF Apart
  <2>3. \A u, w \in RealTeams : HeldId(h, u) # 0 => HeldId(h, u) # SavedId(h, w)
    BY <1>1, <1>2, <1>3, <1>10, <1>11 DEF Apart
  <2>4. \A u \in RealTeams, w \in saves : HeldId(h, u) # w.run.id /\ SavedId(h, u) # w.run.id
    BY <1>1, <1>2, <1>3, <1>10, <1>11 DEF Apart, SavesSound
  <2> QED BY <1>1, <2>1, <2>2, <2>3, <2>4 DEF Apart
<1>14. Full(h, saves)
  BY <1>1, <1>9, <1>12, <1>13 DEF Full, SavingSpec, OutInFlock
<1>15. PICK k : k = KillTeam(h, t)
  OBVIOUS
<1>16. Full(k, saves)
  <2>1. Keeps(h, k)
    BY <1>14, <1>15, KillTeamKeeps DEF Full
  <2> QED BY <1>14, <2>1, KeepsFull
<1>17. Becomes(k) /\ UNCHANGED saves
  BY Zenon, <1>4, <1>6, <1>8, <1>15 DEF SaveTeam, WithSaving
<1>18. Full(g', saves) /\ NoIdleRun(g')
  BY <1>16, <1>17, SettledFull DEF Becomes
<1> QED BY <1>17, <1>18 DEF TeamsInv

\* A new state of the saving of t that holds no run, while t is not "save".
LEMMA PlainSaving ==
  ASSUME TeamsInv, NEW t \in RealTeams, NEW s \in Savings, NEW h, h = WithSaving(g, t, s),
         s.saved.run.id \in {0, SavedId(g, t)},
         s.kind = "save" \/ g.saving[t].kind # "save",
         s.kind = "none" => s = NotSaving,
         s.kind = "save" /\ s.status # "done" => s.saved.run.id # 0,
         s.kind = "load" /\ s.status = "done" => s.saved.run.id # 0,
         Becomes(h), UNCHANGED saves
  PROVE  TeamsInv'
<1>1. TeamsSound(g) /\ g \in GameStates /\ OutInFlock(g) /\ SavingSound(g)
      /\ Apart(g, saves) /\ SavesSound(saves)
  BY InvFacts DEF TeamsInv, Full
<1>2. SavingSpec(g, h, t, s)
  BY <1>1, SavingSet
<1>3. /\ SavedId(h, t) = s.saved.run.id
      /\ \A u \in RealTeams : u # t => SavedId(h, u) = SavedId(g, u)
      /\ \A u \in RealTeams : u # t => HeldId(h, u) = HeldId(g, u)
      /\ HeldId(h, t) = IF OnRun(g, t) /\ s.kind # "save" THEN g.run[t].id ELSE 0
      /\ \A u \in RealTeams : u # t => h.saving[u] = g.saving[u]
      /\ h.saving[t] = s
  BY <1>1, <1>2, SavingFacts
<1>4. HeldId(h, t) \in {0, HeldId(g, t)}
  BY <1>3 DEF HeldId
<1>5. SavingSound(h)
  BY <1>1, <1>3, OtherSaving
<1>6. Apart(h, saves)
  <2>1. \A u \in RealTeams : HeldId(h, u) \in {0, HeldId(g, u)}
    BY <1>3, <1>4
  <2>2. \A u \in RealTeams : SavedId(h, u) \in {0, SavedId(g, u)}
    BY <1>3
  <2>3. \A u, w \in RealTeams : HeldId(h, u) # 0 /\ HeldId(h, u) = HeldId(h, w) => u = w
    BY <1>1, <2>1 DEF Apart
  <2>4. \A u, w \in RealTeams : SavedId(h, u) # 0 /\ SavedId(h, u) = SavedId(h, w) => u = w
    BY <1>1, <2>2 DEF Apart
  <2>5. \A u, w \in RealTeams : HeldId(h, u) # 0 => HeldId(h, u) # SavedId(h, w)
    BY <1>1, <2>1, <2>2 DEF Apart
  <2>6. \A u \in RealTeams, w \in saves : HeldId(h, u) # w.run.id /\ SavedId(h, u) # w.run.id
    BY <1>1, <2>1, <2>2 DEF Apart, SavesSound
  <2> QED BY <1>1, <2>3, <2>4, <2>5, <2>6 DEF Apart
<1>7. Full(h, saves)
  BY <1>1, <1>2, <1>5, <1>6 DEF Full, SavingSpec, OutInFlock
<1>8. Full(g', saves) /\ NoIdleRun(g')
  BY <1>7, SettledFull DEF Becomes
<1> QED BY <1>8 DEF TeamsInv

LEMMA SavingsOf ==
  ASSUME NEW h, TeamsSound(h), NEW t \in RealTeams
  PROVE  /\ h.saving[t] \in Savings /\ h.saving[t].saved \in SavedTeams
         /\ h.saving[t].saved.run \in Runs
BY TeamConstants DEF TeamsSound, GameStates, Savings, SavedTeams

LEMMA SavingMade ==
  ASSUME NEW v \in SavedTeams, NEW kind \in {"none", "save", "load"},
         NEW status \in {"none", "pending", "done", "failed"},
         NEW s, s = [kind |-> kind, status |-> status, saved |-> v]
  PROVE  s \in Savings /\ s.kind = kind /\ s.status = status /\ s.saved = v
BY DEF Savings

LEMMA LoadTeamFull ==
  ASSUME TeamsInv, NEW c \in Clients, LoadTeam(c)  PROVE TeamsInv'
<1> DEFINE t == g.team[c]
<1>1. TeamsSound(g) /\ g \in GameStates /\ SavingSound(g)
  BY InvFacts DEF TeamsInv, Full
<1>2. t \in RealTeams /\ t \in Teams /\ g.saving[t].kind = "none"
  BY <1>1, MemberTeam, TeamConstants DEF LoadTeam, GetSaving
<1>3. PICK C : C = Members(g, t)
  OBVIOUS
<1>4. PICK v : v = [NoTeam EXCEPT !.names = C]
  OBVIOUS
<1>5. v \in SavedTeams /\ v.run.id = 0
  <2>1. C \in SUBSET Clients
    BY <1>3, AliveMembers
  <2>2. NoTeam \in SavedTeams /\ NoTeam.run.id = 0
    BY TeamConstants
  <2> QED BY <1>4, <2>1, <2>2 DEF SavedTeams
<1>6. PICK s : s = [kind |-> "load", status |-> "pending", saved |-> v]
  OBVIOUS
<1>7. s \in Savings /\ s.kind = "load" /\ s.status = "pending" /\ s.saved = v
  BY <1>5, <1>6, SavingMade
<1>8. PICK h : h = WithSaving(g, t, s)
  OBVIOUS
<1>9. Becomes(h) /\ UNCHANGED saves
  BY Zenon, <1>3, <1>4, <1>6, <1>8 DEF LoadTeam, WithSaving
<1> QED BY <1>2, <1>5, <1>7, <1>8, <1>9, PlainSaving

LEMMA SaveWorkerFull ==
  ASSUME TeamsInv, NEW t \in RealTeams, SaveWorker(t)  PROVE TeamsInv'
<1>1. TeamsSound(g) /\ g \in GameStates /\ OutInFlock(g) /\ SavingSound(g)
      /\ Apart(g, saves) /\ SavesSound(saves)
  BY InvFacts DEF TeamsInv, Full
<1>2. PICK s : s = g.saving[t]
  OBVIOUS
<1>3. /\ s.kind = "save" /\ s.status = "pending" /\ s \in Savings
      /\ s.saved \in SavedTeams /\ s.saved.run.id # 0 /\ s.saved.run.id = SavedId(g, t)
  BY <1>1, <1>2, SavingsOf DEF SaveWorker, SavingSound, SavedId
<1>4. PICK d : d = [kind |-> "save", status |-> "done", saved |-> NoTeam]
  OBVIOUS
<1>5. d \in Savings /\ d.kind = "save" /\ d.status = "done" /\ d.saved.run.id = 0
  BY <1>4, SavingMade, TeamConstants
<1>6. PICK f : f = [s EXCEPT !.status = "failed"]
  OBVIOUS
<1>7. f \in Savings /\ f.kind = "save" /\ f.status = "failed" /\ f.saved = s.saved
  BY <1>3, <1>6 DEF Savings
<1>8. PICK h : h = WithSaving(g, t, d)
  OBVIOUS
<1>9. PICK k : k = WithSaving(g, t, f)
  OBVIOUS
<1>10. \/ Becomes(h) /\ saves' = saves \cup {s.saved}
       \/ Becomes(k) /\ UNCHANGED saves
  <2>1. k = [g EXCEPT !.saving[t] = [@ EXCEPT !.status = "failed"]]
    BY <1>2, <1>6, <1>9 DEF WithSaving
  <2>2. h = [g EXCEPT !.saving[t] = [kind |-> "save", status |-> "done", saved |-> NoTeam]]
    BY <1>4, <1>8 DEF WithSaving
  <2>3. PICK ok \in BOOLEAN :
          /\ Becomes([g EXCEPT !.saving[t] =
                     IF ok THEN [kind |-> "save", status |-> "done", saved |-> NoTeam]
                     ELSE [@ EXCEPT !.status = "failed"]])
          /\ saves' = IF ok THEN saves \cup {s.saved} ELSE saves
    BY Zenon, <1>2 DEF SaveWorker
  <2>4. ASSUME ok = TRUE  PROVE Becomes(h) /\ saves' = saves \cup {s.saved}
    BY Zenon, <2>2, <2>3, <2>4
  <2>5. ASSUME ok = FALSE  PROVE Becomes(k) /\ UNCHANGED saves
    BY Zenon, <2>1, <2>3, <2>5
  <2> QED BY Zenon, <2>4, <2>5
<1>11. CASE Becomes(k) /\ UNCHANGED saves
  BY <1>3, <1>7, <1>9, <1>11, PlainSaving
<1>12. CASE Becomes(h) /\ saves' = saves \cup {s.saved}
  <2>1. SavingSpec(g, h, t, d)
    BY <1>1, <1>5, <1>8, SavingSet
  <2>2. /\ SavedId(h, t) = 0
        /\ \A u \in RealTeams : u # t => SavedId(h, u) = SavedId(g, u)
        /\ \A u \in RealTeams : u # t => HeldId(h, u) = HeldId(g, u)
        /\ HeldId(h, t) = 0
        /\ \A u \in RealTeams : u # t => h.saving[u] = g.saving[u]
        /\ h.saving[t] = d
    BY <1>1, <1>5, <2>1, SavingFacts
  <2>3. SavingSound(h)
    BY <1>1, <1>5, <2>2, OtherSaving
  <2>4. PICK V : V = saves \cup {s.saved}
    OBVIOUS
  <2>5. SavesSound(V)
    BY <1>1, <1>3, <2>4 DEF SavesSound
  <2>6. Apart(h, V)
    <3>1. \A u, w \in RealTeams : HeldId(h, u) # 0 /\ HeldId(h, u) = HeldId(h, w) => u = w
      BY <1>1, <2>2 DEF Apart
    <3>2. \A u, w \in RealTeams : SavedId(h, u) # 0 /\ SavedId(h, u) = SavedId(h, w) => u = w
      BY <1>1, <2>2 DEF Apart
    <3>3. \A v, w \in V : v.run.id = w.run.id => v = w
      BY <1>1, <1>3, <2>4 DEF Apart
    <3>4. \A u, w \in RealTeams : HeldId(h, u) # 0 => HeldId(h, u) # SavedId(h, w)
      BY <1>1, <2>2 DEF Apart
    <3>5. \A u \in RealTeams, w \in V : HeldId(h, u) # w.run.id
      BY <1>1, <1>3, <2>2, <2>4, <2>5 DEF Apart, SavesSound
    <3>6. \A u \in RealTeams, w \in V : SavedId(h, u) # w.run.id
      BY <1>1, <1>3, <2>2, <2>4, <2>5 DEF Apart, SavesSound
    <3> QED BY <3>1, <3>2, <3>3, <3>4, <3>5, <3>6 DEF Apart
  <2>7. Full(h, V)
    BY <1>1, <2>1, <2>3, <2>5, <2>6 DEF Full, SavingSpec, OutInFlock
  <2>8. Full(g', V) /\ NoIdleRun(g')
    BY <1>12, <2>7, SettledFull DEF Becomes
  <2> QED BY <1>12, <2>4, <2>8 DEF TeamsInv
<1> QED BY <1>10, <1>11, <1>12

LEMMA LoadWorkerFull ==
  ASSUME TeamsInv, NEW t \in RealTeams, LoadWorker(t)  PROVE TeamsInv'
<1>1. TeamsSound(g) /\ g \in GameStates /\ OutInFlock(g) /\ SavingSound(g)
      /\ Apart(g, saves) /\ SavesSound(saves)
  BY InvFacts DEF TeamsInv, Full
<1>2. PICK s : s = g.saving[t]
  OBVIOUS
<1>3. s.kind = "load" /\ s.status = "pending" /\ s \in Savings /\ s.saved.run.id = SavedId(g, t)
  BY <1>1, <1>2, SavingsOf DEF LoadWorker, SavedId
<1>4. PICK f : f = [s EXCEPT !.status = "failed"]
  OBVIOUS
<1>5. f \in Savings /\ f.kind = "load" /\ f.status = "failed" /\ f.saved = s.saved
  BY <1>3, <1>4 DEF Savings
<1>6. PICK k : k = WithSaving(g, t, f)
  OBVIOUS
<1>7. k = [g EXCEPT !.saving[t].status = "failed"]
  BY <1>1, <1>2, <1>4, <1>6 DEF WithSaving, GameStates
<1>8. CASE Becomes(k) /\ UNCHANGED saves
  BY <1>2, <1>3, <1>5, <1>6, <1>8, PlainSaving
<1>9. ASSUME NEW v \in saves, v.names = s.saved.names,
             Becomes(WithSaving(g, t, [kind |-> "load", status |-> "done", saved |-> v])),
             saves' = saves \ {v}
      PROVE  TeamsInv'
  <2>1. PICK d : d = [kind |-> "load", status |-> "done", saved |-> v]
    OBVIOUS
  <2>2. v \in SavedTeams /\ v.run.id # 0
    BY <1>1, <1>9 DEF SavesSound
  <2>3. d \in Savings /\ d.kind = "load" /\ d.status = "done" /\ d.saved = v
    BY <2>1, <2>2, SavingMade
  <2>4. PICK h : h = WithSaving(g, t, d)
    OBVIOUS
  <2>5. SavingSpec(g, h, t, d)
    BY <1>1, <2>3, <2>4, SavingSet
  <2>6. /\ SavedId(h, t) = v.run.id
        /\ \A u \in RealTeams : u # t => SavedId(h, u) = SavedId(g, u)
        /\ \A u \in RealTeams : u # t => HeldId(h, u) = HeldId(g, u)
        /\ HeldId(h, t) = IF OnRun(g, t) /\ d.kind # "save" THEN g.run[t].id ELSE 0
        /\ \A u \in RealTeams : u # t => h.saving[u] = g.saving[u]
        /\ h.saving[t] = d
    BY <1>1, <2>3, <2>5, SavingFacts
  <2>7. HeldId(h, t) = HeldId(g, t)
    BY <1>2, <1>3, <2>3, <2>6 DEF HeldId
  <2>8. SavingSound(h)
    BY <1>1, <2>2, <2>3, <2>6, OtherSaving
  <2>9. PICK V : V = saves \ {v}
    OBVIOUS
  <2>10. SavesSound(V)
    BY <1>1, <2>9 DEF SavesSound
  <2>11. \A u \in RealTeams : HeldId(h, u) = HeldId(g, u)
    BY <2>6, <2>7
  <2>12. \A w \in V : w \in saves /\ w.run.id # v.run.id
    BY <1>1, <1>9, <2>9 DEF Apart
  <2>13. \A u \in RealTeams : HeldId(g, u) # v.run.id /\ SavedId(g, u) # v.run.id
    BY <1>1, <1>9 DEF Apart
  <2>14. Apart(h, V)
    <3>1. \A u, w \in RealTeams : HeldId(h, u) # 0 /\ HeldId(h, u) = HeldId(h, w) => u = w
      BY <1>1, <2>11 DEF Apart
    <3>2. \A u, w \in RealTeams : SavedId(h, u) # 0 /\ SavedId(h, u) = SavedId(h, w) => u = w
      BY <1>1, <2>6, <2>13 DEF Apart
    <3>3. \A x, w \in V : x.run.id = w.run.id => x = w
      BY <1>1, <2>12 DEF Apart
    <3>4. \A u, w \in RealTeams : HeldId(h, u) # 0 => HeldId(h, u) # SavedId(h, w)
      BY <1>1, <2>6, <2>11, <2>13 DEF Apart
    <3>5. \A u \in RealTeams, w \in V : HeldId(h, u) # w.run.id
      BY <1>1, <2>11, <2>12 DEF Apart
    <3>6. \A u \in RealTeams, w \in V : SavedId(h, u) # w.run.id
      BY <1>1, <2>6, <2>12 DEF Apart
    <3> QED BY <3>1, <3>2, <3>3, <3>4, <3>5, <3>6 DEF Apart
  <2>15. Full(h, V)
    BY <1>1, <2>5, <2>8, <2>10, <2>14 DEF Full, SavingSpec, OutInFlock
  <2>16. Becomes(h)
    BY Zenon, <1>9, <2>1, <2>4
  <2>17. Full(g', V) /\ NoIdleRun(g')
    BY <2>15, <2>16, SettledFull DEF Becomes
  <2> QED BY <1>9, <2>9, <2>17 DEF TeamsInv
<1>10. \/ Becomes(k) /\ UNCHANGED saves
       \/ \E v \in saves :
            /\ v.names = s.saved.names
            /\ Becomes(WithSaving(g, t, [kind |-> "load", status |-> "done", saved |-> v]))
            /\ saves' = saves \ {v}
  BY Zenon, <1>2, <1>7 DEF LoadWorker, WithSaving
<1> QED BY Zenon, <1>8, <1>9, <1>10

\* What Load does, "C" being the tees that are loaded.
LoadSpec(h, k, t, v, C) ==
  /\ k.team = h.team /\ k.saving = h.saving /\ k.ranked = h.ranked /\ k.flock = h.flock
  /\ k.practice = h.practice \ {t} /\ k.killTick = h.killTick
  /\ k.state = [h.state EXCEPT ![t] = STARTED] /\ k.run = [h.run EXCEPT ![t] = v.run]
  /\ \A c \in Clients : /\ k.tee[c] = IF c \in C THEN "alive" ELSE h.tee[c]
                        /\ k.race[c] = IF c \in C THEN v.race[c] ELSE h.race[c]
  /\ k.started = (h.started \ C) \cup (C \cap v.started)
  /\ k.finished = (h.finished \ C) \cup (C \cap v.finished)

LEMMA LoadFields ==
  ASSUME NEW h, TeamsSound(h), NEW t \in RealTeams, NEW v \in SavedTeams,
         NEW k, k = Load(h, t, v), NEW C, C = Players(h, t) \cap v.names
  PROVE  k \in GameStates /\ LoadSpec(h, k, t, v, C)
<1>1. h \in GameStates /\ t \in Teams /\ C \in SUBSET Clients
  BY TeamConstants, AliveMembers DEF TeamsSound
<1>2. PICK st : st = [h.state EXCEPT ![t] = STARTED]
  OBVIOUS
<1>3. PICK pr : pr = h.practice \ {t}
  OBVIOUS
<1>4. PICK ru : ru = [h.run EXCEPT ![t] = v.run]
  OBVIOUS
<1>5. PICK lo : lo = IF v.locked THEN h.locked \cup {t} ELSE h.locked \ {t}
  OBVIOUS
<1>6. PICK te : te = [c \in Clients |-> IF c \in C THEN "alive" ELSE h.tee[c]]
  OBVIOUS
<1>7. PICK sd : sd = (h.started \ C) \cup (C \cap v.started)
  OBVIOUS
<1>8. PICK fd : fd = (h.finished \ C) \cup (C \cap v.finished)
  OBVIOUS
<1>9. PICK ra : ra = [c \in Clients |-> IF c \in C THEN v.race[c] ELSE h.race[c]]
  OBVIOUS
<1>10. k = [h EXCEPT !.state = st, !.practice = pr, !.run = ru, !.locked = lo, !.tee = te,
                     !.started = sd, !.finished = fd, !.race = ra]
  BY Zenon, <1>2, <1>3, <1>4, <1>5, <1>6, <1>7, <1>8, <1>9 DEF Load
<1>11. st \in [Teams -> EMPTY .. FINISHED]
  <2>1. h.state \in [Teams -> EMPTY .. FINISHED]
    BY <1>1 DEF GameStates
  <2>2. STARTED \in EMPTY .. FINISHED
    BY DEF EMPTY, STARTED, FINISHED
  <2> QED BY <1>2, <2>1, <2>2
<1>12. ru \in [Teams -> Runs]
  BY <1>1, <1>4 DEF GameStates, SavedTeams
<1>13. pr \in SUBSET RealTeams /\ lo \in SUBSET RealTeams
  <2>1. h.practice \in SUBSET RealTeams /\ h.locked \in SUBSET RealTeams
    BY <1>1 DEF GameStates
  <2>2. lo = h.locked \cup {t} \/ lo = h.locked \ {t}
    BY Zenon, <1>5
  <2> QED BY <1>3, <2>1, <2>2
<1>14. te \in [Clients -> {"out", "spec", "dead", "alive"}]
  BY <1>1, <1>6 DEF GameStates
<1>15. ra \in [Clients -> RaceStates]
  BY <1>1, <1>9 DEF GameStates, SavedTeams
<1>16. sd \in SUBSET Clients /\ fd \in SUBSET Clients
  BY <1>1, <1>7, <1>8 DEF GameStates
<1>17. k \in GameStates
  <2>1. PICK y : y = [h EXCEPT !.state = st, !.practice = pr, !.run = ru, !.locked = lo]
    OBVIOUS
  <2>2. y \in GameStates
    BY <1>1, <1>11, <1>12, <1>13, <2>1 DEF GameStates
  <2>3. k = [y EXCEPT !.tee = te, !.started = sd, !.finished = fd, !.race = ra]
    BY Zenon, <1>10, <2>1
  <2> QED BY <1>14, <1>15, <1>16, <2>2, <2>3 DEF GameStates
<1>18. /\ k.team = h.team /\ k.saving = h.saving /\ k.ranked = h.ranked /\ k.flock = h.flock
       /\ k.killTick = h.killTick /\ k.practice = pr /\ k.state = st /\ k.run = ru
       /\ k.tee = te /\ k.started = sd /\ k.finished = fd /\ k.race = ra
  BY <1>1, <1>10 DEF GameStates
<1>19. \A c \in Clients : /\ te[c] = IF c \in C THEN "alive" ELSE h.tee[c]
                          /\ ra[c] = IF c \in C THEN v.race[c] ELSE h.race[c]
  BY <1>6, <1>9
<1> QED BY <1>2, <1>3, <1>4, <1>7, <1>8, <1>17, <1>18, <1>19 DEF LoadSpec

LEMMA LoadSound ==
  ASSUME NEW h, TeamsSound(h), NEW t \in RealTeams, NEW v \in SavedTeams, v.run.id # 0,
         TeamSize(h, t) > 0, NEW k, k = Load(h, t, v)
  PROVE  /\ TeamsSound(k) /\ k.saving = h.saving /\ OutStays(h, k) /\ k.run[t].id = v.run.id
         /\ \A u \in RealTeams : u # t /\ OnRun(k, u) => OnRun(h, u) /\ k.run[u] = h.run[u]
<1> DEFINE C == Players(h, t) \cap v.names
<1>1. k \in GameStates /\ LoadSpec(h, k, t, v, C)
  BY LoadFields
<1>2. h \in GameStates /\ t \in Teams
  BY TeamConstants DEF TeamsSound
<1>3. C \subseteq {c \in Clients : h.tee[c] # "out"}
  BY DEF Players, Members
<1> HIDE DEF C
<1>4. /\ \A u \in Teams : k.state[u] = IF u = t THEN STARTED ELSE h.state[u]
      /\ \A u \in Teams : k.run[u] = IF u = t THEN v.run ELSE h.run[u]
  BY <1>1, <1>2 DEF LoadSpec, GameStates
<1>5. \A u : Members(k, u) = Members(h, u)
  BY <1>1 DEF Members, LoadSpec
<1>6. Members(h, t) # {}
  <2>1. Members(h, t) = {} => TeamSize(h, t) = 0
    BY FS_EmptySet DEF TeamSize
  <2> QED BY <2>1
<1>7. h.state[t] # EMPTY
  BY <1>6 DEF TeamsSound
<1>8. k.state[FLOCK] = OPEN
  BY <1>4, TeamConstants DEF TeamsSound
<1>9. \A u \in RealTeams : k.state[u] = EMPTY <=> h.state[u] = EMPTY
  BY <1>4, <1>7, TeamConstants DEF STARTED, EMPTY
<1>10. ASSUME NEW u \in RealTeams, k.state[u] = EMPTY
       PROVE  u \notin k.locked \cup k.flock \cup k.practice
  <2>1. h.state[u] = EMPTY /\ u # t
    BY <1>7, <1>9, <1>10
  <2>2. u \notin h.locked \cup h.flock \cup h.practice
    BY <2>1 DEF TeamsSound
  <2>3. u \notin k.locked
    <3>1. PICK lo : lo = IF v.locked THEN h.locked \cup {t} ELSE h.locked \ {t}
      OBVIOUS
    <3>2. lo = h.locked \cup {t} \/ lo = h.locked \ {t}
      BY Zenon, <3>1
    <3>3. k.locked = lo
      BY <1>2, <3>1 DEF Load, GameStates
    <3> QED BY <2>1, <2>2, <3>2, <3>3
  <2> QED BY <1>1, <2>2, <2>3 DEF LoadSpec
<1>11. \A u \in RealTeams : k.state[u] = STARTED /\ u \notin k.flock => k.run[u].id # 0
  BY <1>1, <1>4, TeamConstants DEF TeamsSound, LoadSpec
<1>12. TeamsSound(k)
  BY <1>1, <1>5, <1>8, <1>9, <1>10, <1>11 DEF TeamsSound
<1>13. OutStays(h, k)
  BY <1>1, <1>3 DEF OutStays, LoadSpec
<1>14. \A u \in RealTeams : u # t /\ OnRun(k, u) => OnRun(h, u) /\ k.run[u] = h.run[u]
  BY <1>4, TeamConstants DEF OnRun
<1> QED BY <1>1, <1>2, <1>4, <1>12, <1>13, <1>14 DEF LoadSpec

\* The result k is processed and the saving of t is over: the run of t is its
\* own or the one that was saved.
LEMMA ProcessFull ==
  ASSUME TeamsInv, NEW t \in RealTeams, NEW k, TeamsSound(k), k.saving = g.saving,
         OutStays(g, k),
         \A u \in RealTeams : u # t /\ OnRun(k, u) => OnRun(g, u) /\ k.run[u].id = g.run[u].id,
         OnRun(k, t) => \/ k.run[t].id = SavedId(g, t)
                        \/ /\ g.saving[t].kind # "save" /\ OnRun(g, t)
                           /\ k.run[t].id = g.run[t].id,
         NEW h, h = WithSaving(k, t, NotSaving), Becomes(h), UNCHANGED saves
  PROVE  TeamsInv'
<1>1. TeamsSound(g) /\ OutInFlock(g) /\ SavingSound(g) /\ Apart(g, saves) /\ SavesSound(saves)
  BY InvFacts DEF TeamsInv, Full
<1>2. NotSaving \in Savings /\ NotSaving.saved.run.id = 0 /\ NotSaving.kind = "none"
  BY TeamConstants
<1>3. SavingSpec(k, h, t, NotSaving)
  BY <1>2, SavingSet
<1>4. /\ SavedId(h, t) = 0
      /\ \A u \in RealTeams : u # t => SavedId(h, u) = SavedId(k, u)
      /\ \A u \in RealTeams : u # t => HeldId(h, u) = HeldId(k, u)
      /\ HeldId(h, t) = IF OnRun(k, t) /\ NotSaving.kind # "save" THEN k.run[t].id ELSE 0
      /\ \A u \in RealTeams : u # t => h.saving[u] = k.saving[u]
      /\ h.saving[t] = NotSaving
  BY <1>2, <1>3, SavingFacts
<1>5. \A u \in RealTeams : u # t => HeldId(h, u) \in {0, HeldId(g, u)}
  BY <1>4 DEF HeldId
<1>6. \A u \in RealTeams : u # t => SavedId(h, u) = SavedId(g, u)
  BY <1>4 DEF SavedId
<1>7. HeldId(h, t) \in {0, HeldId(g, t), SavedId(g, t)}
  BY <1>2, <1>4 DEF HeldId
<1>8. SavingSound(h)
  BY <1>1, <1>2, <1>4, OtherSaving
<1>9. OutInFlock(h)
  BY <1>1, <1>3 DEF OutStays, OutInFlock, SavingSpec
<1>10. Apart(h, saves)
  <2>1. \A u \in RealTeams : u # t => HeldId(h, u) = 0 \/ HeldId(h, u) # HeldId(h, t)
    BY <1>1, <1>5, <1>7 DEF Apart
  <2>2. \A u, w \in RealTeams : HeldId(h, u) # 0 /\ HeldId(h, u) = HeldId(h, w) => u = w
    BY <1>1, <1>5, <2>1 DEF Apart
  <2>3. \A u, w \in RealTeams : SavedId(h, u) # 0 /\ SavedId(h, u) = SavedId(h, w) => u = w
    BY <1>1, <1>4, <1>6 DEF Apart
  <2>4. \A w \in RealTeams : HeldId(h, t) # 0 => HeldId(h, t) # SavedId(h, w)
    BY <1>1, <1>4, <1>6, <1>7 DEF Apart
  <2>5. \A u, w \in RealTeams : HeldId(h, u) # 0 => HeldId(h, u) # SavedId(h, w)
    BY <1>1, <1>4, <1>5, <1>6, <2>4 DEF Apart
  <2>6. \A u \in RealTeams, w \in saves : HeldId(h, u) # w.run.id
    BY <1>1, <1>5, <1>7 DEF Apart, SavesSound
  <2>7. \A u \in RealTeams, w \in saves : SavedId(h, u) # w.run.id
    BY <1>1, <1>4, <1>6 DEF Apart, SavesSound
  <2> QED BY <1>1, <2>2, <2>3, <2>5, <2>6, <2>7 DEF Apart
<1>11. Full(h, saves)
  BY <1>1, <1>3, <1>8, <1>9, <1>10 DEF Full, SavingSpec
<1>12. Full(g', saves) /\ NoIdleRun(g')
  BY <1>11, SettledFull DEF Becomes
<1> QED BY <1>12 DEF TeamsInv

\* The processed states, by the kind and status of the result.
LEMMA ProcessCases ==
  ASSUME NEW t, ProcessSaveTeam(t), NEW s, s = g.saving[t]
  PROVE  /\ UNCHANGED saves
         /\ \/ /\ s.kind = "save" /\ s.status = "done"
               /\ Becomes(WithSaving(AllToFlock(g, Players(g, t)), t, NotSaving))
            \/ /\ TeamSize(g, t) > 0 => s.kind = "load" /\ s.status = "failed"
               /\ Becomes(WithSaving(g, t, NotSaving))
            \/ /\ TeamSize(g, t) > 0
               /\ \/ s.kind = "save" /\ s.status = "failed"
                  \/ s.kind = "load" /\ s.status = "done"
               /\ \/ Becomes(WithSaving(Load(g, t, s.saved), t, NotSaving))
                  \/ /\ s.kind = "load" /\ "invalid" \in Features
                     /\ Becomes(WithSaving(KillTeam(Load(g, t, s.saved), t), t, NotSaving))
<1> DEFINE l == IF TeamSize(g, t) > 0 THEN Load(g, t, s.saved) ELSE g
           Over(h) == Becomes(WithSaving(h, t, NotSaving))
<1>1. UNCHANGED saves
  BY Zenon DEF ProcessSaveTeam
<1>2. \/ s.kind = "save" /\ s.status = "done" /\ Over(AllToFlock(g, Players(g, t)))
      \/ s.kind = "save" /\ s.status = "failed" /\ Over(l)
      \/ s.kind = "load" /\ s.status = "failed" /\ Over(g)
      \/ s.kind = "load" /\ s.status = "done" /\ Over(l)
      \/ /\ s.kind = "load" /\ s.status = "done" /\ "invalid" \in Features
         /\ TeamSize(g, t) > 0
         /\ Over(KillTeam(Load(g, t, s.saved), t))
  BY Zenon DEF ProcessSaveTeam, WithSaving
<1>3. CASE TeamSize(g, t) > 0
  <2>1. l = Load(g, t, s.saved)
    BY Zenon, <1>3
  <2> HIDE DEF l
  <2> QED BY Zenon, <1>1, <1>2, <1>3, <2>1
<1>4. CASE ~(TeamSize(g, t) > 0)
  <2>1. l = g
    BY Zenon, <1>4
  <2> HIDE DEF l
  <2> QED BY Zenon, <1>1, <1>2, <1>4, <2>1
<1> QED BY Zenon, <1>3, <1>4

LEMMA ProcessSaveTeamFull ==
  ASSUME TeamsInv, NEW t \in RealTeams, ProcessSaveTeam(t)  PROVE TeamsInv'
<1>1. TeamsSound(g) /\ g \in GameStates /\ OutInFlock(g) /\ SavingSound(g)
  BY InvFacts DEF TeamsInv, Full
<1>2. PICK s : s = g.saving[t]
  OBVIOUS
<1>3. s.saved \in SavedTeams /\ SavedId(g, t) = s.saved.run.id
  BY <1>1, <1>2, SavingsOf DEF SavedId
<1>4. UNCHANGED saves
  BY <1>2, ProcessCases
<1>5. ASSUME s.kind = "save",
             Becomes(WithSaving(AllToFlock(g, Players(g, t)), t, NotSaving))
      PROVE  TeamsInv'
  <2>1. PICK k : k = AllToFlock(g, Players(g, t))
    OBVIOUS
  <2>2. Keeps(g, k) /\ AwaySpec(g, k, Players(g, t))
    BY <1>1, <2>1, AllAway, AliveMembers
  <2>3. Players(g, t) = Members(g, t)
    BY <1>1, TeamConstants DEF Players, Members, OutInFlock
  <2>4. Members(k, t) = {}
    BY <2>2, <2>3, TeamConstants DEF AwaySpec, Members
  <2>5. ~OnRun(k, t)
    BY <2>2, <2>4 DEF Keeps, TeamsSound, OnRun, EMPTY, STARTED, STARTED_UNFINISHABLE
  <2>6. PICK h : h = WithSaving(k, t, NotSaving)
    OBVIOUS
  <2>7. /\ TeamsSound(k) /\ k.saving = g.saving /\ OutStays(g, k)
        /\ \A u \in RealTeams : OnRun(k, u) => OnRun(g, u) /\ k.run[u].id = g.run[u].id
    BY <2>2 DEF Keeps, NoNewRun
  <2>8. Becomes(h)
    BY Zenon, <1>5, <2>1, <2>6
  <2> QED BY <1>4, <2>5, <2>6, <2>7, <2>8, ProcessFull
<1>6. ASSUME TeamSize(g, t) > 0 => s.kind = "load" /\ s.status = "failed",
             Becomes(WithSaving(g, t, NotSaving))
      PROVE  TeamsInv'
  <2>1. CASE TeamSize(g, t) > 0
    <3>1. g.saving[t].kind # "save" /\ OutStays(g, g)
      BY <1>2, <1>6, <2>1 DEF OutStays
    <3>2. PICK h : h = WithSaving(g, t, NotSaving)
      OBVIOUS
    <3>3. Becomes(h)
      BY Zenon, <1>6, <3>2
    <3> QED BY <1>1, <1>4, <3>1, <3>2, <3>3, ProcessFull
  <2>2. CASE ~(TeamSize(g, t) > 0)
    <3>1. Members(g, t) = {}
      <4>1. Members(g, t) \in SUBSET Clients
        BY AliveMembers
      <4>2. ASSUME NEW c \in Members(g, t)  PROVE FALSE
        <5>1. TeamSize(g, t) <= 1 => Members(g, t) = {c}
          BY <4>1, OnlyMember DEF TeamSize
        <5>2. TeamSize(g, t) \in Nat
          BY <4>1, ClientsFinite DEF TeamSize
        <5>3. Members(g, t) = {c} => TeamSize(g, t) = 1
          BY FS_Singleton DEF TeamSize
        <5> QED BY <2>2, <5>1, <5>2, <5>3
      <4> QED BY <4>2
    <3>2. ~OnRun(g, t) /\ OutStays(g, g)
      BY <1>1, <3>1 DEF TeamsSound, OnRun, OutStays, EMPTY, STARTED, STARTED_UNFINISHABLE
    <3>3. PICK h : h = WithSaving(g, t, NotSaving)
      OBVIOUS
    <3>4. Becomes(h)
      BY Zenon, <1>6, <3>3
    <3> QED BY <1>1, <1>4, <3>2, <3>3, <3>4, ProcessFull
  <2> QED BY <2>1, <2>2
<1>7. ASSUME TeamSize(g, t) > 0,
             \/ s.kind = "save" /\ s.status = "failed"
             \/ s.kind = "load" /\ s.status = "done",
             \/ Becomes(WithSaving(Load(g, t, s.saved), t, NotSaving))
             \/ Becomes(WithSaving(KillTeam(Load(g, t, s.saved), t), t, NotSaving))
      PROVE  TeamsInv'
  <2>1. s.saved.run.id # 0
    BY <1>1, <1>2, <1>7 DEF SavingSound
  <2>2. PICK l : l = Load(g, t, s.saved)
    OBVIOUS
  <2>3. /\ TeamsSound(l) /\ l.saving = g.saving /\ OutStays(g, l)
        /\ l.run[t].id = s.saved.run.id
        /\ \A u \in RealTeams : u # t /\ OnRun(l, u) => OnRun(g, u) /\ l.run[u] = g.run[u]
    BY <1>1, <1>3, <1>7, <2>1, <2>2, LoadSound
  <2>4. PICK m : m = KillTeam(l, t)
    OBVIOUS
  <2>5. Keeps(l, m)
    BY <2>3, <2>4, KillTeamKeeps
  <2>6. Keeps(l, l)
    BY <2>3, KeepsItself
  <2>7. ASSUME NEW k, Keeps(l, k), Becomes(WithSaving(k, t, NotSaving))  PROVE TeamsInv'
    <3>1. PICK h : h = WithSaving(k, t, NotSaving)
      OBVIOUS
    <3>2. /\ TeamsSound(k) /\ k.saving = g.saving
          /\ \A u \in RealTeams : OnRun(k, u) => OnRun(l, u) /\ k.run[u].id = l.run[u].id
      BY <2>3, <2>7 DEF Keeps, NoNewRun
    <3>3. OutStays(g, k)
      BY <2>3, <2>7 DEF Keeps, OutStays
    <3>4. \A u \in RealTeams : u # t /\ OnRun(k, u) => OnRun(g, u) /\ k.run[u].id = g.run[u].id
      BY <2>3, <3>2
    <3>5. OnRun(k, t) => k.run[t].id = SavedId(g, t)
      BY <1>3, <2>3, <3>2
    <3>6. Becomes(h)
      BY Zenon, <2>7, <3>1
    <3> QED BY <1>4, <3>1, <3>2, <3>3, <3>4, <3>5, <3>6, ProcessFull
  <2>8. Becomes(WithSaving(l, t, NotSaving)) \/ Becomes(WithSaving(m, t, NotSaving))
    BY Zenon, <1>7, <2>2, <2>4
  <2> QED BY <2>5, <2>6, <2>7, <2>8
<1> QED BY Zenon, <1>2, <1>5, <1>6, <1>7, ProcessCases

-----------------------------------------------------------------------------
(* The invariant holds. *)

LEMMA InitFields ==
  ASSUME TeamsInit
  PROVE  /\ g \in GameStates /\ saves = {}
         /\ \A c \in Clients : g.team[c] = FLOCK /\ g.tee[c] = "out" /\ g.race[c] = "NONE"
         /\ g.started = {} /\ g.finished = {} /\ g.ranked = {}
         /\ g.locked = {} /\ g.flock = {} /\ g.practice = {}
         /\ \A t \in Teams : /\ g.state[t] = IF t = FLOCK THEN OPEN ELSE EMPTY
                             /\ g.saving[t] = NotSaving /\ g.run[t] = NoRun
<1>1. /\ NoRun \in Runs /\ NotSaving \in Savings /\ FLOCK \in Teams
      /\ OPEN \in EMPTY .. FINISHED /\ EMPTY \in EMPTY .. FINISHED
  BY TeamConstants DEF OPEN, EMPTY, FINISHED
<1>2. PICK te, tm, ra, st, sv, ru :
        /\ tm = [c \in Clients |-> FLOCK] /\ te = [c \in Clients |-> "out"]
        /\ ra = [c \in Clients |-> "NONE"]
        /\ st = [t \in Teams |-> IF t = FLOCK THEN OPEN ELSE EMPTY]
        /\ sv = [t \in Teams |-> NotSaving] /\ ru = [t \in Teams |-> NoRun]
  OBVIOUS
<1>3. /\ tm \in [Clients -> Teams] /\ te \in [Clients -> {"out", "spec", "dead", "alive"}]
      /\ ra \in [Clients -> RaceStates] /\ st \in [Teams -> EMPTY .. FINISHED]
      /\ sv \in [Teams -> Savings] /\ ru \in [Teams -> Runs]
  BY <1>1, <1>2 DEF RaceStates
<1>4. g = [team |-> tm, tee |-> te, race |-> ra, started |-> {}, finished |-> {},
           state |-> st, locked |-> {}, flock |-> {}, practice |-> {}, killTick |-> {},
           saving |-> sv, run |-> ru, ranked |-> {}]
  BY Zenon, <1>2 DEF TeamsInit
<1>5. g \in GameStates
  BY <1>3, <1>4 DEF GameStates
<1>6. /\ g.team = tm /\ g.tee = te /\ g.race = ra /\ g.state = st /\ g.saving = sv
      /\ g.run = ru /\ g.started = {} /\ g.finished = {} /\ g.ranked = {}
      /\ g.locked = {} /\ g.flock = {} /\ g.practice = {}
  BY <1>4
<1> QED BY <1>2, <1>5, <1>6 DEF TeamsInit

LEMMA TeamsInvInit ==
  ASSUME TeamsInit  PROVE TeamsInv
<1>1. /\ g \in GameStates /\ saves = {}
      /\ \A c \in Clients : g.team[c] = FLOCK /\ g.tee[c] = "out"
      /\ g.locked = {} /\ g.flock = {} /\ g.practice = {}
      /\ \A t \in Teams : /\ g.state[t] = IF t = FLOCK THEN OPEN ELSE EMPTY
                          /\ g.saving[t] = NotSaving /\ g.run[t] = NoRun
  BY InitFields
<1>2. \A t \in RealTeams : g.state[t] = EMPTY /\ g.saving[t] = NotSaving /\ Members(g, t) = {}
  BY <1>1, TeamConstants DEF Members
<1>3. TeamsSound(g)
  BY <1>1, <1>2, TeamConstants DEF TeamsSound, EMPTY, STARTED
<1>4. \A t \in RealTeams : HeldId(g, t) = 0 /\ SavedId(g, t) = 0
  BY <1>2, TeamConstants
     DEF HeldId, SavedId, OnRun, EMPTY, STARTED, STARTED_UNFINISHABLE
<1>5. Apart(g, saves)
  BY <1>1, <1>4 DEF Apart
<1>6. SavingSound(g)
  BY <1>2, TeamConstants DEF SavingSound
<1>7. OutInFlock(g) /\ SavesSound(saves) /\ NoIdleRun(g)
  BY <1>1 DEF OutInFlock, SavesSound, NoIdleRun
<1> QED BY <1>3, <1>5, <1>6, <1>7 DEF TeamsInv, Full

LEMMA TeamsInvNext ==
  ASSUME TeamsInv, TeamsNext  PROVE TeamsInv'
<1>1. CASE \E c \in Clients :
             \/ Enter(c) \/ Respawn(c) \/ Leave(c) \/ Spectate(c) \/ Kill(c)
             \/ StartTile(c) \/ FinishTile(c) \/ UnlockTile(c)
  BY <1>1, EnterFull, RespawnFull, LeaveFull, SpectateFull, KillFull, StartTileFull,
     FinishTileFull, UnlockTileFull
<1>2. CASE \E c \in Clients :
             \/ Lock(c) \/ Practice(c) \/ UnPractice(c) \/ Team0Mode(c)
             \/ SaveTeam(c) \/ LoadTeam(c)
             \/ \E t \in Teams : Join(c, t)
             \/ \E d \in Clients : Swap(c, d)
  BY <1>2, LockFull, PracticeFull, UnPracticeFull, Team0ModeFull, SaveTeamFull,
     LoadTeamFull, JoinFull, SwapFull
<1>3. CASE \E t \in RealTeams :
             Tick(t) \/ SaveWorker(t) \/ LoadWorker(t) \/ ProcessSaveTeam(t)
  BY <1>3, TickFull, SaveWorkerFull, LoadWorkerFull, ProcessSaveTeamFull
<1> QED BY <1>1, <1>2, <1>3 DEF TeamsNext

LEMMA TeamsInvStutter ==
  ASSUME TeamsInv, UNCHANGED teamsVars  PROVE TeamsInv'
<1>1. g' = g /\ saves' = saves
  BY DEF teamsVars
<1> QED BY <1>1 DEF TeamsInv

LEMMA InvConsistent ==
  ASSUME TeamsInv  PROVE TeamsConsistent
<1>1. TeamsSound(g) /\ g \in GameStates /\ NoIdleRun(g) /\ SavesSound(saves)
      /\ Apart(g, saves) /\ OutInFlock(g)
  BY InvFacts DEF TeamsInv, Full
<1>2. TeamsTypeOK
  BY <1>1 DEF TeamsTypeOK, OutInFlock, SavesSound
<1>3. EmptyTeams
  BY <1>1 DEF EmptyTeams, TeamsSound
<1>4. ASSUME NEW i \in 1 .. MaxRuns  PROVE \A p, q \in Places(i) : p = q
  <2>1. \A u \in RealTeams : Racing(g, u) /\ g.run[u].id = i => HeldId(g, u) = i
    <3> SUFFICES ASSUME NEW u \in RealTeams, Racing(g, u), g.run[u].id = i
                 PROVE  HeldId(g, u) = i
      OBVIOUS
    <3>1. g.saving[u].kind = "none" /\ g.run[u].id # 0
      BY TeamConstants DEF Racing, GetSaving
    <3>2. g.state[u] \in {STARTED, STARTED_UNFINISHABLE}
      <4>1. g.state[u] \notin {STARTED, STARTED_UNFINISHABLE} => g.run[u] = NoRun
        BY <1>1, TeamConstants DEF NoIdleRun
      <4> QED BY <4>1, <3>1, TeamConstants
    <3> QED BY <3>1, <3>2 DEF HeldId, OnRun
  <2>2. i # 0
    BY TeamConstants
  <2>3. \A u, w \in RealTeams :
          Racing(g, u) /\ g.run[u].id = i /\ Racing(g, w) /\ g.run[w].id = i => u = w
    BY <1>1, <2>1, <2>2 DEF Apart
  <2>4. \A u, w \in RealTeams : SavedId(g, u) = i /\ SavedId(g, w) = i => u = w
    BY <1>1, <2>2 DEF Apart
  <2>5. \A v, w \in saves : v.run.id = i /\ w.run.id = i => v = w
    BY <1>1 DEF Apart
  <2>6. \A u, w \in RealTeams : Racing(g, u) /\ g.run[u].id = i => SavedId(g, w) # i
    BY <1>1, <2>1, <2>2 DEF Apart
  <2>7. \A u \in RealTeams, v \in saves :
          v.run.id = i => SavedId(g, u) # i /\ ~(Racing(g, u) /\ g.run[u].id = i)
    BY <1>1, <2>1 DEF Apart
  <2>8. \A p \in Places(i) :
          \/ \E u \in RealTeams : p = <<"team", u>> /\ Racing(g, u) /\ g.run[u].id = i
          \/ \E u \in RealTeams : p = <<"saving", u>> /\ SavedId(g, u) = i
          \/ \E v \in saves : p = <<"saved", v>> /\ v.run.id = i
    BY DEF Places, SavedId
  <2> SUFFICES ASSUME NEW p \in Places(i), NEW q \in Places(i)  PROVE p = q
    OBVIOUS
  <2>9. CASE \E u \in RealTeams : p = <<"team", u>> /\ Racing(g, u) /\ g.run[u].id = i
    BY Zenon, <2>3, <2>6, <2>7, <2>8, <2>9
  <2>10. CASE \E u \in RealTeams : p = <<"saving", u>> /\ SavedId(g, u) = i
    BY Zenon, <2>4, <2>6, <2>7, <2>8, <2>10
  <2>11. CASE \E v \in saves : p = <<"saved", v>> /\ v.run.id = i
    BY Zenon, <2>5, <2>7, <2>8, <2>11
  <2> QED BY <2>8, <2>9, <2>10, <2>11
<1>5. OneCopy
  BY <1>4 DEF OneCopy
<1> QED BY <1>2, <1>3, <1>5 DEF TeamsConsistent

\* A team nobody is in is EMPTY and keeps nothing, and a run is never in two
\* places, whatever the players, the database and the ticks do (TeamsConsistent).
THEOREM TeamsAreConsistent == TeamsSpec => []TeamsConsistent
<1>1. TeamsInit => TeamsInv
  BY TeamsInvInit
<1>2. TeamsInv /\ [TeamsNext]_teamsVars => TeamsInv'
  BY TeamsInvNext, TeamsInvStutter
<1>3. TeamsInv => TeamsConsistent
  BY InvConsistent
<1> QED BY <1>1, <1>2, <1>3, PTL DEF TeamsSpec

-----------------------------------------------------------------------------
(* What makes the runs fair. *)

Moving(h, t) == h.state[t] \in {STARTED, STARTED_UNFINISHABLE}
Racer(h, c) == h.tee[c] = "alive" /\ h.race[c] = "STARTED"

\* Who finished is in a team, and plays, unless he is one of X or his team is being
\* saved.
FinishersPlay(h, X) ==
  \A c \in h.finished :
    /\ h.team[c] # FLOCK
    /\ c \in X \/ h.tee[c] = "alive" \/ h.saving[h.team[c]].kind = "save"

\* Nobody has finished in a team that is not on its way, but for the teams T.
IdleFresh(h, T) ==
  \A c \in h.finished :
    h.team[c] \in T \/ Moving(h, h.team[c]) \/ h.saving[h.team[c]].kind = "save"

RacersMove(h, T) ==
  \A c \in Clients : Racer(h, c) =>
    \/ h.team[c] = FLOCK \/ h.team[c] \in T \/ Moving(h, h.team[c])
    \/ h.state[h.team[c]] = FINISHED /\ h.team[c] \in h.flock

\* A team practiced on its run and does not any more.
Practiced(h, t) ==
  h.state[t] = STARTED /\ t \notin h.practice /\ "practiced" \in h.run[t].marks

PracticeHeld(h) ==
  \A c \in Clients : h.team[c] # FLOCK /\ Practiced(h, h.team[c]) =>
    c \notin h.finished /\ (h.team[c] \notin h.flock => ~Racer(h, c))

MarksFair(h) ==
  /\ \A t \in RealTeams : h.run[t].marks \subseteq {"practiced", "deserted"}
  /\ \A r \in h.ranked : r.marks \subseteq {"deserted"}

LoadsOpen(h) ==
  \A t \in RealTeams : h.saving[t].kind = "load" => h.state[t] \in {EMPTY, OPEN}

Fair(h, X, T) ==
  /\ FinishersPlay(h, X) /\ IdleFresh(h, T) /\ RacersMove(h, T)
  /\ PracticeHeld(h) /\ MarksFair(h) /\ LoadsOpen(h)

\* From h to k nobody finishes or starts, and no team does.
Lowers(h, k) ==
  /\ k.finished \subseteq h.finished /\ k.ranked = h.ranked
  /\ \A c \in k.finished : k.team[c] = h.team[c]
  /\ \A c \in Clients : Racer(k, c) => Racer(h, c) /\ k.team[c] \in {h.team[c], FLOCK}
  /\ \A u \in RealTeams :
       /\ k.saving[u].kind = "save" <=> h.saving[u].kind = "save"
       /\ k.run[u].marks \subseteq h.run[u].marks \cup {"practiced", "deserted"}
       /\ k.saving[u].kind = "load" => \/ k.state[u] \in {EMPTY, OPEN}
                                       \/ h.saving[u].kind = "load" /\ k.state[u] = h.state[u]
  /\ \A u \in RealTeams : k.state[u] # EMPTY =>
       /\ Moving(h, u) => Moving(k, u)
       /\ h.state[u] = FINISHED /\ u \in h.flock => k.state[u] = FINISHED /\ u \in k.flock
       /\ Practiced(k, u) => Practiced(h, u) /\ (u \in h.flock => u \in k.flock)

LEMMA LowersFair ==
  ASSUME NEW h, NEW k, NEW X, NEW Y, NEW T, TeamsSound(h), TeamsSound(k), Fair(h, X, T),
         Lowers(h, k),
         \A c \in k.finished :
           c \in Y \/ (c \notin X /\ (h.tee[c] = "alive" => k.tee[c] = "alive"))
  PROVE  Fair(k, Y, T)
<1>1. /\ h \in GameStates /\ k \in GameStates
      /\ \A c \in Clients : h.team[c] \in Teams /\ k.team[c] \in Teams
      /\ k.finished \subseteq Clients /\ h.finished \subseteq Clients
  BY DEF TeamsSound, GameStates
<1>2. RealTeams = Teams \ {FLOCK}
  BY TeamConstants
<1>3. \A c \in Clients : k.team[c] # FLOCK => k.state[k.team[c]] # EMPTY
  BY <1>1, <1>2 DEF TeamsSound, Members
<1>4. \A c \in k.finished :
        /\ c \in Clients /\ c \in h.finished /\ k.team[c] = h.team[c]
        /\ h.team[c] # FLOCK /\ h.team[c] \in RealTeams /\ k.state[k.team[c]] # EMPTY
  BY <1>1, <1>2, <1>3 DEF Lowers, Fair, FinishersPlay
<1>5. FinishersPlay(k, Y)
  BY <1>4 DEF Lowers, Fair, FinishersPlay
<1>6. IdleFresh(k, T)
  BY <1>4 DEF Lowers, Fair, IdleFresh
<1>7. RacersMove(k, T)
  <2> SUFFICES ASSUME NEW c \in Clients, Racer(k, c), k.team[c] # FLOCK
               PROVE  \/ k.team[c] \in T \/ Moving(k, k.team[c])
                      \/ k.state[k.team[c]] = FINISHED /\ k.team[c] \in k.flock
    BY DEF RacersMove
  <2>1. Racer(h, c) /\ k.team[c] = h.team[c] /\ k.team[c] \in RealTeams
        /\ k.state[k.team[c]] # EMPTY
    BY <1>1, <1>2, <1>3 DEF Lowers
  <2>2. \/ h.team[c] \in T \/ Moving(h, h.team[c])
        \/ h.state[h.team[c]] = FINISHED /\ h.team[c] \in h.flock
    BY <2>1 DEF Fair, RacersMove
  <2> QED BY <2>1, <2>2 DEF Lowers
<1>8. PracticeHeld(k)
  <2> SUFFICES ASSUME NEW c \in Clients, k.team[c] # FLOCK, Practiced(k, k.team[c])
               PROVE  c \notin k.finished /\ (k.team[c] \notin k.flock => ~Racer(k, c))
    BY DEF PracticeHeld
  <2>1. PICK u \in RealTeams : u = k.team[c]
    BY <1>1, <1>2
  <2>2. Practiced(h, u) /\ (u \in h.flock => u \in k.flock)
    BY <1>3, <2>1 DEF Lowers
  <2>3. c \notin k.finished
    BY <1>4, <2>1, <2>2 DEF Fair, PracticeHeld
  <2>4. u \notin k.flock => ~Racer(k, c)
    <3> SUFFICES ASSUME u \notin k.flock, Racer(k, c)  PROVE FALSE
      OBVIOUS
    <3>1. Racer(h, c) /\ h.team[c] = u
      BY <1>2, <2>1 DEF Lowers
    <3> QED BY <1>2, <2>2, <3>1 DEF Fair, PracticeHeld
  <2> QED BY <2>1, <2>3, <2>4
<1>9. MarksFair(k)
  BY DEF Lowers, Fair, MarksFair
<1>10. LoadsOpen(k)
  BY DEF Lowers, Fair, LoadsOpen
<1> QED BY <1>5, <1>6, <1>7, <1>8, <1>9, <1>10 DEF Fair

\* From h to k nobody comes to life or joins a team, and no mode is switched on.
Drops(h, k) ==
  /\ \A c \in Clients : /\ k.tee[c] = "alive" => h.tee[c] = "alive"
                        /\ k.team[c] \in {h.team[c], FLOCK}
  /\ k.flock \subseteq h.flock

LEMMA DropsOn ==
  ASSUME NEW a, NEW b, NEW d, Drops(a, b), Drops(b, d)  PROVE Drops(a, d)
BY DEF Drops

\* No team changes its state.
LEMMA SameLowers ==
  ASSUME NEW h, NEW k, k.team = h.team, k.state = h.state, k.saving = h.saving,
         k.flock = h.flock, h.practice \subseteq k.practice, k.ranked = h.ranked,
         k.finished \subseteq h.finished,
         \A c \in Clients : Racer(k, c) => Racer(h, c),
         \A u \in RealTeams :
           /\ k.run[u].marks \subseteq h.run[u].marks \cup {"practiced", "deserted"}
           /\ Practiced(k, u) => "practiced" \in h.run[u].marks
  PROVE  Lowers(h, k)
<1>1. \A u \in RealTeams : Practiced(k, u) => Practiced(h, u)
  BY DEF Practiced
<1> QED BY <1>1 DEF Lowers, Moving

LEMMA MoveLowers ==
  ASSUME NEW h, TeamsSound(h), NEW c \in Clients, NEW t \in Teams,
         NEW k, k = SetForceCharacterTeam(h, c, t),
         t \in {h.team[c], FLOCK} \/ ~Racer(h, c)
  PROVE  Lowers(h, k) /\ c \notin k.finished /\ k.tee = h.tee
<1>1. h \in GameStates
  BY DEF TeamsSound
<1>2. PICK gone : gone = Gone(h, c, t)
  OBVIOUS
<1>3. MoveSpec(h, k, c, t, gone)
  BY <1>1, <1>2, Moves
<1>4. \A d \in Clients : k.team[d] = IF d = c THEN t ELSE h.team[d]
  BY <1>1, <1>3 DEF MoveSpec, GameStates
<1>5. h.finished \subseteq Clients
  BY <1>1 DEF GameStates
<1>6. \A d \in Clients : Racer(k, d) <=> Racer(h, d)
  BY <1>3 DEF MoveSpec, Racer
<1>7. \A d \in Clients : Racer(k, d) => Racer(h, d) /\ k.team[d] \in {h.team[d], FLOCK}
  BY <1>4, <1>6
<1>8. /\ k.finished \subseteq h.finished /\ k.ranked = h.ranked
      /\ \A d \in k.finished : k.team[d] = h.team[d]
  BY <1>3, <1>4, <1>5 DEF MoveSpec
<1>9. ASSUME NEW u \in RealTeams
      PROVE  \/ k.state[u] = EMPTY
             \/ k.state[u] = h.state[u] /\ u \notin gone
             \/ k.state[u] = OPEN /\ h.state[u] = EMPTY /\ u = t
  <2>1. u \in Teams
    BY TeamConstants
  <2> QED BY <1>3, <2>1 DEF MoveSpec
<1>10. ASSUME NEW u \in RealTeams
       PROVE  /\ k.saving[u].kind = "save" <=> h.saving[u].kind = "save"
              /\ k.run[u].marks \subseteq h.run[u].marks \cup {"practiced", "deserted"}
              /\ k.saving[u].kind = "load" =>
                   \/ k.state[u] \in {EMPTY, OPEN}
                   \/ h.saving[u].kind = "load" /\ k.state[u] = h.state[u]
  <2>1. u \in Teams
    BY TeamConstants
  <2> QED BY <1>3, <1>9, <2>1 DEF MoveSpec
<1>11. ASSUME NEW u \in RealTeams, k.state[u] # EMPTY
       PROVE  /\ Moving(h, u) => Moving(k, u)
              /\ h.state[u] = FINISHED /\ u \in h.flock => k.state[u] = FINISHED /\ u \in k.flock
              /\ Practiced(k, u) => Practiced(h, u) /\ (u \in h.flock => u \in k.flock)
  <2>1. u \in Teams
    BY TeamConstants
  <2>2. CASE k.state[u] = OPEN /\ h.state[u] = EMPTY
    BY <2>2 DEF Moving, Practiced, EMPTY, OPEN, STARTED, STARTED_UNFINISHABLE, FINISHED
  <2>3. CASE k.state[u] = h.state[u] /\ u \notin gone
    <3>1. k.practice = h.practice \ gone /\ k.flock = h.flock \ gone
          /\ k.run[u].marks \subseteq h.run[u].marks \cup {"deserted"}
      BY <1>3, <2>1 DEF MoveSpec
    <3> QED BY <2>3, <3>1 DEF Moving, Practiced
  <2> QED BY <1>9, <1>11, <2>2, <2>3
<1>12. c \notin k.finished /\ k.tee = h.tee
  BY <1>3 DEF MoveSpec
<1> QED BY <1>7, <1>8, <1>10, <1>11, <1>12 DEF Lowers

LEMMA MoveDrops ==
  ASSUME NEW h, TeamsSound(h), NEW c \in Clients, NEW t \in {h.team[c], FLOCK},
         NEW k, k = SetForceCharacterTeam(h, c, t)
  PROVE  Drops(h, k)
<1>1. h \in GameStates /\ t \in Teams
  BY TeamConstants DEF TeamsSound, GameStates
<1>2. MoveSpec(h, k, c, t, Gone(h, c, t))
  BY <1>1, Moves
<1>3. \A d \in Clients : k.team[d] = IF d = c THEN t ELSE h.team[d]
  BY <1>1, <1>2 DEF MoveSpec, GameStates
<1> QED BY <1>2, <1>3 DEF MoveSpec, Drops

LEMMA AllAwayLowers ==
  ASSUME NEW h, TeamsSound(h), NEW C \in SUBSET Clients, NEW k, k = AllToFlock(h, C)
  PROVE  Lowers(h, k) /\ Drops(h, k) /\ k.tee = h.tee
<1>1. Keeps(h, k) /\ AwaySpec(h, k, C)
  BY AllAway
<1>2. h.finished \subseteq Clients
  BY DEF TeamsSound, GameStates
<1>3. /\ k.finished \subseteq h.finished /\ k.ranked = h.ranked
      /\ \A d \in k.finished : k.team[d] = h.team[d]
      /\ \A d \in Clients : Racer(k, d) => Racer(h, d) /\ k.team[d] \in {h.team[d], FLOCK}
  BY <1>1, <1>2 DEF AwaySpec, Racer
<1>4. ASSUME NEW u \in RealTeams
      PROVE  /\ k.saving[u].kind = "save" <=> h.saving[u].kind = "save"
             /\ k.run[u].marks \subseteq h.run[u].marks \cup {"practiced", "deserted"}
             /\ k.saving[u].kind = "load" =>
                  \/ k.state[u] \in {EMPTY, OPEN}
                  \/ h.saving[u].kind = "load" /\ k.state[u] = h.state[u]
  BY <1>1, TeamConstants DEF AwaySpec
<1>5. ASSUME NEW u \in RealTeams, k.state[u] # EMPTY
      PROVE  /\ Moving(h, u) => Moving(k, u)
             /\ h.state[u] = FINISHED /\ u \in h.flock => k.state[u] = FINISHED /\ u \in k.flock
             /\ Practiced(k, u) => Practiced(h, u) /\ (u \in h.flock => u \in k.flock)
  <2>1. k.run[u].marks \subseteq h.run[u].marks \cup {"deserted"}
    BY <1>1, TeamConstants DEF AwaySpec
  <2>2. /\ k.state[u] = h.state[u]
        /\ (u \in k.practice <=> u \in h.practice) /\ (u \in k.flock <=> u \in h.flock)
    BY <1>1, <1>5 DEF AwaySpec
  <2> QED BY <2>1, <2>2 DEF Moving, Practiced
<1>6. Drops(h, k)
  BY <1>1 DEF AwaySpec, Drops
<1> QED BY <1>1, <1>3, <1>4, <1>5, <1>6 DEF Lowers, AwaySpec

\* The same team T of exceptions, and nobody to except.
LEMMA LowersOn ==
  ASSUME NEW h, NEW k, NEW T, TeamsSound(h), TeamsSound(k), Fair(h, {}, T), Lowers(h, k),
         k.tee = h.tee
  PROVE  Fair(k, {}, T)
BY LowersFair

LEMMA FinishFair ==
  ASSUME NEW h, TeamsSound(h), NEW T, Fair(h, {}, T), NEW t \in RealTeams,
         h.state[t] = STARTED, Members(h, t) \subseteq h.finished, Alive(h, t) # {},
         NEW d, FinishSpec(h, d, t, Alive(h, t)),
         d.ranked = IF t \in h.practice THEN h.ranked ELSE h.ranked \cup {h.run[t]}
  PROVE  Fair(d, {}, T) /\ Drops(h, d)
<1>1. h \in GameStates /\ \A c \in Clients : h.team[c] \in Teams
  BY DEF TeamsSound, GameStates
<1>2. h.finished \subseteq Clients /\ t \in Teams /\ t # FLOCK
  BY <1>1, TeamConstants DEF GameStates
<1>3. PICK C : C = Alive(h, t)
  OBVIOUS
<1>4. \A c \in Clients : c \in C <=> h.team[c] = t /\ h.tee[c] = "alive"
  BY <1>3 DEF Alive, Members
<1>5. FinishSpec(h, d, t, C)
  BY <1>3
<1>6. \A c \in d.finished : /\ c \in h.finished /\ c \in Clients /\ d.team[c] = h.team[c]
                            /\ h.team[c] = t => h.saving[t].kind = "save"
  BY <1>2, <1>4, <1>5 DEF FinishSpec, Fair, FinishersPlay
<1>7. FinishersPlay(d, {})
  BY <1>5, <1>6 DEF FinishSpec, Fair, FinishersPlay
<1>8. \A u \in RealTeams : u # t => d.state[u] = h.state[u] /\ (Moving(d, u) <=> Moving(h, u))
  BY <1>5, TeamConstants DEF FinishSpec, Moving
<1>9. IdleFresh(d, T)
  <2> SUFFICES ASSUME NEW c \in d.finished
               PROVE  \/ d.team[c] \in T \/ Moving(d, d.team[c])
                      \/ d.saving[d.team[c]].kind = "save"
    BY DEF IdleFresh
  <2>1. d.team[c] = h.team[c] /\ d.saving = h.saving
    BY <1>5 DEF FinishSpec
  <2>2. CASE h.team[c] = t
    BY <1>6, <2>1, <2>2
  <2>3. CASE h.team[c] # t
    <3>1. h.team[c] \in RealTeams
      BY <1>1, <1>6, TeamConstants DEF Fair, FinishersPlay
    <3>2. h.team[c] \in T \/ Moving(h, h.team[c]) \/ h.saving[h.team[c]].kind = "save"
      BY <1>6 DEF Fair, IdleFresh
    <3> QED BY <1>8, <2>1, <2>3, <3>1, <3>2
  <2> QED BY <2>2, <2>3
<1>10. \A c \in Clients : Racer(d, c) => Racer(h, c) /\ h.team[c] # t /\ d.team[c] = h.team[c]
  BY <1>4, <1>5 DEF FinishSpec, Racer
<1>11. RacersMove(d, T)
  <2> SUFFICES ASSUME NEW c \in Clients, Racer(d, c), d.team[c] # FLOCK
               PROVE  \/ d.team[c] \in T \/ Moving(d, d.team[c])
                      \/ d.state[d.team[c]] = FINISHED /\ d.team[c] \in d.flock
    BY DEF RacersMove
  <2>1. PICK u \in RealTeams : u = d.team[c] /\ u = h.team[c] /\ u # t /\ Racer(h, c)
    BY <1>1, <1>10, TeamConstants
  <2>2. u \in T \/ Moving(h, u) \/ (h.state[u] = FINISHED /\ u \in h.flock)
    BY <2>1 DEF Fair, RacersMove
  <2> QED BY <1>5, <1>8, <2>1, <2>2 DEF FinishSpec
<1>12. \A u \in RealTeams : Practiced(d, u) => u # t /\ Practiced(h, u)
  BY <1>5, TeamConstants DEF FinishSpec, Practiced, STARTED, FINISHED
<1>13. PracticeHeld(d)
  <2> SUFFICES ASSUME NEW c \in Clients, d.team[c] # FLOCK, Practiced(d, d.team[c])
               PROVE  c \notin d.finished /\ (d.team[c] \notin d.flock => ~Racer(d, c))
    BY DEF PracticeHeld
  <2>1. d.team[c] = h.team[c] /\ h.team[c] \in RealTeams /\ d.flock = h.flock
    BY <1>1, <1>5, TeamConstants DEF FinishSpec
  <2>2. Practiced(h, h.team[c])
    BY <1>12, <2>1
  <2>3. c \notin h.finished /\ (h.team[c] \notin h.flock => ~Racer(h, c))
    BY <2>1, <2>2 DEF Fair, PracticeHeld
  <2> QED BY <1>6, <1>10, <2>1, <2>3
<1>14. t \notin h.practice => "practiced" \notin h.run[t].marks
  <2> SUFFICES ASSUME t \notin h.practice, "practiced" \in h.run[t].marks  PROVE FALSE
    OBVIOUS
  <2>1. PICK c \in C : TRUE
    BY <1>3
  <2>2. c \in Clients /\ h.team[c] = t /\ c \in h.finished
    BY <1>3, <2>1 DEF Alive, Members
  <2>3. Practiced(h, t)
    BY DEF Practiced
  <2> QED BY <1>2, <2>2, <2>3 DEF Fair, PracticeHeld
<1>15. MarksFair(d)
  <2>1. d.run = h.run
    BY <1>5 DEF FinishSpec
  <2>2. h.run[t].marks \subseteq {"practiced", "deserted"}
    BY DEF Fair, MarksFair
  <2> QED BY <1>14, <2>1, <2>2 DEF Fair, MarksFair
<1>16. LoadsOpen(d)
  <2>1. h.saving[t].kind # "load"
    BY DEF Fair, LoadsOpen, EMPTY, OPEN, STARTED
  <2> QED BY <1>5, <1>8, <2>1 DEF Fair, LoadsOpen, FinishSpec
<1>17. Drops(h, d)
  BY <1>5 DEF FinishSpec, Drops
<1> QED BY <1>7, <1>9, <1>11, <1>13, <1>15, <1>16, <1>17 DEF Fair

LEMMA DropsNothing ==
  ASSUME NEW h  PROVE Drops(h, h)
BY DEF Drops

LEMMA CheckFair ==
  ASSUME NEW h, TeamsSound(h), NEW T, Fair(h, {}, T), NEW t \in Teams,
         NEW k, k = CheckTeamFinished(h, t)
  PROVE  Fair(k, {}, T) /\ Drops(h, k) /\ k.tee = h.tee
<1>1. CASE k = h
  BY <1>1, DropsNothing
<1>2. CASE k # h
  <2> Finishes(h, k, t)
    BY <1>2, CheckCases
  <2>1. PICK d : /\ FinishSpec(h, d, t, Alive(h, t)) /\ Keeps(h, d)
                 /\ d.ranked = IF t \in h.practice THEN h.ranked ELSE h.ranked \cup {h.run[t]}
                 /\ k = d \/ k = AllToFlock(d, Alive(h, t))
    BY DEF Finishes
  <2>2. Fair(d, {}, T) /\ Drops(h, d)
    BY <2>1, FinishFair DEF Finishes
  <2>3. TeamsSound(d) /\ d.tee = h.tee
    BY <2>1 DEF Keeps, FinishSpec
  <2>4. CASE k = AllToFlock(d, Alive(h, t))
    <3>1. Lowers(d, k) /\ Drops(d, k) /\ k.tee = d.tee
      BY <2>3, <2>4, AllAwayLowers, AliveMembers
    <3>2. TeamsSound(k)
      BY <2>3, <2>4, AllAway, AliveMembers DEF Keeps
    <3>3. Fair(k, {}, T)
      BY <2>2, <2>3, <3>1, <3>2, LowersOn
    <3> QED BY <2>2, <2>3, <3>1, <3>3, DropsOn
  <2> QED BY <2>1, <2>2, <2>3, <2>4
<1> QED BY <1>1, <1>2

-----------------------------------------------------------------------------
(* Deaths keep the teams fair. *)

LEMMA KilledLowers ==
  ASSUME NEW h, TeamsSound(h), NEW c \in Clients, NEW k, k = Killed(h, c)
  PROVE  Lowers(h, k) /\ Drops(h, k) /\ k.tee[c] = "dead"
         /\ \A d \in Clients : d # c => k.tee[d] = h.tee[d]
<1>1. h \in GameStates
  BY DEF TeamsSound
<1>2. /\ k.team = h.team /\ k.tee = [h.tee EXCEPT ![c] = "dead"]
      /\ k.race = h.race /\ k.finished = h.finished
      /\ k.state = h.state /\ k.flock = h.flock /\ k.practice = h.practice
      /\ k.saving = h.saving /\ k.run = h.run /\ k.ranked = h.ranked
  BY <1>1, KilledFields
<1>3. k.tee[c] = "dead" /\ \A d \in Clients : d # c => k.tee[d] = h.tee[d]
  BY <1>1, <1>2 DEF GameStates
<1>4. \A d \in Clients : Racer(k, d) => Racer(h, d)
  BY <1>2, <1>3 DEF Racer
<1>5. Lowers(h, k)
  BY <1>2, <1>4, SameLowers DEF Practiced
<1> QED BY <1>2, <1>3, <1>5 DEF Drops

LEMMA KilledFair ==
  ASSUME NEW h, TeamsSound(h), NEW T, Fair(h, {}, T), NEW c \in Clients, h.tee[c] # "out",
         NEW k, k = Killed(h, c)
  PROVE  Fair(k, {c}, T) /\ Drops(h, k) /\ TeamsSound(k) /\ k.tee[c] = "dead"
<1>1. Lowers(h, k) /\ Drops(h, k) /\ k.tee[c] = "dead"
      /\ \A d \in Clients : d # c => k.tee[d] = h.tee[d]
  BY KilledLowers
<1>2. TeamsSound(k)
  BY KilledKeeps DEF Keeps
<1>3. \A d \in k.finished : d \in Clients
  BY <1>2 DEF TeamsSound, GameStates
<1>4. Fair(k, {c}, T)
  BY <1>1, <1>2, <1>3, LowersFair
<1> QED BY <1>1, <1>2, <1>4

LEMMA SpoilLowers ==
  ASSUME NEW h, TeamsSound(h), NEW t \in RealTeams, h.state[t] = STARTED,
         h.saving[t].kind = "none", NEW k, k = Spoil(h, t)
  PROVE  Lowers(h, k) /\ Drops(h, k) /\ TeamsSound(k) /\ k.tee = h.tee
<1>1. Keeps(h, k) /\ SpoilSpec(h, k, t)
  BY SpoilKeeps
<1>2. h.state \in [Teams -> EMPTY .. FINISHED]
  BY DEF TeamsSound, GameStates
<1>3. \A u \in RealTeams : k.state[u] = IF u = t THEN STARTED_UNFINISHABLE ELSE h.state[u]
  BY <1>1, <1>2, TeamConstants DEF SpoilSpec
<1>4. /\ k.saving = h.saving /\ k.run = h.run /\ k.team = h.team /\ k.tee = h.tee
      /\ k.finished = h.finished /\ k.ranked = h.ranked /\ k.flock = h.flock
      /\ k.practice = h.practice /\ k.race = h.race
  BY <1>1 DEF SpoilSpec
<1>5. ASSUME NEW u \in RealTeams
      PROVE  /\ Moving(h, u) => Moving(k, u)
             /\ h.state[u] = FINISHED /\ u \in h.flock => k.state[u] = FINISHED /\ u \in k.flock
             /\ Practiced(k, u) => Practiced(h, u)
             /\ k.saving[u].kind = "load" => k.state[u] = h.state[u]
  BY <1>3, <1>4 DEF Moving, Practiced, STARTED, STARTED_UNFINISHABLE, FINISHED
<1>6. Lowers(h, k)
  BY <1>4, <1>5 DEF Lowers, Racer
<1> QED BY <1>1, <1>4, <1>6 DEF Drops, Keeps

\* The tee that died needs no exception once its flags are cleared.
LEMMA MoveFair ==
  ASSUME NEW h, TeamsSound(h), NEW T, NEW c \in Clients, Fair(h, {c}, T),
         NEW t \in {h.team[c], FLOCK}, NEW k, k = SetForceCharacterTeam(h, c, t)
  PROVE  Fair(k, {}, T) /\ Drops(h, k) /\ TeamsSound(k) /\ k.tee = h.tee
<1>1. t \in Teams
  BY TeamConstants DEF TeamsSound, GameStates
<1>2. Lowers(h, k) /\ c \notin k.finished /\ k.tee = h.tee
  BY <1>1, MoveLowers
<1>3. TeamsSound(k)
  BY MoveKeeps DEF Keeps
<1>4. Fair(k, {}, T)
  BY <1>2, <1>3, LowersFair
<1>5. Drops(h, k)
  BY MoveDrops
<1> QED BY <1>2, <1>3, <1>4, <1>5

LEMMA SavingKinds ==
  ASSUME NEW h \in GameStates, NEW t \in Teams
  PROVE  /\ h.saving[t].kind \in {"none", "save", "load"}
         /\ GetSaving(h, t) <=> t # FLOCK /\ h.saving[t].kind # "none"
BY DEF GameStates, Savings, GetSaving

LEMMA DiesAloneFair ==
  ASSUME NEW h, TeamsSound(h), NEW T, NEW c \in Clients, Fair(h, {c}, T),
         h.team[c] \in T => ~GetSaving(h, h.team[c]),
         NEW weapon, NEW k, k = DiesAlone(h, c, weapon)
  PROVE  Fair(k, {}, T) /\ Drops(h, k)
<1>1. PICK t : t = h.team[c]
  OBVIOUS
<1>2. h \in GameStates /\ t \in Teams
  BY <1>1 DEF TeamsSound, GameStates
<1>3. CASE GetSaving(h, t)
  <2>1. k = h
    BY <1>1, <1>3 DEF DiesAlone
  <2>2. ASSUME c \in h.finished  PROVE h.saving[t].kind = "save"
    <3>1. t \notin T /\ t \in RealTeams /\ h.saving[t].kind \in {"save", "load"}
      BY <1>1, <1>2, <1>3, TeamConstants, SavingKinds
    <3>2. Moving(h, t) \/ h.saving[t].kind = "save"
      BY <1>1, <2>2, <3>1 DEF Fair, IdleFresh
    <3>3. h.saving[t].kind = "load" => ~Moving(h, t)
      BY <3>1 DEF Fair, LoadsOpen, Moving, EMPTY, OPEN, STARTED, STARTED_UNFINISHABLE
    <3> QED BY <3>1, <3>2, <3>3
  <2>3. FinishersPlay(h, {})
    BY <1>1, <2>2 DEF Fair, FinishersPlay
  <2> QED BY <2>1, <2>3, DropsNothing DEF Fair
<1>4. CASE ~GetSaving(h, t) /\ (t \notin h.locked \/ weapon = "game")
  <2>1. PICK a : a = IF h.state[t] = STARTED /\ c \notin h.started /\ t \notin h.flock
                     THEN Spoil(h, t) ELSE h
    OBVIOUS
  <2>2. PICK b : b = ToFlock(a, c)
    OBVIOUS
  <2>3. k = CheckTeamFinished(b, t)
    BY <1>1, <1>4, <2>1, <2>2 DEF DiesAlone
  <2>4. TeamsSound(a) /\ Fair(a, {c}, T) /\ Drops(h, a)
    <3>1. CASE a = h
      BY <3>1, DropsNothing
    <3>2. CASE a # h
      <4>1. t \in RealTeams /\ h.state[t] = STARTED /\ a = Spoil(h, t)
        BY <1>2, <2>1, <3>2, TeamConstants DEF TeamsSound, OPEN, STARTED
      <4>2. h.saving[t].kind = "none"
        BY <1>2, <1>4, <4>1, TeamConstants, SavingKinds
      <4>3. Lowers(h, a) /\ Drops(h, a) /\ TeamsSound(a) /\ a.tee = h.tee
        BY <4>1, <4>2, SpoilLowers
      <4>4. Fair(a, {c}, T)
        BY <4>3, LowersFair
      <4> QED BY <4>3, <4>4
    <3> QED BY <3>1, <3>2
  <2>5. TeamsSound(b) /\ Fair(b, {}, T) /\ Drops(a, b)
    BY <2>2, <2>4, MoveFair DEF ToFlock
  <2>6. Fair(k, {}, T) /\ Drops(b, k)
    BY <1>2, <2>3, <2>5, CheckFair
  <2> QED BY <2>4, <2>5, <2>6, DropsOn
<1>5. CASE ~GetSaving(h, t) /\ ~(t \notin h.locked \/ weapon = "game")
  <2>1. k = SetForceCharacterTeam(h, c, t)
    BY <1>1, <1>5 DEF DiesAlone
  <2> QED BY <1>1, <2>1, MoveFair
<1> QED BY <1>3, <1>4, <1>5

LEMMA DropsAlive ==
  ASSUME NEW h, NEW k, Drops(h, k), NEW t \in RealTeams
  PROVE  Alive(k, t) \subseteq Alive(h, t) /\ Members(k, t) \subseteq Members(h, t)
<1>1. t # FLOCK
  BY TeamConstants
<1> QED BY <1>1 DEF Drops, Alive, Members

LEMMA RestBodyFair ==
  ASSUME NEW h, TeamsSound(h), NEW t \in RealTeams, ~GetSaving(h, t), Fair(h, {}, {t}),
         NEW n \in Clients, NEW c, NEW k, k = KillRestBody(h, n, t, c)
  PROVE  /\ Fair(k, {}, {t}) /\ Drops(h, k)
         /\ n # c => n \notin Alive(k, t)
<1>1. CASE n \in Alive(h, t) \ {c}
  <2>1. PICK a : a = Killed(h, n)
    OBVIOUS
  <2>2. k = DiesAlone(a, n, "self")
    BY <1>1, <2>1 DEF KillRestBody
  <2>3. h.tee[n] # "out" /\ h.team[n] = t
    BY <1>1 DEF Alive, Members
  <2>4. Fair(a, {n}, {t}) /\ Drops(h, a) /\ TeamsSound(a) /\ a.tee[n] = "dead"
    BY <2>1, <2>3, KilledFair
  <2>5. ~GetSaving(a, t) /\ a.team[n] = t
    <3>1. h \in GameStates
      BY DEF TeamsSound
    <3>2. a.saving = h.saving /\ a.team = h.team
      BY <2>1, <3>1 DEF Killed, GameStates
    <3> QED BY <2>3, <3>2 DEF GetSaving
  <2>6. Fair(k, {}, {t}) /\ Drops(a, k)
    BY <2>2, <2>4, <2>5, DiesAloneFair
  <2>7. n \notin Alive(k, t)
    BY <2>4, <2>6 DEF Drops, Alive
  <2>8. Drops(h, k)
    BY <2>4, <2>6, DropsOn
  <2> QED BY <2>6, <2>7, <2>8
<1>2. CASE n \notin Alive(h, t) \ {c}
  BY <1>2, DropsNothing DEF KillRestBody
<1> QED BY <1>1, <1>2

LEMMA KillRestFair ==
  ASSUME NEW h, TeamsSound(h), NEW t \in RealTeams, ~GetSaving(h, t), Fair(h, {}, {t}),
         NEW c, NEW k, k = KillRest(h, t, c)
  PROVE  Fair(k, {}, {t}) /\ Drops(h, k) /\ Alive(k, t) \subseteq {c}
<1>1. PICK turn : /\ turn[0] = h /\ k = turn[NumClients]
                  /\ \A n \in 1 .. NumClients : turn[n] = KillRestBody(turn[n - 1], n, t, c)
  BY KillRestTurns
<1>2. NumClients \in Nat
  BY TeamConstants
<1> DEFINE P(n) == /\ Keeps(h, turn[n]) /\ Fair(turn[n], {}, {t}) /\ Drops(h, turn[n])
                   /\ \A m \in 1 .. n : m # c => m \notin Alive(turn[n], t)
           S == {n \in 0 .. NumClients : P(n)}
<1>3. 0 \in S
  BY <1>1, <1>2, KeepsItself, DropsNothing
<1>4. ASSUME NEW n \in 1 .. NumClients, n - 1 \in S  PROVE n \in S
  <2>1. PICK x : x = turn[n - 1]
    OBVIOUS
  <2>2. PICK y : y = turn[n]
    OBVIOUS
  <2>3. /\ Keeps(h, x) /\ TeamsSound(x) /\ Fair(x, {}, {t}) /\ Drops(h, x)
        /\ \A m \in 1 .. (n - 1) : m # c => m \notin Alive(x, t)
    BY <1>4, <2>1 DEF Keeps
  <2>4. y = KillRestBody(x, n, t, c)
    BY <1>1, <2>1, <2>2
  <2>5. Keeps(h, y)
    <3>1. Keeps(x, y)
      BY <2>3, <2>4, RestDies
    <3> QED BY <2>3, <3>1, KeepsOn
  <2>6. ~GetSaving(x, t) /\ n \in Clients
    BY <2>3 DEF Keeps, GetSaving, Clients
  <2>7. Fair(y, {}, {t}) /\ Drops(x, y) /\ (n # c => n \notin Alive(y, t))
    BY <2>3, <2>4, <2>6, RestBodyFair
  <2>8. Drops(h, y) /\ Alive(y, t) \subseteq Alive(x, t)
    BY <2>3, <2>7, DropsOn, DropsAlive
  <2>9. \A m \in 1 .. n : m # c => m \notin Alive(y, t)
    <3>1. \A m \in 1 .. n : m = n \/ m \in 1 .. (n - 1)
      OBVIOUS
    <3> QED BY <2>3, <2>7, <2>8, <3>1
  <2> QED BY <2>2, <2>5, <2>7, <2>8, <2>9
<1>5. NumClients \in S
  <2> HIDE DEF S
  <2>1. 0 .. NumClients \subseteq S
    BY <1>2, <1>3, <1>4, TurnInduction
  <2> QED BY <1>2, <2>1
<1>6. Alive(k, t) \subseteq {c}
  <2>1. \A m \in 1 .. NumClients : m # c => m \notin Alive(k, t)
    BY <1>1, <1>5
  <2>2. Alive(k, t) \subseteq 1 .. NumClients
    BY AliveMembers DEF Clients
  <2> QED BY <2>1, <2>2
<1> QED BY <1>1, <1>5, <1>6

\* Once nobody of the team plays, it needs no exception.
LEMMA NoneLeftFair ==
  ASSUME NEW h, TeamsSound(h), NEW t \in RealTeams, ~GetSaving(h, t), Fair(h, {}, {t}),
         Alive(h, t) = {}
  PROVE  Fair(h, {}, {})
<1>1. h.saving[t].kind # "save"
  <2>1. t # FLOCK
    BY TeamConstants
  <2> QED BY <2>1 DEF GetSaving
<1>2. h.finished \subseteq Clients
  BY DEF TeamsSound, GameStates
<1>3. \A c \in Clients : h.tee[c] = "alive" => h.team[c] # t
  BY DEF Alive, Members
<1>4. \A c \in h.finished : h.team[c] # t
  BY <1>1, <1>2, <1>3 DEF Fair, FinishersPlay
<1>5. IdleFresh(h, {})
  BY <1>4 DEF Fair, IdleFresh
<1>6. RacersMove(h, {})
  BY <1>3 DEF Fair, RacersMove, Racer
<1> QED BY <1>5, <1>6 DEF Fair

LEMMA OpenedFair ==
  ASSUME NEW h, TeamsSound(h), NEW t \in RealTeams, ~GetSaving(h, t), Fair(h, {}, {}),
         NEW k, OpenedSpec(h, k, t)
  PROVE  Fair(k, {}, {t}) /\ Drops(h, k)
<1>1. /\ k.team = h.team /\ k.tee = h.tee /\ k.race = h.race /\ k.finished = h.finished
      /\ k.saving = h.saving /\ k.run = h.run /\ k.ranked = h.ranked /\ k.flock = h.flock
      /\ k.practice = h.practice \ {t}
  BY DEF OpenedSpec
<1>2. \A u \in Teams : k.state[u] = IF u = t THEN OPEN ELSE h.state[u]
  BY DEF OpenedSpec, TeamsSound, GameStates
<1>3. (\A c \in Clients : h.team[c] \in Teams) /\ h.finished \subseteq Clients
  BY DEF TeamsSound, GameStates
<1>4. FinishersPlay(k, {})
  BY <1>1 DEF Fair, FinishersPlay
<1>5. IdleFresh(k, {t})
  BY <1>1, <1>2, <1>3 DEF Fair, IdleFresh, Moving
<1>6. RacersMove(k, {t})
  BY <1>1, <1>2, <1>3 DEF Fair, RacersMove, Racer, Moving
<1>7. PracticeHeld(k)
  <2>1. \A u \in Teams : Practiced(k, u) => Practiced(h, u)
    BY <1>1, <1>2 DEF Practiced, OPEN, STARTED
  <2> QED BY <1>1, <1>3, <2>1 DEF Fair, PracticeHeld, Racer
<1>8. MarksFair(k)
  BY <1>1 DEF Fair, MarksFair
<1>9. LoadsOpen(k)
  BY <1>1, <1>2, TeamConstants DEF Fair, LoadsOpen
<1>10. Drops(h, k)
  BY <1>1 DEF Drops
<1> QED BY <1>4, <1>5, <1>6, <1>7, <1>8, <1>9, <1>10 DEF Fair

LEMMA FairFewer ==
  ASSUME NEW h, NEW X, NEW Y, NEW T, NEW U, Fair(h, X, T), X \subseteq Y, T \subseteq U
  PROVE  Fair(h, Y, U)
<1>1. FinishersPlay(h, Y)
  BY DEF Fair, FinishersPlay
<1>2. IdleFresh(h, U)
  BY DEF Fair, IdleFresh
<1>3. RacersMove(h, U)
  BY DEF Fair, RacersMove
<1> QED BY <1>1, <1>2, <1>3 DEF Fair

\* Of the exceptions KillRest leaves only the tee that died first.
LEMMA RestGoneFair ==
  ASSUME NEW h, TeamsSound(h), NEW t \in RealTeams, ~GetSaving(h, t), Fair(h, {}, {t}),
         NEW c \in Clients, h.tee[c] # "alive", NEW k, k = KillRest(h, t, c)
  PROVE  Fair(k, {}, {}) /\ Drops(h, k) /\ Keeps(h, k)
<1>1. Fair(k, {}, {t}) /\ Drops(h, k) /\ Alive(k, t) \subseteq {c}
  BY KillRestFair
<1>2. Keeps(h, k)
  BY KillRestKeeps
<1>3. Alive(k, t) = {}
  BY <1>1 DEF Drops, Alive
<1>4. ~GetSaving(k, t)
  BY <1>2 DEF Keeps, GetSaving
<1>5. TeamsSound(k)
  BY <1>2 DEF Keeps
<1>6. Fair(k, {}, {})
  BY <1>1, <1>3, <1>4, <1>5, NoneLeftFair
<1> QED BY <1>1, <1>2, <1>6

LEMMA OnDeathFair ==
  ASSUME NEW h, TeamsSound(h), NEW c \in Clients, Fair(h, {c}, {}), NEW weapon,
         h.tee[c] # "alive" \/ weapon = "game", NEW k, k = OnCharacterDeath(h, c, weapon)
  PROVE  Fair(k, {}, {}) /\ Drops(h, k)
<1>1. PICK t : t = h.team[c]
  OBVIOUS
<1>2. h \in GameStates /\ t \in Teams
  BY <1>1 DEF TeamsSound, GameStates
<1>3. PICK a : a = SetForceCharacterTeam(h, c, t)
  OBVIOUS
<1>4. PICK open : open = Opened(a, t)
  OBVIOUS
<1>5. PICK b : b = [open EXCEPT !.locked = @ \ {t}]
  OBVIOUS
<1>6. PICK rest : rest = KillRest(b, t, c)
  OBVIOUS
<1>7. CASE k = DiesAlone(h, c, weapon)
  BY <1>7, DiesAloneFair
<1>8. CASE k # DiesAlone(h, c, weapon)
  <2>1. /\ ~GetSaving(h, t) /\ t \in h.locked /\ weapon # "game"
        /\ \/ k = open /\ TeamSize(open, t) <= 1
           \/ k = KillRest(open, t, c)
           \/ k = AllToFlock(rest, Players(rest, t))
    BY <1>1, <1>3, <1>4, <1>5, <1>6, <1>8, DeathCases
  <2>2. t \in RealTeams /\ h.tee[c] # "alive"
    BY <1>2, <2>1 DEF GameStates
  <2>3. Fair(a, {}, {}) /\ Drops(h, a) /\ TeamsSound(a) /\ a.tee = h.tee
    BY <1>1, <1>3, MoveFair
  <2>4. a.team[c] = t /\ a.saving = h.saving
    <3>1. MoveSpec(h, a, c, t, Gone(h, c, t))
      BY <1>2, <1>3, Moves
    <3> QED BY <1>2, <3>1 DEF MoveSpec, GameStates
  <2>5. c \in Members(a, t) /\ ~GetSaving(a, t)
    BY <2>1, <2>4 DEF Members, GetSaving
  <2>6. OpenedSpec(a, open, t) /\ Keeps(a, open)
    BY <1>4, <2>2, <2>3, <2>5, OpenedKeeps
  <2>7. Fair(open, {}, {t}) /\ Drops(a, open)
    BY <2>2, <2>3, <2>5, <2>6, OpenedFair
  <2>8. TeamsSound(open) /\ ~GetSaving(open, t) /\ open.tee[c] # "alive" /\ open.team[c] = t
    BY <2>2, <2>3, <2>4, <2>5, <2>6 DEF Keeps, GetSaving, OpenedSpec
  <2>9. Drops(h, open)
    BY <2>3, <2>7, DropsOn
  <2>10. CASE k = open /\ TeamSize(open, t) <= 1
    <3>1. Members(open, t) \in SUBSET Clients /\ c \in Members(open, t)
      BY <2>8 DEF Members
    <3>2. Members(open, t) = {c}
      BY <2>10, <3>1, OnlyMember DEF TeamSize
    <3>3. Alive(open, t) = {}
      BY <2>8, <3>2 DEF Alive
    <3>4. Fair(open, {}, {})
      BY <2>2, <2>7, <2>8, <3>3, NoneLeftFair
    <3> QED BY <2>9, <2>10, <3>4
  <2>11. CASE k = KillRest(open, t, c)
    <3>1. Fair(k, {}, {}) /\ Drops(open, k)
      BY <2>2, <2>7, <2>8, <2>11, RestGoneFair
    <3> QED BY <2>9, <3>1, DropsOn
  <2>12. CASE k = AllToFlock(rest, Players(rest, t))
    <3>1. /\ Keeps(open, b) /\ b.team = open.team /\ b.tee = open.tee
          /\ b.race = open.race /\ b.finished = open.finished /\ b.run = open.run
          /\ b.ranked = open.ranked /\ b.flock = open.flock
          /\ b.practice = open.practice /\ b.state = open.state
      BY <1>5, <2>8, UnlockKeeps
    <3>2. TeamsSound(b) /\ b.saving = open.saving
      BY <3>1 DEF Keeps
    <3>3. Lowers(open, b)
      BY <3>1, <3>2, SameLowers DEF Racer, Practiced
    <3>4. Fair(b, {}, {t})
      BY <2>7, <2>8, <3>1, <3>2, <3>3, LowersOn
    <3>5. ~GetSaving(b, t) /\ b.tee[c] # "alive" /\ Drops(open, b)
      BY <2>8, <3>1, <3>2 DEF GetSaving, Drops
    <3>6. Fair(rest, {}, {}) /\ Drops(b, rest) /\ Keeps(b, rest)
      BY <1>6, <2>2, <3>2, <3>4, <3>5, RestGoneFair
    <3>7. TeamsSound(rest) /\ Drops(h, rest)
      BY <2>9, <3>5, <3>6, DropsOn DEF Keeps
    <3>8. Players(rest, t) \in SUBSET Clients
      BY AliveMembers
    <3>9. Lowers(rest, k) /\ Drops(rest, k) /\ k.tee = rest.tee
      BY <2>12, <3>7, <3>8, AllAwayLowers
    <3>10. TeamsSound(k)
      BY <2>12, <3>7, <3>8, AllAway DEF Keeps
    <3>11. Fair(k, {}, {})
      BY <3>6, <3>7, <3>9, <3>10, LowersOn
    <3> QED BY <3>7, <3>9, <3>11, DropsOn
  <2> QED BY <2>1, <2>10, <2>11, <2>12
<1> QED BY <1>7, <1>8

LEMMA DieFair ==
  ASSUME NEW h, TeamsSound(h), NEW c \in Clients, h.tee[c] # "out", Fair(h, {}, {}),
         NEW weapon, NEW k, k = Die(h, c, weapon)
  PROVE  Fair(k, {}, {}) /\ Drops(h, k) /\ k.tee[c] # "alive"
<1>1. PICK a : a = Killed(h, c)
  OBVIOUS
<1>2. Fair(a, {c}, {}) /\ Drops(h, a) /\ TeamsSound(a) /\ a.tee[c] = "dead"
  BY <1>1, KilledFair
<1>3. k = OnCharacterDeath(a, c, weapon)
  BY <1>1 DEF Die
<1>4. Fair(k, {}, {}) /\ Drops(a, k)
  BY <1>2, <1>3, OnDeathFair
<1>5. k.tee[c] # "alive"
  BY <1>2, <1>4 DEF Drops
<1> QED BY <1>2, <1>4, <1>5, DropsOn

LEMMA KillTeamFair ==
  ASSUME NEW h, TeamsSound(h), NEW t \in RealTeams, Fair(h, {}, {}),
         NEW k, k = KillTeam(h, t)
  PROVE  Fair(k, {}, {}) /\ Drops(h, k) /\ Alive(k, t) = {}
<1>1. PICK turn : /\ turn[0] = h /\ k = turn[NumClients]
                  /\ \A n \in 1 .. NumClients : turn[n] = KillTeamBody(turn[n - 1], n, t)
  BY KillTeamTurns
<1>2. NumClients \in Nat
  BY TeamConstants
<1> DEFINE P(n) == /\ Keeps(h, turn[n]) /\ Fair(turn[n], {}, {}) /\ Drops(h, turn[n])
                   /\ \A m \in 1 .. n : m \notin Alive(turn[n], t)
           S == {n \in 0 .. NumClients : P(n)}
<1>3. 0 \in S
  BY <1>1, <1>2, KeepsItself, DropsNothing
<1>4. ASSUME NEW n \in 1 .. NumClients, n - 1 \in S  PROVE n \in S
  <2>1. PICK x : x = turn[n - 1]
    OBVIOUS
  <2>2. PICK y : y = turn[n]
    OBVIOUS
  <2>3. /\ Keeps(h, x) /\ TeamsSound(x) /\ Fair(x, {}, {}) /\ Drops(h, x)
        /\ \A m \in 1 .. (n - 1) : m \notin Alive(x, t)
    BY <1>4, <2>1 DEF Keeps
  <2>4. y = KillTeamBody(x, n, t)
    BY <1>1, <2>1, <2>2
  <2>5. Keeps(h, y)
    <3>1. Keeps(x, y)
      BY <2>3, <2>4, OneOfTeamDies
    <3> QED BY <2>3, <3>1, KeepsOn
  <2>6. Fair(y, {}, {}) /\ Drops(x, y) /\ n \notin Alive(y, t)
    <3>1. CASE n \in Alive(x, t)
      <4>1. n \in Clients /\ x.tee[n] # "out" /\ y = Die(x, n, "self")
        BY <2>4, <3>1 DEF Alive, Members, KillTeamBody
      <4> QED BY <2>3, <4>1, DieFair DEF Alive
    <3>2. CASE n \notin Alive(x, t)
      BY <2>3, <2>4, <3>2, DropsNothing DEF KillTeamBody
    <3> QED BY <3>1, <3>2
  <2>7. Drops(h, y) /\ Alive(y, t) \subseteq Alive(x, t)
    BY <2>3, <2>6, DropsOn, DropsAlive
  <2>8. \A m \in 1 .. n : m \notin Alive(y, t)
    <3>1. \A m \in 1 .. n : m = n \/ m \in 1 .. (n - 1)
      OBVIOUS
    <3> QED BY <2>3, <2>6, <2>7, <3>1
  <2> QED BY <2>2, <2>5, <2>6, <2>7, <2>8
<1>5. NumClients \in S
  <2> HIDE DEF S
  <2>1. 0 .. NumClients \subseteq S
    BY <1>2, <1>3, <1>4, TurnInduction
  <2> QED BY <1>2, <2>1
<1>6. Alive(k, t) = {}
  <2>1. \A m \in 1 .. NumClients : m \notin Alive(k, t)
    BY <1>1, <1>5
  <2>2. Alive(k, t) \subseteq 1 .. NumClients
    BY AliveMembers DEF Clients
  <2> QED BY <2>1, <2>2
<1> QED BY <1>1, <1>5, <1>6

-----------------------------------------------------------------------------
(* Races, starts and finishes. *)

\* From h to k only races and finishes change, in a way that another tee of the
\* team had them before, or that a tee on the run of its team finishes it.
Follows(h, k) ==
  /\ k.team = h.team /\ k.tee = h.tee /\ k.state = h.state /\ k.flock = h.flock
  /\ k.practice = h.practice /\ k.saving = h.saving /\ k.run = h.run /\ k.ranked = h.ranked
  /\ \A c \in Clients : Racer(k, c) => \E m \in Clients : Racer(h, m) /\ h.team[m] = h.team[c]
  /\ \A c \in k.finished : \E m \in Clients :
       /\ h.team[m] = h.team[c] /\ (m = c \/ h.tee[c] = "alive")
       /\ m \in h.finished \/ (Racer(h, m) /\ h.team[m] \notin h.flock \cup {FLOCK})

LEMMA FollowsFair ==
  ASSUME NEW h, TeamsSound(h), NEW k, TeamsSound(k), Fair(h, {}, {}), Follows(h, k)
  PROVE  Fair(k, {}, {})
<1>1. (\A c \in Clients : h.team[c] \in Teams) /\ k.finished \subseteq Clients
      /\ h.finished \subseteq Clients
  BY DEF TeamsSound, GameStates
<1>2. /\ k.team = h.team /\ k.tee = h.tee /\ k.state = h.state /\ k.flock = h.flock
      /\ k.practice = h.practice /\ k.saving = h.saving /\ k.run = h.run
      /\ k.ranked = h.ranked
  BY DEF Follows
<1>3. ASSUME NEW m \in Clients, Racer(h, m), h.team[m] \notin h.flock \cup {FLOCK}
      PROVE  h.tee[m] = "alive" /\ Moving(h, h.team[m])
  BY <1>3 DEF Fair, RacersMove, Racer
<1>4. FinishersPlay(k, {})
  <2> SUFFICES ASSUME NEW c \in k.finished
               PROVE  /\ k.team[c] # FLOCK
                      /\ k.tee[c] = "alive" \/ k.saving[k.team[c]].kind = "save"
    BY DEF FinishersPlay
  <2>1. PICK m \in Clients :
          /\ h.team[m] = h.team[c] /\ (m = c \/ h.tee[c] = "alive")
          /\ m \in h.finished \/ (Racer(h, m) /\ h.team[m] \notin h.flock \cup {FLOCK})
    BY DEF Follows
  <2>2. CASE m \in h.finished
    BY <1>2, <2>1, <2>2 DEF Fair, FinishersPlay
  <2>3. CASE m \notin h.finished
    BY <1>2, <1>3, <2>1, <2>3
  <2> QED BY <2>2, <2>3
<1>5. IdleFresh(k, {})
  <2> SUFFICES ASSUME NEW c \in k.finished
               PROVE  Moving(k, k.team[c]) \/ k.saving[k.team[c]].kind = "save"
    BY DEF IdleFresh
  <2>1. PICK m \in Clients :
          /\ h.team[m] = h.team[c]
          /\ m \in h.finished \/ (Racer(h, m) /\ h.team[m] \notin h.flock \cup {FLOCK})
    BY DEF Follows
  <2>2. Moving(h, h.team[m]) \/ h.saving[h.team[m]].kind = "save"
    BY <1>3, <2>1 DEF Fair, IdleFresh
  <2> QED BY <1>2, <2>1, <2>2 DEF Moving
<1>6. RacersMove(k, {})
  <2> SUFFICES ASSUME NEW c \in Clients, Racer(k, c), k.team[c] # FLOCK
               PROVE  \/ Moving(k, k.team[c])
                      \/ k.state[k.team[c]] = FINISHED /\ k.team[c] \in k.flock
    BY DEF RacersMove
  <2>1. PICK m \in Clients : Racer(h, m) /\ h.team[m] = h.team[c]
    BY DEF Follows
  <2>2. Moving(h, h.team[m]) \/ (h.state[h.team[m]] = FINISHED /\ h.team[m] \in h.flock)
    BY <1>2, <2>1 DEF Fair, RacersMove
  <2> QED BY <1>2, <2>1, <2>2 DEF Moving
<1>7. PracticeHeld(k)
  <2> SUFFICES ASSUME NEW c \in Clients, k.team[c] # FLOCK, Practiced(k, k.team[c])
               PROVE  c \notin k.finished /\ (k.team[c] \notin k.flock => ~Racer(k, c))
    BY DEF PracticeHeld
  <2>1. h.team[c] # FLOCK /\ Practiced(h, h.team[c])
    BY <1>2 DEF Practiced
  <2>2. \A m \in Clients : h.team[m] = h.team[c] =>
          m \notin h.finished /\ (h.team[m] \notin h.flock => ~Racer(h, m))
    BY <2>1 DEF Fair, PracticeHeld
  <2>3. c \notin k.finished
    BY <2>2 DEF Follows
  <2>4. k.team[c] \notin k.flock => ~Racer(k, c)
    BY <1>2, <2>2 DEF Follows
  <2> QED BY <2>3, <2>4
<1>8. MarksFair(k) /\ LoadsOpen(k)
  BY <1>2 DEF Fair, MarksFair, LoadsOpen
<1> QED BY <1>4, <1>5, <1>6, <1>7, <1>8 DEF Fair

NoRace(h) == \A c \in Clients : h.tee[c] # "alive" => h.race[c] = "NONE"

\* Nobody joins a team, and no team gets the mode of team 0.
Stays(h, k) ==
  (\A c \in Clients : k.team[c] \in {h.team[c], FLOCK}) /\ k.flock \subseteq h.flock

LEMMA StaysOn ==
  ASSUME NEW a, NEW b, NEW d, Stays(a, b), Stays(b, d)  PROVE Stays(a, d)
BY DEF Stays

LEMMA DropsStays ==
  ASSUME NEW h, NEW k, Drops(h, k)  PROVE Stays(h, k)
BY DEF Drops, Stays

LEMMA OnSpawnFair ==
  ASSUME NEW h, TeamsSound(h), Fair(h, {}, {}), NEW c \in Clients,
         NEW k, k = OnCharacterSpawn(h, c)
  PROVE  Fair(k, {}, {}) /\ Stays(h, k) /\ k.tee = h.tee
<1>1. PICK t : t = h.team[c]
  OBVIOUS
<1>2. t \in Teams
  BY <1>1 DEF TeamsSound, GameStates
<1>3. PICK a : a = ToFlock(h, c)
  OBVIOUS
<1>4. Fair(a, {}, {}) /\ Drops(h, a) /\ TeamsSound(a) /\ a.tee = h.tee
  <2>1. Fair(h, {c}, {})
    BY FairFewer
  <2> QED BY <1>3, <2>1, MoveFair DEF ToFlock
<1>5. k = h \/ k = a \/ k = CheckTeamFinished(a, t)
  BY Zenon, <1>1, <1>3 DEF OnCharacterSpawn
<1>6. CASE k = h
  BY <1>6 DEF Stays
<1>7. CASE k = a
  BY <1>4, <1>7, DropsStays
<1>8. CASE k = CheckTeamFinished(a, t)
  <2>1. Fair(k, {}, {}) /\ Drops(a, k) /\ k.tee = a.tee
    BY <1>2, <1>4, <1>8, CheckFair
  <2> QED BY <1>4, <2>1, DropsOn, DropsStays
<1> QED BY <1>5, <1>6, <1>7, <1>8

LEMMA RaceCopied ==
  ASSUME NEW b, TeamsSound(b), Fair(b, {}, {}), NEW c \in Clients, NEW r \in RaceStates,
         r # "NONE" => \E m \in Clients : /\ b.team[m] = b.team[c] /\ b.tee[m] = "alive"
                                          /\ b.race[m] = r,
         NEW ra, ra = [b.race EXCEPT ![c] = r],
         NEW k, k = WithRaces(b, ra, b.started, b.finished)
  PROVE  Fair(k, {}, {}) /\ Stays(b, k) /\ k.tee = b.tee
<1>1. b \in GameStates
  BY DEF TeamsSound
<1>2. ra \in [Clients -> RaceStates] /\ b.started \in SUBSET Clients
      /\ b.finished \in SUBSET Clients
  BY <1>1 DEF GameStates
<1>3. Keeps(b, k) /\ RaceSpec(b, k, ra, b.started, b.finished)
  BY <1>2, RaceSet
<1>4. TeamsSound(k) /\ k.saving = b.saving
  BY <1>3 DEF Keeps
<1>5. \A d \in Clients : k.race[d] = IF d = c THEN r ELSE b.race[d]
  BY <1>1, <1>3 DEF RaceSpec, GameStates
<1>6. ASSUME NEW d \in Clients, Racer(k, d)
      PROVE  \E m \in Clients : Racer(b, m) /\ b.team[m] = b.team[d]
  <2>1. CASE d = c
    BY <1>3, <1>5, <1>6, <2>1 DEF Racer, RaceSpec
  <2>2. CASE d # c
    BY <1>3, <1>5, <1>6, <2>2 DEF Racer, RaceSpec
  <2> QED BY <2>1, <2>2
<1>7. Follows(b, k)
  BY <1>2, <1>3, <1>4, <1>6 DEF Follows, RaceSpec
<1>8. Fair(k, {}, {})
  BY <1>4, <1>7, FollowsFair
<1> QED BY <1>3, <1>8 DEF RaceSpec, Stays

LEMMA SpawnFair ==
  ASSUME NEW h, TeamsSound(h), Fair(h, {}, {}), NoRace(h),
         NEW c \in Clients, h.tee[c] = "dead", NEW k, k = Spawn(h, c)
  PROVE  Fair(k, {}, {}) /\ Stays(h, k)
<1>1. PICK a : a = WithTee(h, c, "alive")
  OBVIOUS
<1>2. TeeSpec(h, a, c, "alive") /\ TeamsSound(a)
  <2>1. TeeSpec(h, a, c, "alive")
    BY <1>1, TeeSet
  <2> QED BY <2>1 DEF TeeSpec
<1>3. \A d \in Clients : a.tee[d] = IF d = c THEN "alive" ELSE h.tee[d]
  BY <1>2 DEF TeeSpec, TeamsSound, GameStates
<1>4. Fair(a, {}, {}) /\ Stays(h, a)
  <2>1. \A d \in Clients : Racer(a, d) => Racer(h, d)
    BY <1>2, <1>3 DEF TeeSpec, Racer, NoRace
  <2>2. Lowers(h, a)
    BY <1>2, <2>1, SameLowers DEF TeeSpec, Practiced
  <2>3. \A d \in a.finished : h.tee[d] = "alive" => a.tee[d] = "alive"
    BY <1>2, <1>3 DEF TeamsSound, GameStates
  <2>4. Fair(a, {}, {})
    BY <1>2, <2>2, <2>3, LowersFair
  <2> QED BY <1>2, <2>4 DEF TeeSpec, Stays
<1>5. PICK b : b = OnCharacterSpawn(a, c)
  OBVIOUS
<1>6. TeamsSound(b)
  BY <1>2, <1>5, OnSpawnKeeps DEF Keeps
<1>7. Fair(b, {}, {}) /\ Stays(a, b) /\ b.tee = a.tee
  BY <1>2, <1>4, <1>5, OnSpawnFair
<1> DEFINE t == b.team[c]
           mates == Alive(b, t) \ {c}
           last == CHOOSE m \in mates : \A n \in mates : n <= m
           taken == t \in b.locked /\ t \notin b.flock /\ mates # {}
           r == IF taken THEN b.race[last] ELSE "NONE"
<1>8. k = [b EXCEPT !.race[c] = r]
  BY <1>1, <1>5 DEF Spawn, WithTee
<1>9. b \in GameStates
  BY <1>6 DEF TeamsSound
<1>10. taken => last \in mates
  <2>1. mates \subseteq Clients
    BY AliveMembers
  <2>2. ASSUME mates # {}  PROVE \E m \in mates : \A n \in mates : n <= m
    <3> HIDE DEF mates
    <3>1. NumClients \in Nat /\ mates \in SUBSET (1 .. NumClients) /\ mates # {}
      BY <2>1, <2>2, TeamConstants DEF Clients
    <3> QED BY <3>1, LastOne
  <2> QED BY <2>2
<1>11. taken => last \in Clients /\ b.team[last] = t /\ b.tee[last] = "alive"
  <2> HIDE DEF taken, last
  <2> QED BY <1>10 DEF Alive, Members
<1> HIDE DEF taken, last
<1>12. r \in RaceStates
  BY <1>9, <1>11 DEF GameStates, RaceStates
<1>13. r # "NONE" => \E m \in Clients : /\ b.team[m] = b.team[c] /\ b.tee[m] = "alive"
                                        /\ b.race[m] = r
  BY <1>11
<1> HIDE DEF r
<1>14. PICK ra : ra = [b.race EXCEPT ![c] = r]
  OBVIOUS
<1>15. k = WithRaces(b, ra, b.started, b.finished)
  BY <1>8, <1>9, <1>14 DEF GameStates, WithRaces
<1>16. Fair(k, {}, {}) /\ Stays(b, k)
  BY <1>6, <1>7, <1>12, <1>13, <1>14, <1>15, RaceCopied
<1> QED BY <1>4, <1>7, <1>16, StaysOn

-----------------------------------------------------------------------------
(* The inductive invariant of RunsAreFair.                                   *)

LoadsValid == ~({"save", "invalid"} \subseteq Features)
OneOfModes == ~({"save", "team0mode"} \subseteq Features)

\* A saved team is as fair as a team on its run.
SavedFair(v) ==
  /\ v.run.marks \subseteq {"practiced", "deserted"}
  /\ v.finished \subseteq v.names
  /\ "practiced" \in v.run.marks => /\ v.finished = {}
                                    /\ \A c \in Clients : v.race[c] # "STARTED"

\* Nobody joins a team that waits for the database.
LoadersKnown(h) ==
  \A t \in RealTeams :
    \/ h.saving[t].kind = "load"
    \/ h.saving[t].kind = "save" /\ h.saving[t].status # "done"
    => Members(h, t) \subseteq h.saving[t].saved.names

Modest(h) ==
  /\ OneOfModes => \A t \in RealTeams : OnRun(h, t) => t \notin h.flock
  /\ "team0mode" \notin Features => h.flock = {}
  /\ "save" \notin Features => \A t \in RealTeams : h.saving[t].kind = "none"

SavesFair(h, V) ==
  /\ \A t \in RealTeams : SavedFair(h.saving[t].saved)
  /\ \A v \in V : SavedFair(v)

FairAll(h, V) == Fair(h, {}, {}) /\ LoadersKnown(h) /\ Modest(h) /\ SavesFair(h, V)

FairInv == FairAll(g, saves) /\ NoRace(g)

LEMMA SettledFair ==
  ASSUME NEW h, TeamsSound(h), NEW V, FairAll(h, V), NEW k, k = Settled(h)
  PROVE  FairAll(k, V) /\ NoRace(k)
<1>1. h \in GameStates
  BY DEF TeamsSound
<1>2. TeamsSound(k)
  BY SettledSound
<1>3. /\ k.team = h.team /\ k.tee = h.tee /\ k.state = h.state
      /\ k.flock = h.flock /\ k.practice = h.practice /\ k.saving = h.saving
      /\ k.ranked = h.ranked /\ k.finished \subseteq h.finished
      /\ \A t \in Teams : k.run[t] = IF h.state[t] \in {STARTED, STARTED_UNFINISHABLE}
                                     THEN h.run[t] ELSE NoRun
      /\ \A c \in Clients : k.race[c] = IF h.tee[c] = "alive" THEN h.race[c] ELSE "NONE"
  BY <1>1, SettledFields
<1>4. \A c \in Clients : Racer(k, c) => Racer(h, c)
  BY <1>3 DEF Racer
<1>5. \A u \in RealTeams :
        /\ k.run[u].marks \subseteq h.run[u].marks
        /\ Practiced(k, u) => "practiced" \in h.run[u].marks
        /\ OnRun(k, u) => OnRun(h, u)
  <2>1. NoRun.marks = {}
    BY DEF NoRun
  <2> QED BY <1>3, <2>1, TeamConstants DEF Practiced, OnRun
<1>6. Lowers(h, k)
  BY <1>3, <1>4, <1>5, SameLowers
<1>7. Fair(k, {}, {})
  BY <1>2, <1>3, <1>6, LowersOn DEF FairAll
<1>8. LoadersKnown(k)
  BY <1>3 DEF FairAll, LoadersKnown, Members
<1>9. Modest(k)
  BY <1>3, <1>5 DEF FairAll, Modest
<1>10. SavesFair(k, V) /\ NoRace(k)
  BY <1>3 DEF FairAll, SavesFair, NoRace
<1> QED BY <1>7, <1>8, <1>9, <1>10 DEF FairAll

LEMMA StaysFair ==
  ASSUME NEW h, NEW V, TeamsSound(h), FairAll(h, V), NEW k, NoNewRun(h, k), Stays(h, k),
         k.saving = h.saving, Fair(k, {}, {})
  PROVE  FairAll(k, V)
<1>1. \A t \in RealTeams : Members(k, t) \subseteq Members(h, t)
  BY TeamConstants DEF Members, Stays
<1>2. LoadersKnown(k)
  BY <1>1 DEF FairAll, LoadersKnown
<1>3. Modest(k)
  BY DEF FairAll, Modest, Stays, NoNewRun
<1> QED BY <1>2, <1>3 DEF FairAll, SavesFair

LEMMA BecomesFair ==
  ASSUME TeamsInv, FairInv, NEW h, TeamsSound(h), NoNewRun(g, h), h.saving = g.saving,
         Stays(g, h), Fair(h, {}, {}), Becomes(h), UNCHANGED saves
  PROVE  FairInv'
<1>1. FairAll(h, saves)
  BY InvFacts, StaysFair DEF FairInv
<1>2. FairAll(g', saves) /\ NoRace(g')
  BY <1>1, SettledFair DEF Becomes
<1> QED BY <1>2 DEF FairInv

LEMMA DropsFair ==
  ASSUME TeamsInv, FairInv, NEW h, Keeps(g, h), Drops(g, h) \/ Stays(g, h), Fair(h, {}, {}),
         Becomes(h), UNCHANGED saves
  PROVE  FairInv'
BY DropsStays, BecomesFair DEF Keeps

\* A step after which the game is as fair as before and nobody plays more.
LEMMA SameFair ==
  ASSUME TeamsInv, FairInv, NEW h, Keeps(g, h), Lowers(g, h), Stays(g, h),
         \A c \in Clients : g.tee[c] = "alive" => h.tee[c] = "alive",
         Becomes(h), UNCHANGED saves
  PROVE  FairInv'
<1>1. TeamsSound(g) /\ TeamsSound(h) /\ h.finished \subseteq Clients
  BY InvFacts DEF Keeps, TeamsSound, GameStates
<1>2. Fair(h, {}, {})
  BY <1>1, LowersFair DEF FairInv, FairAll
<1> QED BY <1>2, DropsFair

-----------------------------------------------------------------------------
(* The actions keep the runs fair, one by one. *)

LEMMA FairFacts ==
  ASSUME TeamsInv, FairInv
  PROVE  TeamsSound(g) /\ g \in GameStates /\ Fair(g, {}, {}) /\ NoRace(g)
         /\ OutInFlock(g) /\ NoIdleRun(g)
BY InvFacts DEF FairInv, FairAll, TeamsInv, Full

LEMMA RespawnFair ==
  ASSUME TeamsInv, FairInv, NEW c \in Clients, Respawn(c)  PROVE FairInv'
<1>1. Keeps(g, Spawn(g, c))
  BY FairFacts, SpawnKeeps DEF Respawn
<1>2. Fair(Spawn(g, c), {}, {}) /\ Stays(g, Spawn(g, c))
  BY FairFacts, SpawnFair DEF Respawn
<1> QED BY <1>1, <1>2, DropsFair DEF Respawn

LEMMA KillFair ==
  ASSUME TeamsInv, FairInv, NEW c \in Clients, Kill(c)  PROVE FairInv'
<1>1. Keeps(g, Die(g, c, "self"))
  BY FairFacts, DieKeeps DEF Kill
<1>2. Fair(Die(g, c, "self"), {}, {}) /\ Drops(g, Die(g, c, "self"))
  BY FairFacts, DieFair DEF Kill
<1> QED BY <1>1, <1>2, DropsFair DEF Kill

\* A tee without a character turns into e.
LEMMA TeeFair ==
  ASSUME NEW h, TeamsSound(h), Fair(h, {}, {}), NEW c \in Clients, h.tee[c] # "alive",
         NEW e \in {"out", "spec", "dead"}, NEW k, k = WithTee(h, c, e)
  PROVE  Fair(k, {}, {}) /\ Drops(h, k)
<1>1. TeeSpec(h, k, c, e)
  BY TeeSet
<1>2. \A d \in Clients : k.tee[d] = IF d = c THEN e ELSE h.tee[d]
  BY <1>1 DEF TeeSpec, TeamsSound, GameStates
<1>3. \A d \in Clients : Racer(k, d) => Racer(h, d)
  BY <1>1, <1>2 DEF TeeSpec, Racer
<1>4. Lowers(h, k)
  BY <1>1, <1>3, SameLowers DEF TeeSpec, Practiced
<1>5. TeamsSound(k) /\ k.finished \subseteq Clients
  BY <1>1 DEF TeeSpec, TeamsSound, GameStates
<1>6. Fair(k, {}, {})
  BY <1>2, <1>4, <1>5, LowersFair
<1>7. Drops(h, k)
  BY <1>1, <1>2 DEF TeeSpec, Drops
<1> QED BY <1>6, <1>7

LEMMA EnterFair ==
  ASSUME TeamsInv, FairInv, NEW c \in Clients, Enter(c)  PROVE FairInv'
<1>1. PICK h : h = WithTee(g, c, "dead")
  OBVIOUS
<1>2. TeeSpec(g, h, c, "dead")
  BY <1>1, FairFacts, TeeSet
<1>3. TeamsSound(h) /\ h.saving = g.saving /\ NoNewRun(g, h)
  BY <1>2 DEF TeeSpec, NoNewRun, OnRun
<1>4. Fair(h, {}, {}) /\ Stays(g, h)
  <2>1. g.tee[c] # "alive"
    BY DEF Enter
  <2>2. Fair(h, {}, {}) /\ Drops(g, h)
    BY <1>1, <2>1, FairFacts, TeeFair
  <2> QED BY <2>2, DropsStays
<1>5. Becomes(h) /\ UNCHANGED saves
  BY <1>1 DEF Enter, WithTee
<1> QED BY <1>3, <1>4, <1>5, BecomesFair

LEMMA LeaveFair ==
  ASSUME TeamsInv, FairInv, NEW c \in Clients, Leave(c)  PROVE FairInv'
<1>1. PICK h : h = IF g.tee[c] = "alive" THEN Die(g, c, "game") ELSE g
  OBVIOUS
<1>2. Keeps(g, h) /\ TeamsSound(h) /\ Fair(h, {}, {}) /\ Drops(g, h) /\ h.tee[c] # "alive"
  <2>1. CASE g.tee[c] = "alive"
    <3>1. Keeps(g, h)
      BY <1>1, <2>1, FairFacts, DieKeeps
    <3>2. Fair(h, {}, {}) /\ Drops(g, h) /\ h.tee[c] # "alive"
      BY <1>1, <2>1, FairFacts, DieFair
    <3> QED BY <3>1, <3>2 DEF Keeps
  <2>2. CASE g.tee[c] # "alive"
    BY <1>1, <2>2, FairFacts, KeepsItself, DropsNothing
  <2> QED BY <2>1, <2>2
<1>3. PICK a : a = WithTee(h, c, "out")
  OBVIOUS
<1>4. TeamsSound(a) /\ a.saving = h.saving /\ NoNewRun(h, a)
  <2>1. TeeSpec(h, a, c, "out")
    BY <1>2, <1>3, TeeSet
  <2> QED BY <2>1 DEF TeeSpec, NoNewRun, OnRun
<1>5. Fair(a, {}, {}) /\ Drops(h, a)
  BY <1>2, <1>3, TeeFair
<1>6. PICK b : b = ToFlock(a, c)
  OBVIOUS
<1>7. Fair(b, {}, {}) /\ Drops(a, b) /\ TeamsSound(b)
  <2>1. Fair(a, {c}, {})
    BY <1>5, FairFewer
  <2> QED BY <1>4, <1>6, <2>1, MoveFair DEF ToFlock
<1>8. /\ TeamsSound(b) /\ NoNewRun(a, b)
      /\ b.saving = a.saving /\ b.tee = a.tee /\ b.team = [a.team EXCEPT ![c] = FLOCK]
  BY <1>4, <1>6, MoveSound, TeamConstants DEF ToFlock
<1>9. NoNewRun(g, b) /\ b.saving = g.saving
  BY <1>2, <1>4, <1>8 DEF Keeps, NoNewRun
<1>10. Stays(g, b)
  BY <1>2, <1>5, <1>7, DropsOn, DropsStays
<1>11. Becomes(b) /\ UNCHANGED saves
  BY Zenon, <1>1, <1>3, <1>6 DEF Leave, WithTee
<1> QED BY <1>7, <1>9, <1>10, <1>11, BecomesFair

LEMMA SpectateFair ==
  ASSUME TeamsInv, FairInv, NEW c \in Clients, Spectate(c)  PROVE FairInv'
<1>1. TeamsSound(g) /\ Fair(g, {}, {}) /\ g.tee[c] # "out"
  BY FairFacts DEF Spectate
<1>2. PICK h : h = OnCharacterDeath(g, c, "game")
  OBVIOUS
<1>3. Keeps(g, h) /\ TeamsSound(h)
  <2>1. Keeps(g, h)
    BY <1>1, <1>2, DeathKeeps
  <2> QED BY <2>1 DEF Keeps
<1>4. Fair(h, {}, {}) /\ Drops(g, h)
  <2>1. Fair(g, {c}, {})
    BY <1>1, FairFewer
  <2> QED BY <1>1, <1>2, <2>1, OnDeathFair
<1>5. PICK a : a = ToFlock(h, c)
  OBVIOUS
<1>6. Keeps(g, a) /\ TeamsSound(a)
  <2>1. Keeps(h, a)
    BY <1>3, <1>5, MoveKeeps DEF ToFlock
  <2> QED BY <1>3, <2>1, KeepsOn DEF Keeps
<1>7. Fair(a, {}, {}) /\ Drops(g, a)
  <2>1. Fair(h, {c}, {})
    BY <1>4, FairFewer
  <2>2. Fair(a, {}, {}) /\ Drops(h, a)
    BY <1>3, <1>5, <2>1, MoveFair DEF ToFlock
  <2> QED BY <1>4, <2>2, DropsOn
<1>8. PICK k : k = CheckTeamFinished(a, h.team[c])
  OBVIOUS
<1>9. h.team[c] \in Teams
  BY <1>3 DEF TeamsSound, GameStates
<1>10. Keeps(g, k) /\ TeamsSound(k)
  <2>1. Keeps(a, k)
    BY <1>6, <1>8, <1>9, CheckKeeps
  <2> QED BY <1>6, <2>1, KeepsOn DEF Keeps
<1>11. Fair(k, {}, {}) /\ Drops(g, k)
  <2>1. Fair(k, {}, {}) /\ Drops(a, k)
    BY <1>6, <1>7, <1>8, <1>9, CheckFair
  <2> QED BY <1>7, <2>1, DropsOn
<1>12. PICK b : b = IF g.tee[c] = "alive" THEN Die(k, c, "game") ELSE g
  OBVIOUS
<1>13. /\ Keeps(g, b) /\ TeamsSound(b)
       /\ Fair(b, {}, {}) /\ Drops(g, b) /\ b.tee[c] # "alive"
  <2>1. CASE g.tee[c] = "alive"
    <3>1. k.tee[c] # "out"
      BY <1>1, <1>10 DEF Keeps, OutStays
    <3>2. Keeps(k, b)
      BY <1>10, <1>12, <2>1, <3>1, DieKeeps
    <3>3. Fair(b, {}, {}) /\ Drops(k, b) /\ b.tee[c] # "alive"
      BY <1>10, <1>11, <1>12, <2>1, <3>1, DieFair
    <3>4. Keeps(g, b) /\ Drops(g, b)
      BY <1>10, <1>11, <3>2, <3>3, KeepsOn, DropsOn
    <3> QED BY <3>3, <3>4 DEF Keeps
  <2>2. CASE g.tee[c] # "alive"
    BY <1>1, <1>12, <2>2, KeepsItself, DropsNothing
  <2> QED BY <2>1, <2>2
<1>14. PICK d : d = WithTee(b, c, "spec")
  OBVIOUS
<1>15. Keeps(g, d)
  <2>1. b.tee[c] # "out"
    BY <1>1, <1>13 DEF Keeps, OutStays
  <2>2. TeeSpec(b, d, c, "spec")
    BY <1>13, <1>14, TeeSet
  <2>3. Keeps(b, d)
    BY <2>1, <2>2 DEF TeeSpec
  <2> QED BY <1>13, <2>3, KeepsOn
<1>16. Fair(d, {}, {}) /\ Drops(g, d)
  <2>1. Fair(d, {}, {}) /\ Drops(b, d)
    BY <1>13, <1>14, TeeFair
  <2> QED BY <1>13, <2>1, DropsOn
<1>17. Becomes(d) /\ UNCHANGED saves
  BY Zenon, <1>2, <1>5, <1>8, <1>12, <1>14 DEF Spectate, WithTee
<1> QED BY <1>15, <1>16, <1>17, DropsFair

LEMMA UnPracticeFair ==
  ASSUME TeamsInv, FairInv, NEW c \in Clients, UnPractice(c)  PROVE FairInv'
<1> DEFINE t == g.team[c]
<1>1. TeamsSound(g) /\ Fair(g, {}, {}) /\ t \in RealTeams /\ ~GetSaving(g, t)
  BY FairFacts, MemberTeam DEF UnPractice
<1>2. PICK a : a = KillTeam(g, t)
  OBVIOUS
<1>3. Keeps(g, a) /\ TeamsSound(a) /\ a.saving = g.saving
  <2>1. Keeps(g, a)
    BY <1>1, <1>2, KillTeamKeeps
  <2> QED BY <2>1 DEF Keeps
<1>4. Fair(a, {}, {}) /\ Drops(g, a) /\ Alive(a, t) = {}
  BY <1>1, <1>2, KillTeamFair
<1>5. PICK b : b = [a EXCEPT !.practice = @ \ {t}]
  OBVIOUS
<1>6. /\ Keeps(a, b) /\ b.practice = a.practice \ {t}
      /\ b.team = a.team /\ b.tee = a.tee /\ b.race = a.race
      /\ b.finished = a.finished /\ b.run = a.run /\ b.ranked = a.ranked
      /\ b.flock = a.flock /\ b.state = a.state
  BY <1>3, <1>5, LessPractice
<1>7. b.saving = a.saving /\ TeamsSound(b)
  BY <1>6 DEF Keeps
<1>8. PracticeHeld(b)
  <2> SUFFICES ASSUME NEW d \in Clients, b.team[d] # FLOCK, Practiced(b, b.team[d])
               PROVE  d \notin b.finished /\ (b.team[d] \notin b.flock => ~Racer(b, d))
    BY DEF PracticeHeld
  <2>1. CASE b.team[d] = t
    <3>1. b.tee[d] # "alive"
      BY <1>4, <1>6, <2>1 DEF Alive, Members
    <3>2. b.saving[t].kind # "save"
      BY <1>1, <1>3, <1>7, TeamConstants DEF GetSaving
    <3>3. d \notin b.finished
      BY <1>4, <1>6, <1>7, <2>1, <3>1, <3>2 DEF Fair, FinishersPlay
    <3> QED BY <3>1, <3>3 DEF Racer
  <2>2. CASE b.team[d] # t
    <3>1. Practiced(a, a.team[d])
      BY <1>6, <2>2 DEF Practiced
    <3> QED BY <1>4, <1>6, <3>1 DEF Fair, PracticeHeld, Racer
  <2> QED BY <2>1, <2>2
<1>9. Fair(b, {}, {})
  <2>1. FinishersPlay(b, {}) /\ IdleFresh(b, {}) /\ RacersMove(b, {})
    BY <1>4, <1>6, <1>7 DEF Fair, FinishersPlay, IdleFresh, RacersMove, Racer, Moving
  <2>2. MarksFair(b) /\ LoadsOpen(b)
    BY <1>4, <1>6, <1>7 DEF Fair, MarksFair, LoadsOpen
  <2> QED BY <1>8, <2>1, <2>2 DEF Fair
<1>10. Drops(g, b) /\ Keeps(g, b)
  BY <1>3, <1>4, <1>6, KeepsOn DEF Drops
<1>11. Becomes(b) /\ UNCHANGED saves
  BY Zenon, <1>2, <1>5 DEF UnPractice
<1> QED BY <1>9, <1>10, <1>11, DropsFair

LEMMA UnlockTileFair ==
  ASSUME TeamsInv, FairInv, NEW c \in Clients, UnlockTile(c)  PROVE FairInv'
<1>1. PICK h : h = [g EXCEPT !.locked = @ \ {g.team[c]}]
  OBVIOUS
<1>2. /\ Keeps(g, h) /\ h.team = g.team /\ h.tee = g.tee /\ h.race = g.race
      /\ h.finished = g.finished /\ h.run = g.run /\ h.ranked = g.ranked
      /\ h.flock = g.flock /\ h.practice = g.practice /\ h.state = g.state
  BY <1>1, FairFacts, UnlockKeeps
<1>3. Lowers(g, h)
  <2>1. h.saving = g.saving
    BY <1>2 DEF Keeps
  <2> QED BY <1>2, <2>1, SameLowers DEF Racer, Practiced
<1>4. Becomes(h) /\ UNCHANGED saves
  BY <1>1 DEF UnlockTile
<1> QED BY <1>2, <1>3, <1>4, SameFair DEF Stays

LEMMA LockFair ==
  ASSUME TeamsInv, FairInv, NEW c \in Clients, Lock(c)  PROVE FairInv'
<1> DEFINE t == g.team[c]
<1>1. TeamsSound(g) /\ g \in GameStates
  BY FairFacts
<1>2. t \in RealTeams /\ g.state[t] # EMPTY
  BY <1>1, MemberTeam DEF Lock
<1>3. PICK lo : lo = g.locked \cup {t}
  OBVIOUS
<1>4. lo \in SUBSET RealTeams
  BY <1>1, <1>2, <1>3 DEF GameStates
<1>5. PICK h : h = [g EXCEPT !.locked = lo]
  OBVIOUS
<1>6. /\ h \in GameStates /\ h.locked = lo
      /\ h.team = g.team /\ h.state = g.state /\ h.run = g.run /\ h.tee = g.tee
      /\ h.practice = g.practice /\ h.flock = g.flock /\ h.saving = g.saving
      /\ h.race = g.race /\ h.finished = g.finished /\ h.ranked = g.ranked
  BY <1>1, <1>4, <1>5 DEF GameStates
<1>7. h.state[FLOCK] = OPEN
  BY <1>1, <1>6 DEF TeamsSound
<1>8. \A u \in RealTeams : u \in h.locked \cup h.practice =>
        u \in g.locked \cup g.practice \/ g.state[u] # EMPTY
  BY <1>2, <1>3, <1>6
<1>9. Keeps(g, h)
  BY <1>1, <1>6, <1>7, <1>8, RestKeeps
<1>10. Lowers(g, h)
  BY <1>6, SameLowers DEF Racer, Practiced
<1>11. Becomes(h) /\ UNCHANGED saves
  BY <1>3, <1>5 DEF Lock
<1> QED BY <1>6, <1>9, <1>10, <1>11, SameFair DEF Stays

LEMMA PracticeFair ==
  ASSUME TeamsInv, FairInv, NEW c \in Clients, Practice(c)  PROVE FairInv'
<1> DEFINE t == g.team[c]
<1>1. TeamsSound(g) /\ g \in GameStates
  BY FairFacts
<1>2. t \in RealTeams /\ g.state[t] # EMPTY
  BY <1>1, MemberTeam DEF Practice
<1>3. g.run[t] \in Runs
  BY <1>1, <1>2, TeamConstants DEF GameStates
<1>4. PICK q : q = IF g.run[t].id = 0 THEN g.run[t] ELSE Marked(g.run[t], "practiced")
  OBVIOUS
<1>5. /\ q \in Runs /\ q.id = g.run[t].id
      /\ q.marks \subseteq g.run[t].marks \cup {"practiced"}
  <2>1. CASE g.run[t].id = 0
    BY <1>3, <1>4, <2>1
  <2>2. CASE g.run[t].id # 0
    <3>1. q = Marked(g.run[t], "practiced")
      BY <1>4, <2>2
    <3> QED BY <1>3, <3>1, MarkedRun
  <2> QED BY <2>1, <2>2
<1>6. PICK pr, ru : pr = g.practice \cup {t} /\ ru = [g.run EXCEPT ![t] = q]
  OBVIOUS
<1>7. /\ pr \in SUBSET RealTeams /\ ru \in [Teams -> Runs]
      /\ \A u \in Teams : ru[u].id = g.run[u].id
      /\ \A u \in Teams : ru[u].marks \subseteq g.run[u].marks \cup {"practiced"}
      /\ \A u \in Teams : u # t => ru[u] = g.run[u]
  BY <1>1, <1>2, <1>5, <1>6 DEF GameStates
<1>8. PICK h : h = [g EXCEPT !.practice = pr, !.run = ru]
  OBVIOUS
<1>9. /\ h \in GameStates /\ h.practice = pr /\ h.run = ru
      /\ h.team = g.team /\ h.state = g.state /\ h.tee = g.tee
      /\ h.locked = g.locked /\ h.flock = g.flock /\ h.saving = g.saving
      /\ h.race = g.race /\ h.finished = g.finished /\ h.ranked = g.ranked
  BY <1>1, <1>7, <1>8 DEF GameStates
<1>10. h.state[FLOCK] = OPEN
  BY <1>1, <1>9 DEF TeamsSound
<1>11. \A u \in RealTeams : u \in h.locked \cup h.practice =>
         u \in g.locked \cup g.practice \/ g.state[u] # EMPTY
  BY <1>2, <1>6, <1>9
<1>12. \A u \in RealTeams : h.run[u].id = g.run[u].id
  BY <1>7, <1>9, TeamConstants
<1>13. Keeps(g, h)
  BY <1>1, <1>9, <1>10, <1>11, <1>12, RestKeeps
<1>14. h = [g EXCEPT !.practice = @ \cup {t},
                     !.run[t] = IF @.id = 0 THEN @ ELSE Marked(@, "practiced")]
  BY <1>1, <1>4, <1>6, <1>8 DEF GameStates
<1>15. Becomes(h) /\ UNCHANGED saves
  BY <1>14 DEF Practice
<1>16. \A u \in RealTeams : Practiced(h, u) => "practiced" \in g.run[u].marks
  BY <1>6, <1>7, <1>9, TeamConstants DEF Practiced
<1>17. \A u \in RealTeams :
         h.run[u].marks \subseteq g.run[u].marks \cup {"practiced", "deserted"}
  BY <1>7, <1>9, TeamConstants
<1>18. \A d \in Clients : Racer(h, d) => Racer(g, d)
  BY <1>9 DEF Racer
<1>19. g.practice \subseteq h.practice
  BY <1>6, <1>9
<1>20. Lowers(g, h)
  BY <1>9, <1>16, <1>17, <1>18, <1>19, SameLowers
<1> QED BY <1>9, <1>13, <1>15, <1>20, SameFair DEF Stays

LEMMA Team0ModeFair ==
  ASSUME TeamsInv, FairInv, NEW c \in Clients, Team0Mode(c)  PROVE FairInv'
<1> DEFINE t == g.team[c]
<1>1. TeamsSound(g) /\ g \in GameStates /\ g.state[t] = OPEN
  BY FairFacts DEF Team0Mode
<1>2. t \in RealTeams
  BY <1>1, MemberTeam DEF Team0Mode
<1>3. PICK fl : fl = IF t \in g.flock THEN g.flock \ {t} ELSE g.flock \cup {t}
  OBVIOUS
<1>4. fl \in SUBSET RealTeams /\ \A u \in RealTeams : u # t => (u \in fl <=> u \in g.flock)
  BY <1>1, <1>2, <1>3 DEF GameStates
<1>5. PICK h : h = [g EXCEPT !.flock = fl]
  OBVIOUS
<1>6. /\ h \in GameStates /\ h.flock = fl
      /\ h.team = g.team /\ h.tee = g.tee /\ h.run = g.run /\ h.practice = g.practice
      /\ h.locked = g.locked /\ h.state = g.state /\ h.saving = g.saving
      /\ h.race = g.race /\ h.finished = g.finished /\ h.ranked = g.ranked
  BY <1>1, <1>4, <1>5 DEF GameStates
<1>7. \A u : Members(h, u) = Members(g, u)
  BY <1>6 DEF Members
<1>8. \A u \in RealTeams : h.state[u] = EMPTY => u # t
  BY <1>1, <1>6 DEF OPEN, EMPTY
<1>9. \A u \in RealTeams : h.state[u] \in {STARTED, STARTED_UNFINISHABLE, FINISHED} => u # t
  BY <1>1, <1>6 DEF OPEN, STARTED, STARTED_UNFINISHABLE, FINISHED
<1>10. TeamsSound(h)
  BY <1>1, <1>4, <1>6, <1>7, <1>8, <1>9 DEF TeamsSound
<1>11. ASSUME NEW u \in RealTeams
       PROVE  /\ Moving(g, u) => Moving(h, u)
              /\ g.state[u] = FINISHED /\ u \in g.flock => h.state[u] = FINISHED /\ u \in h.flock
              /\ Practiced(h, u) => Practiced(g, u) /\ (u \in g.flock => u \in h.flock)
  BY <1>4, <1>6, <1>9 DEF Moving, Practiced
<1>12. Lowers(g, h)
  <2>1. \A d \in Clients : Racer(h, d) => Racer(g, d)
    BY <1>6 DEF Racer
  <2> QED BY <1>6, <1>11, <2>1 DEF Lowers
<1>13. Fair(h, {}, {})
  BY <1>1, <1>6, <1>10, <1>12, FairFacts, LowersOn
<1>14. FairAll(h, saves)
  <2>1. FairAll(g, saves) /\ "team0mode" \in Features
    BY DEF FairInv, Team0Mode
  <2>2. LoadersKnown(h) /\ SavesFair(h, saves)
    BY <1>6, <1>7, <2>1 DEF FairAll, LoadersKnown, SavesFair
  <2>3. \A u \in RealTeams : OnRun(h, u) => OnRun(g, u) /\ (u \in h.flock => u \in g.flock)
    BY <1>4, <1>6, <1>9 DEF OnRun
  <2>4. Modest(h)
    BY <1>6, <2>1, <2>3 DEF FairAll, Modest
  <2> QED BY <1>13, <2>2, <2>4 DEF FairAll
<1>15. Becomes(h) /\ UNCHANGED saves
  <2>1. h = [g EXCEPT !.flock = IF t \in @ THEN @ \ {t} ELSE @ \cup {t}]
    BY <1>3, <1>5
  <2> QED BY Zenon, <2>1 DEF Team0Mode
<1>16. FairAll(g', saves) /\ NoRace(g')
  BY <1>10, <1>14, <1>15, SettledFair DEF Becomes
<1> QED BY <1>15, <1>16 DEF FairInv

LEMMA JoinFair ==
  ASSUME TeamsInv, FairInv, NEW c \in Clients, NEW t \in Teams, Join(c, t)  PROVE FairInv'
<1>1. TeamsSound(g) /\ g \in GameStates /\ FairAll(g, saves)
  BY FairFacts DEF FairInv
<1>2. PICK h : h = SetForceCharacterTeam(g, c, t)
  OBVIOUS
<1>3. MoveSpec(g, h, c, t, Gone(g, c, t))
  BY <1>1, <1>2, Moves
<1>4. /\ TeamsSound(h) /\ NoNewRun(g, h)
      /\ h.saving = g.saving /\ h.tee = g.tee /\ h.team = [g.team EXCEPT ![c] = t]
  BY <1>1, <1>2, MoveSound
<1>5. ~GetSaving(g, t) /\ g.tee[c] = "alive" /\ (g.race[c] = "NONE" \/ t = FLOCK)
  BY DEF Join, CanJoinTeam
<1>6. Lowers(g, h)
  <2>1. t \in {g.team[c], FLOCK} \/ ~Racer(g, c)
    BY <1>5 DEF Racer
  <2> QED BY <1>1, <1>2, <2>1, MoveLowers
<1>7. Fair(h, {}, {})
  BY <1>1, <1>4, <1>6, LowersOn DEF FairAll
<1>8. \A d \in Clients : h.team[d] = IF d = c THEN t ELSE g.team[d]
  BY <1>1, <1>4 DEF GameStates
<1>9. ASSUME NEW u \in RealTeams
      PROVE  Members(h, u) \subseteq Members(g, u) \/ g.saving[u].kind = "none"
  <2>1. u # FLOCK
    BY TeamConstants
  <2>2. u = t => g.saving[u].kind = "none"
    BY <1>5, <2>1 DEF GetSaving
  <2>3. u # t => Members(h, u) \subseteq Members(g, u)
    BY <1>8 DEF Members
  <2> QED BY <2>2, <2>3
<1>10. LoadersKnown(h)
  BY <1>1, <1>4, <1>9 DEF FairAll, LoadersKnown
<1>11. Modest(h)
  <2>1. h.flock \subseteq g.flock
    BY <1>3 DEF MoveSpec
  <2> QED BY <1>1, <1>4, <2>1 DEF FairAll, Modest, NoNewRun
<1>12. FairAll(h, saves)
  BY <1>1, <1>4, <1>7, <1>10, <1>11 DEF FairAll, SavesFair
<1>13. Becomes(h) /\ UNCHANGED saves
  BY <1>2 DEF Join
<1>14. FairAll(g', saves) /\ NoRace(g')
  BY <1>4, <1>12, <1>13, SettledFair DEF Becomes
<1> QED BY <1>13, <1>14 DEF FairInv

LEMMA TickFair ==
  ASSUME TeamsInv, FairInv, NEW t \in RealTeams, Tick(t)  PROVE FairInv'
<1>1. TeamsSound(g) /\ g \in GameStates /\ Fair(g, {}, {})
  BY FairFacts
<1>2. PICK ki : ki = g.killTick \ {t}
  OBVIOUS
<1>3. ki \in SUBSET RealTeams
  BY <1>1, <1>2 DEF GameStates
<1>4. PICK a : a = [g EXCEPT !.killTick = ki]
  OBVIOUS
<1>5. /\ a \in GameStates
      /\ a.team = g.team /\ a.tee = g.tee /\ a.run = g.run /\ a.practice = g.practice
      /\ a.flock = g.flock /\ a.locked = g.locked /\ a.state = g.state
      /\ a.saving = g.saving
      /\ a.race = g.race /\ a.finished = g.finished /\ a.ranked = g.ranked
  BY <1>1, <1>3, <1>4 DEF GameStates
<1>6. a.state[FLOCK] = OPEN
  BY <1>1, <1>5 DEF TeamsSound
<1>7. Keeps(g, a)
  BY <1>1, <1>5, <1>6, RestKeeps
<1>8. Lowers(g, a)
  BY <1>5, SameLowers DEF Racer, Practiced
<1>9. PICK b : b = KillTeam(g, t)
  OBVIOUS
<1>10. Keeps(g, b) /\ Fair(b, {}, {}) /\ Drops(g, b)
  BY <1>1, <1>9, KillTeamKeeps, KillTeamFair
<1>11. (Becomes(a) \/ Becomes(b)) /\ UNCHANGED saves
  BY <1>2, <1>4, <1>9 DEF Tick
<1>12. CASE Becomes(a)
  BY <1>5, <1>7, <1>8, <1>11, <1>12, SameFair DEF Stays
<1>13. CASE Becomes(b)
  BY <1>10, <1>11, <1>13, DropsFair
<1> QED BY <1>11, <1>12, <1>13

LEMMA SwapFair ==
  ASSUME TeamsInv, FairInv, NEW c \in Clients, NEW d \in Clients, Swap(c, d)  PROVE FairInv'
<1> DEFINE other(m) == IF m = c THEN d ELSE IF m = d THEN c ELSE m
<1>1. TeamsSound(g) /\ g \in GameStates /\ Fair(g, {}, {})
  BY FairFacts
<1>2. PICK ra, sd, fd : /\ ra = [m \in Clients |-> g.race[other(m)]]
                        /\ sd = {m \in Clients : other(m) \in g.started}
                        /\ fd = {m \in Clients : other(m) \in g.finished}
  OBVIOUS
<1>3. ra \in [Clients -> RaceStates] /\ sd \in SUBSET Clients /\ fd \in SUBSET Clients
  BY <1>1, <1>2 DEF GameStates
<1>4. PICK h : h = WithRaces(g, ra, sd, fd)
  OBVIOUS
<1>5. Keeps(g, h) /\ RaceSpec(g, h, ra, sd, fd)
  BY <1>1, <1>3, <1>4, RaceSet
<1>6. h.saving = g.saving /\ TeamsSound(h)
  BY <1>5 DEF Keeps
<1>7. /\ g.team[d] = g.team[c] /\ g.tee[c] = "alive" /\ g.tee[d] = "alive"
  BY DEF Swap
<1>8. \A m \in Clients : /\ other(m) \in Clients /\ g.team[other(m)] = g.team[m]
                         /\ other(m) = m \/ (g.tee[m] = "alive" /\ g.tee[other(m)] = "alive")
  BY <1>7
<1>9. Follows(g, h)
  <2>1. ASSUME NEW m \in Clients, Racer(h, m)
        PROVE  \E n \in Clients : Racer(g, n) /\ g.team[n] = g.team[m]
    <3>1. h.race[m] = g.race[other(m)] /\ h.tee = g.tee
      BY <1>2, <1>5 DEF RaceSpec
    <3>2. Racer(g, other(m))
      BY <1>8, <2>1, <3>1 DEF Racer
    <3> QED BY <1>8, <3>2
  <2>2. ASSUME NEW m \in h.finished
        PROVE  \E n \in Clients :
                 /\ g.team[n] = g.team[m] /\ (n = m \/ g.tee[m] = "alive")
                 /\ n \in g.finished \/ (Racer(g, n) /\ g.team[n] \notin g.flock \cup {FLOCK})
    <3>1. m \in Clients /\ other(m) \in g.finished
      BY <1>2, <1>5 DEF RaceSpec
    <3> QED BY <1>8, <3>1
  <2> QED BY <1>5, <1>6, <2>1, <2>2 DEF Follows, RaceSpec
<1>10. Fair(h, {}, {})
  BY <1>1, <1>6, <1>9, FollowsFair
<1>11. Stays(g, h)
  BY <1>5 DEF RaceSpec, Stays
<1>12. Becomes(h) /\ UNCHANGED saves
  <2>1. h = [g EXCEPT !.race = [m \in Clients |-> @[other(m)]],
                      !.started = {m \in Clients : other(m) \in @},
                      !.finished = {m \in Clients : other(m) \in @}]
    BY <1>1, <1>2, <1>4 DEF WithRaces, GameStates
  <2> QED BY Zenon, <2>1 DEF Swap
<1> QED BY <1>5, <1>10, <1>11, <1>12, DropsFair

LEMMA FinishTileFair ==
  ASSUME TeamsInv, FairInv, NEW c \in Clients, FinishTile(c)  PROVE FairInv'
<1> DEFINE t == g.team[c]
<1>1. TeamsSound(g) /\ g \in GameStates /\ t \in Teams /\ Fair(g, {}, {}) /\ Racer(g, c)
  BY FairFacts, InvFacts DEF FinishTile, Racer
<1>2. PICK ra : ra = [g.race EXCEPT ![c] = "FINISHED"]
  OBVIOUS
<1>3. PICK fd : fd = g.finished \cup ({c} \cap g.started)
  OBVIOUS
<1>4. /\ ra \in [Clients -> RaceStates] /\ g.race \in [Clients -> RaceStates]
      /\ fd \in SUBSET Clients /\ g.finished \in SUBSET Clients /\ g.started \in SUBSET Clients
  BY <1>1, <1>2, <1>3 DEF GameStates, RaceStates
<1>5. PICK a : a = WithRaces(g, ra, g.started, g.finished)
  OBVIOUS
<1>6. PICK b : b = WithRaces(g, g.race, g.started, fd)
  OBVIOUS
<1>7. Keeps(g, a) /\ RaceSpec(g, a, ra, g.started, g.finished) /\ a.saving = g.saving
  <2>1. Keeps(g, a) /\ RaceSpec(g, a, ra, g.started, g.finished)
    BY <1>1, <1>4, <1>5, RaceSet
  <2> QED BY <2>1 DEF Keeps
<1>8. /\ Keeps(g, b) /\ RaceSpec(g, b, g.race, g.started, fd)
      /\ TeamsSound(b) /\ b.saving = g.saving
  <2>1. Keeps(g, b) /\ RaceSpec(g, b, g.race, g.started, fd)
    BY <1>1, <1>4, <1>6, RaceSet
  <2> QED BY <2>1 DEF Keeps
<1>9. [g EXCEPT !.race[c] = "FINISHED"] = a
  BY <1>1, <1>2, <1>5 DEF WithRaces, GameStates
<1>10. [g EXCEPT !.finished = @ \cup ({c} \cap g.started)] = b
  BY <1>1, <1>3, <1>6 DEF WithRaces, GameStates
<1>11. PICK k : k = CheckTeamFinished(b, t)
  OBVIOUS
<1>12. \/ OnCharacterFinish(g, c) = a
       \/ OnCharacterFinish(g, c) = k /\ t \notin g.flock \cup {FLOCK}
  BY <1>9, <1>10, <1>11 DEF OnCharacterFinish
<1>13. Lowers(g, a) /\ Stays(g, a)
  <2>1. \A d \in Clients : a.race[d] = IF d = c THEN "FINISHED" ELSE g.race[d]
    BY <1>1, <1>2, <1>7 DEF RaceSpec, GameStates
  <2>2. \A d \in Clients : Racer(a, d) => Racer(g, d)
    BY <1>7, <2>1 DEF Racer, RaceSpec
  <2> QED BY <1>7, <2>2, SameLowers DEF RaceSpec, Practiced, Stays
<1>14. ASSUME t \notin g.flock \cup {FLOCK}
       PROVE  Keeps(g, k) /\ Fair(k, {}, {}) /\ Stays(g, k)
  <2>1. Follows(g, b)
    <3>1. ASSUME NEW d \in b.finished
          PROVE  \E m \in Clients :
                   /\ g.team[m] = g.team[d] /\ (m = d \/ g.tee[d] = "alive")
                   /\ m \in g.finished \/ (Racer(g, m) /\ g.team[m] \notin g.flock \cup {FLOCK})
      <4>1. d \in Clients /\ (d \in g.finished \/ d = c)
        BY <1>3, <1>4, <1>8 DEF RaceSpec
      <4> QED BY <1>1, <1>14, <4>1
    <3>2. \A d \in Clients : Racer(b, d) => Racer(g, d)
      BY <1>8 DEF Racer, RaceSpec
    <3> QED BY <1>8, <3>1, <3>2 DEF Follows, RaceSpec
  <2>2. Fair(b, {}, {}) /\ Stays(g, b)
    BY <1>1, <1>8, <2>1, FollowsFair DEF RaceSpec, Stays
  <2>3. Fair(k, {}, {}) /\ Drops(b, k)
    BY <1>1, <1>8, <1>11, <2>2, CheckFair
  <2>4. Keeps(b, k)
    BY <1>1, <1>8, <1>11, CheckKeeps
  <2> QED BY <1>8, <2>2, <2>3, <2>4, KeepsOn, DropsStays, StaysOn
<1>15. Becomes(OnCharacterFinish(g, c)) /\ UNCHANGED saves
  BY DEF FinishTile
<1>16. CASE OnCharacterFinish(g, c) = a
  <2>1. Becomes(a) /\ a.tee = g.tee
    BY <1>7, <1>15, <1>16 DEF RaceSpec
  <2> QED BY <1>7, <1>13, <1>15, <2>1, SameFair
<1>17. CASE OnCharacterFinish(g, c) = k /\ t \notin g.flock \cup {FLOCK}
  <2>1. Becomes(k)
    BY <1>15, <1>17
  <2> QED BY <1>14, <1>15, <1>17, <2>1, DropsFair
<1> QED BY <1>12, <1>16, <1>17

\* A tee of team 0 or of a team in its mode starts for itself.
LEMMA AloneFair ==
  ASSUME NEW h, TeamsSound(h), NoIdleRun(h), Fair(h, {}, {}), NEW c \in Clients,
         h.team[c] = FLOCK \/ h.team[c] \in h.flock, ~GetSaving(h, h.team[c]),
         NEW k, k = StartsAlone(h, c)
  PROVE  Fair(k, {}, {}) /\ Stays(h, k)
<1> DEFINE t == h.team[c]
<1>1. h \in GameStates /\ (\A d \in Clients : h.team[d] \in Teams)
      /\ h.finished \subseteq Clients
  BY DEF TeamsSound, GameStates
<1>2. AloneSpec(h, k, c)
  BY AloneSound
<1>3. \A d \in Clients : k.race[d] = IF d = c THEN "STARTED" ELSE h.race[d]
  BY <1>1, <1>2 DEF AloneSpec, GameStates
<1>4. \A d \in Clients : d # c /\ Racer(k, d) => Racer(h, d)
  BY <1>2, <1>3 DEF AloneSpec, Racer
<1>5. ASSUME NEW u \in Teams
      PROVE  \/ k.state[u] = h.state[u]
             \/ /\ k.state[u] = STARTED /\ u \in h.flock /\ u = t
                /\ h.state[u] \notin {STARTED, STARTED_UNFINISHABLE, FINISHED}
  BY <1>2 DEF AloneSpec, STARTED, STARTED_UNFINISHABLE, FINISHED
<1>6. \A u \in Teams : Moving(h, u) => Moving(k, u)
  BY <1>5 DEF Moving
<1>7. \A u \in Teams : h.state[u] = FINISHED => k.state[u] = FINISHED
  BY <1>5
<1>8. \A u \in Teams : Practiced(k, u) => Practiced(h, u)
  <2> SUFFICES ASSUME NEW u \in Teams, Practiced(k, u)  PROVE Practiced(h, u)
    OBVIOUS
  <2>1. k.run = h.run /\ k.practice = h.practice
    BY <1>2 DEF AloneSpec
  <2>2. ASSUME h.state[u] \notin {STARTED, STARTED_UNFINISHABLE}  PROVE FALSE
    <3>1. h.run[u] = NoRun
      BY <2>2 DEF NoIdleRun
    <3>2. "practiced" \notin NoRun.marks
      BY DEF NoRun
    <3> QED BY <2>1, <3>1, <3>2 DEF Practiced
  <2>3. k.state[u] = h.state[u]
    BY <1>5, <2>2
  <2> QED BY <2>1, <2>3 DEF Practiced
<1>9. /\ k.team = h.team /\ k.tee = h.tee /\ k.saving = h.saving /\ k.flock = h.flock
      /\ k.finished = h.finished /\ k.run = h.run /\ k.ranked = h.ranked
  BY <1>2 DEF AloneSpec
<1>10. FinishersPlay(k, {})
  BY <1>9 DEF Fair, FinishersPlay
<1>11. IdleFresh(k, {})
  BY <1>1, <1>6, <1>9 DEF Fair, IdleFresh
<1>12. RacersMove(k, {})
  <2> SUFFICES ASSUME NEW d \in Clients, Racer(k, d), k.team[d] # FLOCK
               PROVE  \/ Moving(k, k.team[d])
                      \/ k.state[k.team[d]] = FINISHED /\ k.team[d] \in k.flock
    BY DEF RacersMove
  <2>1. CASE d = c
    <3>1. ~(k.state[t] < STARTED) /\ t \in Teams
      BY <1>1, <1>2, <1>9, <2>1 DEF AloneSpec
    <3>2. k.state[t] \in EMPTY .. FINISHED
      <4>1. TeamsSound(k)
        BY AloneSound
      <4> QED BY <3>1, <4>1 DEF TeamsSound, GameStates
    <3>3. k.state[t] \in {STARTED, STARTED_UNFINISHABLE, FINISHED}
      BY <3>1, <3>2 DEF EMPTY, STARTED, STARTED_UNFINISHABLE, FINISHED
    <3> QED BY <1>9, <2>1, <3>3 DEF Moving
  <2>2. CASE d # c
    <3>1. Racer(h, d)
      BY <1>4, <2>2
    <3>2. Moving(h, h.team[d]) \/ (h.state[h.team[d]] = FINISHED /\ h.team[d] \in h.flock)
      BY <1>9, <3>1 DEF Fair, RacersMove
    <3> QED BY <1>1, <1>6, <1>7, <1>9, <3>2
  <2> QED BY <2>1, <2>2
<1>13. PracticeHeld(k)
  <2> SUFFICES ASSUME NEW d \in Clients, k.team[d] # FLOCK, Practiced(k, k.team[d])
               PROVE  d \notin k.finished /\ (k.team[d] \notin k.flock => ~Racer(k, d))
    BY DEF PracticeHeld
  <2>1. d \notin h.finished /\ (h.team[d] \notin h.flock => ~Racer(h, d))
    BY <1>1, <1>8, <1>9 DEF Fair, PracticeHeld
  <2>2. d = c => h.team[d] \in h.flock
    BY <1>9
  <2> QED BY <1>4, <1>9, <2>1, <2>2
<1>14. MarksFair(k)
  BY <1>9 DEF Fair, MarksFair
<1>15. LoadsOpen(k)
  <2> SUFFICES ASSUME NEW u \in RealTeams, k.saving[u].kind = "load"
               PROVE  k.state[u] \in {EMPTY, OPEN}
    BY DEF LoadsOpen
  <2>1. u # t /\ u \in Teams
    BY <1>9, TeamConstants DEF GetSaving
  <2> QED BY <1>5, <1>9, <2>1 DEF Fair, LoadsOpen
<1> QED BY <1>9, <1>10, <1>11, <1>12, <1>13, <1>14, <1>15 DEF Fair, Stays

LEMMA BeginFair ==
  ASSUME TeamsInv, FairInv, NEW c \in Clients, UsedRuns # 1 .. MaxRuns,
         NEW t \in RealTeams, t = g.team[c], t \notin g.flock, g.state[t] < STARTED,
         ~GetSaving(g, t), NEW h, h = Begins(g, c)
  PROVE  TeamsSound(h) /\ FairAll(h, saves)
<1>1. TeamsSound(g) /\ g \in GameStates /\ FairAll(g, saves) /\ Fair(g, {}, {})
  BY FairFacts DEF FairInv
<1>2. BeginSpec(g, h, c, t) /\ TeamsSound(h)
  <2>1. BeginSpec(g, h, c, t) /\ Full(h, saves)
    BY BeginFull
  <2> QED BY <2>1 DEF Full
<1>3. /\ h.team = g.team /\ h.tee = g.tee /\ h.practice = g.practice
      /\ h.flock = g.flock /\ h.saving = g.saving /\ h.ranked = g.ranked
      /\ h.finished = g.finished /\ h.finished \subseteq Clients
      /\ h.run \in [Teams -> Runs]
  BY <1>2 DEF BeginSpec, GameStates
<1>4. /\ t \in Teams /\ t # FLOCK /\ g.saving[t].kind = "none"
      /\ \A d \in Clients : g.team[d] \in Teams
  BY <1>1, TeamConstants DEF GetSaving, GameStates
<1>5. \A u \in Teams : h.state[u] = IF u = t THEN STARTED ELSE g.state[u]
  BY <1>1, <1>2, <1>4 DEF BeginSpec, GameStates
<1>6. ~Moving(g, t)
  BY DEF Moving, STARTED, STARTED_UNFINISHABLE
<1>7. \A d \in g.finished : g.team[d] # t
  BY <1>1, <1>4, <1>6 DEF Fair, IdleFresh
<1>8. h.run[t].marks \subseteq {"practiced", "deserted"}
  <2>1. h.run[t].marks \subseteq {"practiced", "deserted", "stale"}
    BY <1>3, <1>4 DEF Runs
  <2>2. Members(g, t) \cap g.finished = {}
    BY <1>7 DEF Members
  <2> QED BY <1>2, <2>1, <2>2 DEF BeginSpec
<1>9. \A u \in Teams : u # t => /\ h.run[u] = g.run[u]
                                /\ Moving(h, u) <=> Moving(g, u)
                                /\ Practiced(h, u) => Practiced(g, u)
  BY <1>2, <1>3, <1>5 DEF BeginSpec, Moving, Practiced
<1>10. Moving(h, t) /\ ~Practiced(h, t)
  BY <1>2, <1>3, <1>4, <1>5 DEF BeginSpec, Moving, Practiced
<1>11. \A d \in Clients : g.team[d] # t => (Racer(h, d) <=> Racer(g, d))
  BY <1>2, <1>3 DEF BeginSpec, Racer, Alive, Members
<1>12. FinishersPlay(h, {})
  BY <1>1, <1>3 DEF Fair, FinishersPlay
<1>13. IdleFresh(h, {})
  BY <1>1, <1>3, <1>4, <1>7, <1>9 DEF Fair, IdleFresh
<1>14. RacersMove(h, {})
  BY <1>1, <1>3, <1>4, <1>5, <1>9, <1>10, <1>11 DEF Fair, RacersMove
<1>15. PracticeHeld(h)
  BY <1>1, <1>3, <1>4, <1>9, <1>10, <1>11 DEF Fair, PracticeHeld
<1>16. MarksFair(h)
  BY <1>1, <1>3, <1>8, <1>9, TeamConstants DEF Fair, MarksFair
<1>17. LoadsOpen(h)
  BY <1>1, <1>3, <1>4, <1>5, TeamConstants DEF Fair, LoadsOpen
<1>18. LoadersKnown(h) /\ SavesFair(h, saves)
  BY <1>1, <1>3 DEF FairAll, LoadersKnown, SavesFair, Members
<1>19. Modest(h)
  <2>1. \A u \in RealTeams : OnRun(h, u) => u = t \/ OnRun(g, u)
    BY <1>5, <1>9, TeamConstants DEF OnRun
  <2> QED BY <1>1, <1>3, <2>1 DEF FairAll, Modest
<1> QED BY <1>2, <1>12, <1>13, <1>14, <1>15, <1>16, <1>17, <1>18, <1>19 DEF FairAll, Fair

LEMMA StartTileFair ==
  ASSUME TeamsInv, FairInv, NEW c \in Clients, StartTile(c)  PROVE FairInv'
<1> DEFINE t == g.team[c]
<1>1. TeamsSound(g) /\ g \in GameStates /\ NoIdleRun(g) /\ Fair(g, {}, {})
      /\ g.tee[c] = "alive"
  BY FairFacts DEF StartTile
<1>2. CASE GetSaving(g, t)
  <2>1. PICK h : h = Die(g, c, "world")
    OBVIOUS
  <2>2. Keeps(g, h) /\ Fair(h, {}, {}) /\ Drops(g, h)
    BY <1>1, <2>1, DieKeeps, DieFair
  <2>3. Becomes(h) /\ UNCHANGED saves
    BY <1>2, <2>1 DEF StartTile
  <2> QED BY <2>2, <2>3, DropsFair
<1>3. CASE ~GetSaving(g, t)
  <2>1. PICK h : h = OnCharacterStart(g, c)
    OBVIOUS
  <2>2. Becomes(h) /\ UNCHANGED saves /\ (g.state[t] < STARTED => UsedRuns # 1 .. MaxRuns)
    BY Zenon, <1>3, <2>1 DEF StartTile
  <2>3. StartCases(g, c, h)
    BY <2>1, StartByCases
  <2>4. CASE h = g
    <3>1. Keeps(g, g) /\ Drops(g, g)
      BY <1>1, KeepsItself, DropsNothing
    <3> QED BY <1>1, <2>2, <2>4, <3>1, DropsFair
  <2>5. CASE (t = FLOCK \/ t \in g.flock) /\ h = StartsAlone(g, c)
    <3>1. TeamsSound(h) /\ NoNewRun(g, h) /\ AloneSpec(g, h, c)
      BY <1>1, <2>5, AloneSound
    <3>2. h.saving = g.saving
      BY <3>1 DEF AloneSpec
    <3>3. Fair(h, {}, {}) /\ Stays(g, h)
      BY <1>1, <1>3, <2>5, AloneFair
    <3> QED BY <2>2, <3>1, <3>2, <3>3, BecomesFair
  <2>6. CASE h = WithStart(g, c)
    <3>1. Keeps(g, h) /\ RaceSpec(g, h, g.race, g.started \cup {c}, g.finished)
      BY <1>1, <2>6, StartsKeep
    <3>2. h.saving = g.saving
      BY <3>1 DEF Keeps
    <3>3. Lowers(g, h) /\ Stays(g, h) /\ h.tee = g.tee
      BY <3>1, <3>2, SameLowers DEF RaceSpec, Racer, Practiced, Stays
    <3> QED BY <2>2, <3>1, <3>3, SameFair
  <2>7. CASE h = WithNoRace(g, c)
    <3>1. PICK ra : ra = [g.race EXCEPT ![c] = "NONE"]
      OBVIOUS
    <3>2. Keeps(g, h) /\ RaceSpec(g, h, ra, g.started, g.finished)
      BY <1>1, <2>7, <3>1, StartsKeep
    <3>3. h.saving = g.saving
      BY <3>2 DEF Keeps
    <3>4. \A d \in Clients : h.race[d] = IF d = c THEN "NONE" ELSE g.race[d]
      BY <1>1, <3>1, <3>2 DEF RaceSpec, GameStates
    <3>5. \A d \in Clients : Racer(h, d) => Racer(g, d)
      BY <3>2, <3>4 DEF RaceSpec, Racer
    <3>6. Lowers(g, h) /\ Stays(g, h) /\ h.tee = g.tee
      BY <3>2, <3>3, <3>5, SameLowers DEF RaceSpec, Practiced, Stays
    <3> QED BY <2>2, <3>2, <3>6, SameFair
  <2>8. CASE t # FLOCK /\ t \notin g.flock /\ g.state[t] < STARTED /\ h = Begins(g, c)
    <3>1. t \in RealTeams
      BY <1>1, <2>8, MemberTeam
    <3>2. TeamsSound(h) /\ FairAll(h, saves)
      BY <1>3, <2>2, <2>8, <3>1, BeginFair
    <3>3. FairAll(g', saves) /\ NoRace(g')
      BY <2>2, <3>2, SettledFair DEF Becomes
    <3> QED BY <2>2, <3>3 DEF FairInv
  <2> QED BY <2>3, <2>4, <2>5, <2>6, <2>7, <2>8 DEF StartCases
<1> QED BY <1>2, <1>3

-----------------------------------------------------------------------------
(* Saving and loading keep the runs fair. *)

\* The saving of t becomes s and the table W: fair, if nobody relied on the saving
\* before.
LEMMA SavingFair ==
  ASSUME NEW h, TeamsSound(h), NEW t \in RealTeams, NEW s \in Savings, NEW V, NEW W,
         NEW k, k = WithSaving(h, t, s),
         FinishersPlay(h, {}), IdleFresh(h, {}), RacersMove(h, {}), PracticeHeld(h),
         MarksFair(h), LoadersKnown(h), Modest(h), SavesFair(h, V),
         \A u \in RealTeams : u # t /\ h.saving[u].kind = "load" => h.state[u] \in {EMPTY, OPEN},
         s.kind = "load" => h.state[t] \in {EMPTY, OPEN},
         \/ s.kind = "save" \/ h.saving[t].kind # "save"
         \/ \A c \in h.finished : h.team[c] = t => h.tee[c] = "alive" /\ Moving(h, t),
         s.kind = "none" \/ "save" \in Features,
         s.kind = "load" \/ (s.kind = "save" /\ s.status # "done")
           => Members(h, t) \subseteq s.saved.names,
         SavedFair(s.saved), \A v \in W : SavedFair(v)
  PROVE  TeamsSound(k) /\ FairAll(k, W)
<1>1. SavingSpec(h, k, t, s)
  BY SavingSet
<1>2. /\ TeamsSound(k) /\ k.team = h.team /\ k.tee = h.tee /\ k.race = h.race
      /\ k.finished = h.finished /\ k.state = h.state /\ k.run = h.run /\ k.ranked = h.ranked
      /\ k.practice = h.practice /\ k.flock = h.flock
  BY <1>1 DEF SavingSpec
<1>3. k.saving[t] = s /\ \A u \in RealTeams : u # t => k.saving[u] = h.saving[u]
  BY <1>1, SavingFacts
<1>4. \A c \in h.finished : c \in Clients /\ h.team[c] \in RealTeams
  <2>1. h.finished \subseteq Clients /\ \A c \in Clients : h.team[c] \in Teams
    BY DEF TeamsSound, GameStates
  <2> QED BY <2>1, TeamConstants DEF FinishersPlay
<1>5. FinishersPlay(k, {})
  BY <1>2, <1>3, <1>4 DEF FinishersPlay
<1>6. IdleFresh(k, {})
  BY <1>2, <1>3, <1>4 DEF IdleFresh, Moving
<1>7. RacersMove(k, {}) /\ PracticeHeld(k) /\ MarksFair(k)
  BY <1>2 DEF RacersMove, PracticeHeld, MarksFair, Racer, Moving, Practiced
<1>8. LoadsOpen(k)
  BY <1>2, <1>3 DEF LoadsOpen
<1>9. LoadersKnown(k)
  BY <1>2, <1>3 DEF LoadersKnown, Members
<1>10. Modest(k)
  BY <1>2, <1>3 DEF Modest, OnRun
<1>11. SavesFair(k, W)
  BY <1>3 DEF SavesFair
<1> QED BY <1>2, <1>5, <1>6, <1>7, <1>8, <1>9, <1>10, <1>11 DEF FairAll, Fair

LEMMA SaveTeamFair ==
  ASSUME TeamsInv, FairInv, NEW c \in Clients, SaveTeam(c)  PROVE FairInv'
<1> DEFINE t == g.team[c]
<1>1. /\ TeamsSound(g) /\ g \in GameStates /\ Fair(g, {}, {})
      /\ LoadersKnown(g) /\ Modest(g) /\ SavesFair(g, saves)
  BY FairFacts DEF FairInv, FairAll
<1>2. /\ t \in RealTeams /\ t \in Teams /\ t # FLOCK /\ t \notin g.flock
      /\ t \notin g.practice /\ g.state[t] = STARTED /\ g.saving[t].kind = "none"
      /\ Members(g, t) = Alive(g, t) /\ "save" \in Features
  BY <1>1, MemberTeam, TeamConstants DEF SaveTeam, GetSaving
<1>3. PICK v : v = SavedTeam(g, t)
  OBVIOUS
<1>4. /\ v \in SavedTeams /\ v.run = g.run[t] /\ v.names = Members(g, t)
      /\ v.started = g.started \cap Members(g, t)
      /\ v.finished = g.finished \cap Members(g, t)
      /\ \A d \in Clients : v.race[d] = IF d \in Members(g, t) THEN g.race[d] ELSE "NONE"
  BY <1>1, <1>2, <1>3, SavedTeamTyped
<1>5. SavedFair(v)
  <2>1. v.run.marks \subseteq {"practiced", "deserted"}
    BY <1>1, <1>2, <1>4 DEF Fair, MarksFair
  <2>2. ASSUME "practiced" \in v.run.marks
        PROVE  v.finished = {} /\ \A d \in Clients : v.race[d] # "STARTED"
    <3>1. Practiced(g, t)
      BY <1>2, <1>4, <2>2 DEF Practiced
    <3>2. \A d \in Members(g, t) :
            d \in Clients /\ g.team[d] = t /\ g.tee[d] = "alive"
      BY <1>2 DEF Alive, Members
    <3>3. \A d \in Members(g, t) : d \notin g.finished /\ g.race[d] # "STARTED"
      BY <1>1, <1>2, <3>1, <3>2 DEF Fair, PracticeHeld, Racer
    <3> QED BY <1>4, <3>3
  <2> QED BY <1>4, <2>1, <2>2 DEF SavedFair
<1>6. PICK s : s = [kind |-> "save", status |-> "pending", saved |-> v]
  OBVIOUS
<1>7. s \in Savings /\ s.kind = "save" /\ s.status = "pending" /\ s.saved = v
  BY <1>4, <1>6, SavingMade
<1>8. PICK h : h = WithSaving(g, t, s)
  OBVIOUS
<1>9. TeamsSound(h) /\ FairAll(h, saves)
  BY <1>1, <1>2, <1>4, <1>5, <1>7, <1>8, SavingFair DEF Fair, LoadsOpen, SavesFair
<1>10. PICK k : k = KillTeam(h, t)
  OBVIOUS
<1>11. Keeps(h, k)
  BY <1>9, <1>10, KillTeamKeeps
<1>12. Fair(k, {}, {}) /\ Drops(h, k)
  BY <1>2, <1>9, <1>10, KillTeamFair DEF FairAll
<1>13. FairAll(k, saves) /\ TeamsSound(k)
  BY <1>9, <1>11, <1>12, StaysFair, DropsStays DEF Keeps
<1>14. Becomes(k) /\ UNCHANGED saves
  BY Zenon, <1>3, <1>6, <1>8, <1>10 DEF SaveTeam, WithSaving
<1>15. FairAll(g', saves) /\ NoRace(g')
  BY <1>13, <1>14, SettledFair DEF Becomes
<1> QED BY <1>14, <1>15 DEF FairInv

LEMMA LoadTeamFair ==
  ASSUME TeamsInv, FairInv, NEW c \in Clients, LoadTeam(c)  PROVE FairInv'
<1> DEFINE t == g.team[c]
<1>1. /\ TeamsSound(g) /\ g \in GameStates /\ Fair(g, {}, {})
      /\ LoadersKnown(g) /\ Modest(g) /\ SavesFair(g, saves)
  BY FairFacts DEF FairInv, FairAll
<1>2. /\ t \in RealTeams /\ t \in Teams /\ g.state[t] = OPEN /\ g.saving[t].kind = "none"
      /\ "save" \in Features
  BY <1>1, MemberTeam, TeamConstants DEF LoadTeam, GetSaving
<1>3. PICK C : C = Members(g, t)
  OBVIOUS
<1>4. PICK v : v = [NoTeam EXCEPT !.names = C]
  OBVIOUS
<1>5. v \in SavedTeams /\ v.names = C /\ SavedFair(v)
  <2>1. C \in SUBSET Clients
    BY <1>3, AliveMembers
  <2>2. NoTeam \in SavedTeams
    BY TeamConstants
  <2>3. NoTeam.run = NoRun /\ NoTeam.finished = {}
    BY DEF NoTeam
  <2>4. v.run = NoRun /\ v.finished = {}
    BY <1>4, <2>3 DEF NoTeam
  <2>5. NoRun.marks = {}
    BY DEF NoRun
  <2>6. v \in SavedTeams /\ v.names = C
    BY <1>4, <2>1, <2>2 DEF SavedTeams
  <2> QED BY <2>4, <2>5, <2>6 DEF SavedFair
<1>6. PICK s : s = [kind |-> "load", status |-> "pending", saved |-> v]
  OBVIOUS
<1>7. s \in Savings /\ s.kind = "load" /\ s.status = "pending" /\ s.saved = v
  BY <1>5, <1>6, SavingMade
<1>8. PICK h : h = WithSaving(g, t, s)
  OBVIOUS
<1>9. TeamsSound(h) /\ FairAll(h, saves)
  BY <1>1, <1>2, <1>3, <1>5, <1>7, <1>8, SavingFair DEF Fair, LoadsOpen, SavesFair
<1>10. Becomes(h) /\ UNCHANGED saves
  BY Zenon, <1>3, <1>4, <1>6, <1>8 DEF LoadTeam, WithSaving
<1>11. FairAll(g', saves) /\ NoRace(g')
  BY <1>9, <1>10, SettledFair DEF Becomes
<1> QED BY <1>10, <1>11 DEF FairInv

LEMMA SaveWorkerFair ==
  ASSUME TeamsInv, FairInv, NEW t \in RealTeams, SaveWorker(t)  PROVE FairInv'
<1>1. /\ TeamsSound(g) /\ Fair(g, {}, {}) /\ LoadersKnown(g) /\ Modest(g)
      /\ SavesFair(g, saves)
  BY FairFacts DEF FairInv, FairAll
<1>2. PICK s : s = g.saving[t]
  OBVIOUS
<1>3. /\ s.kind = "save" /\ s.status = "pending" /\ s \in Savings /\ s.saved \in SavedTeams
      /\ SavedFair(s.saved) /\ Members(g, t) \subseteq s.saved.names /\ "save" \in Features
  BY <1>1, <1>2, SavingsOf DEF SaveWorker, LoadersKnown, Modest, SavesFair
<1>4. PICK d : d = [kind |-> "save", status |-> "done", saved |-> NoTeam]
  OBVIOUS
<1>5. d \in Savings /\ d.kind = "save" /\ d.status = "done" /\ d.saved = NoTeam
  BY <1>4, SavingMade, TeamConstants
<1>6. PICK f : f = [s EXCEPT !.status = "failed"]
  OBVIOUS
<1>7. f \in Savings /\ f.kind = "save" /\ f.status = "failed" /\ f.saved = s.saved
  BY <1>3, <1>6 DEF Savings
<1>8. PICK h : h = WithSaving(g, t, d)
  OBVIOUS
<1>9. PICK k : k = WithSaving(g, t, f)
  OBVIOUS
<1>10. SavedFair(NoTeam)
  <2>1. NoTeam.run.marks = {} /\ NoTeam.finished = {}
    BY DEF NoTeam, NoRun
  <2> QED BY <2>1 DEF SavedFair
<1>11. PICK W : W = saves \cup {s.saved}
  OBVIOUS
<1>12. \A v \in W : SavedFair(v)
  BY <1>1, <1>3, <1>11 DEF SavesFair
<1>13. TeamsSound(h) /\ FairAll(h, W)
  BY <1>1, <1>3, <1>5, <1>8, <1>10, <1>12, SavingFair DEF Fair, LoadsOpen
<1>14. TeamsSound(k) /\ FairAll(k, saves)
  BY <1>1, <1>3, <1>7, <1>9, SavingFair DEF Fair, LoadsOpen, SavesFair
<1>15. \/ Becomes(h) /\ saves' = W
       \/ Becomes(k) /\ saves' = saves
  <2>1. k = [g EXCEPT !.saving[t] = [@ EXCEPT !.status = "failed"]]
    BY <1>2, <1>6, <1>9 DEF WithSaving
  <2>2. h = [g EXCEPT !.saving[t] = [kind |-> "save", status |-> "done", saved |-> NoTeam]]
    BY <1>4, <1>8 DEF WithSaving
  <2>3. PICK ok \in BOOLEAN :
          /\ Becomes([g EXCEPT !.saving[t] =
                     IF ok THEN [kind |-> "save", status |-> "done", saved |-> NoTeam]
                     ELSE [@ EXCEPT !.status = "failed"]])
          /\ saves' = IF ok THEN saves \cup {s.saved} ELSE saves
    BY Zenon, <1>2 DEF SaveWorker
  <2>4. ASSUME ok = TRUE  PROVE Becomes(h) /\ saves' = W
    BY Zenon, <1>11, <2>2, <2>3, <2>4
  <2>5. ASSUME ok = FALSE  PROVE Becomes(k) /\ saves' = saves
    BY Zenon, <2>1, <2>3, <2>5
  <2> QED BY Zenon, <2>4, <2>5
<1>16. CASE Becomes(h) /\ saves' = W
  BY <1>13, <1>16, SettledFair DEF Becomes, FairInv
<1>17. CASE Becomes(k) /\ saves' = saves
  BY <1>14, <1>17, SettledFair DEF Becomes, FairInv
<1> QED BY <1>15, <1>16, <1>17

LEMMA LoadWorkerFair ==
  ASSUME TeamsInv, FairInv, NEW t \in RealTeams, LoadWorker(t)  PROVE FairInv'
<1>1. /\ TeamsSound(g) /\ g \in GameStates /\ Fair(g, {}, {}) /\ LoadersKnown(g)
      /\ Modest(g) /\ SavesFair(g, saves) /\ SavesSound(saves)
  BY FairFacts, InvFacts DEF FairInv, FairAll, TeamsInv, Full
<1>2. PICK s : s = g.saving[t]
  OBVIOUS
<1>3. /\ s.kind = "load" /\ s.status = "pending" /\ s \in Savings
      /\ SavedFair(s.saved) /\ Members(g, t) \subseteq s.saved.names /\ "save" \in Features
      /\ g.state[t] \in {EMPTY, OPEN}
  BY <1>1, <1>2, SavingsOf DEF LoadWorker, LoadersKnown, Modest, SavesFair, Fair, LoadsOpen
<1>4. PICK f : f = [s EXCEPT !.status = "failed"]
  OBVIOUS
<1>5. f \in Savings /\ f.kind = "load" /\ f.status = "failed" /\ f.saved = s.saved
  BY <1>3, <1>4 DEF Savings
<1>6. PICK k : k = WithSaving(g, t, f)
  OBVIOUS
<1>7. k = [g EXCEPT !.saving[t].status = "failed"]
  BY <1>1, <1>2, <1>4, <1>6 DEF WithSaving, GameStates
<1>8. ASSUME Becomes(k), saves' = saves  PROVE FairInv'
  <2>1. TeamsSound(k) /\ FairAll(k, saves)
    BY <1>1, <1>2, <1>3, <1>5, <1>6, SavingFair DEF Fair, LoadsOpen, SavesFair
  <2> QED BY <1>8, <2>1, SettledFair DEF Becomes, FairInv
<1>9. ASSUME NEW v \in saves, v.names = s.saved.names,
             Becomes(WithSaving(g, t, [kind |-> "load", status |-> "done", saved |-> v])),
             saves' = saves \ {v}
      PROVE  FairInv'
  <2>1. PICK d : d = [kind |-> "load", status |-> "done", saved |-> v]
    OBVIOUS
  <2>2. v \in SavedTeams /\ SavedFair(v)
    BY <1>1, <1>9 DEF SavesSound, SavesFair
  <2>3. d \in Savings /\ d.kind = "load" /\ d.status = "done" /\ d.saved = v
    BY <2>1, <2>2, SavingMade
  <2>4. PICK h : h = WithSaving(g, t, d)
    OBVIOUS
  <2>5. PICK W : W = saves \ {v}
    OBVIOUS
  <2>6. \A w \in W : SavedFair(w)
    BY <1>1, <2>5 DEF SavesFair
  <2>7. TeamsSound(h) /\ FairAll(h, W)
    BY <1>1, <1>2, <1>3, <1>9, <2>2, <2>3, <2>4, <2>6, SavingFair DEF Fair, LoadsOpen
  <2>8. Becomes(h)
    BY Zenon, <1>9, <2>1, <2>4
  <2> QED BY <1>9, <2>5, <2>7, <2>8, SettledFair DEF Becomes, FairInv
<1>10. \/ Becomes(k) /\ saves' = saves
       \/ \E v \in saves :
            /\ v.names = s.saved.names
            /\ Becomes(WithSaving(g, t, [kind |-> "load", status |-> "done", saved |-> v]))
            /\ saves' = saves \ {v}
  BY Zenon, <1>2, <1>7 DEF LoadWorker, WithSaving
<1> QED BY Zenon, <1>8, <1>9, <1>10

\* The saving of t is over.
LEMMA SavingOver ==
  ASSUME NEW k, TeamsSound(k), NEW t \in RealTeams, NEW V,
         FinishersPlay(k, {}), IdleFresh(k, {}), RacersMove(k, {}), PracticeHeld(k),
         MarksFair(k), LoadersKnown(k), Modest(k), SavesFair(k, V),
         \A u \in RealTeams : u # t /\ k.saving[u].kind = "load" => k.state[u] \in {EMPTY, OPEN},
         \/ k.saving[t].kind # "save"
         \/ \A c \in k.finished : k.team[c] = t => k.tee[c] = "alive" /\ Moving(k, t),
         Becomes(WithSaving(k, t, NotSaving)), saves' = V
  PROVE  FairInv'
<1>1. PICK h : h = WithSaving(k, t, NotSaving)
  OBVIOUS
<1>2. NotSaving \in Savings /\ NotSaving.kind = "none"
  BY TeamConstants
<1>3. SavedFair(NotSaving.saved)
  <2>1. NotSaving.saved.run.marks = {} /\ NotSaving.saved.finished = {}
    BY DEF NotSaving, NoTeam, NoRun
  <2> QED BY <2>1 DEF SavedFair
<1>4. \A v \in V : SavedFair(v)
  BY DEF SavesFair
<1>5. TeamsSound(h) /\ FairAll(h, V)
  BY <1>1, <1>2, <1>3, <1>4, SavingFair
<1>6. Becomes(h)
  BY Zenon, <1>1
<1>7. FairAll(g', V) /\ NoRace(g')
  BY <1>5, <1>6, SettledFair DEF Becomes
<1> QED BY <1>7 DEF FairInv

\* Nobody is in a team of no size.
LEMMA NobodyIn ==
  ASSUME NEW h, NEW t, ~(TeamSize(h, t) > 0)  PROVE Members(h, t) = {}
<1>1. Members(h, t) \in SUBSET Clients
  BY AliveMembers
<1>2. ASSUME NEW c \in Members(h, t)  PROVE FALSE
  <2>1. TeamSize(h, t) <= 1 => Members(h, t) = {c}
    BY <1>1, OnlyMember DEF TeamSize
  <2>2. TeamSize(h, t) \in Nat
    BY <1>1, ClientsFinite DEF TeamSize
  <2>3. Members(h, t) = {c} => TeamSize(h, t) = 1
    BY FS_Singleton DEF TeamSize
  <2> QED BY <2>1, <2>2, <2>3
<1> QED BY <1>2

\* A fair save makes a fair team of those it finds, if it finds the whole team.
LEMMA LoadFair ==
  ASSUME NEW h, TeamsSound(h), NEW t \in RealTeams, NEW v \in SavedTeams, NEW V,
         FairAll(h, V), SavedFair(v), OutInFlock(h), Members(h, t) \subseteq v.names,
         "save" \in Features, NEW k, k = Load(h, t, v)
  PROVE  /\ FinishersPlay(k, {}) /\ IdleFresh(k, {}) /\ RacersMove(k, {})
         /\ PracticeHeld(k) /\ MarksFair(k) /\ LoadersKnown(k) /\ Modest(k) /\ SavesFair(k, V)
         /\ \A c \in k.finished : k.team[c] = t => k.tee[c] = "alive" /\ Moving(k, t)
         /\ \A u \in RealTeams :
              u # t /\ k.saving[u].kind = "load" => k.state[u] \in {EMPTY, OPEN}
<1>1. /\ h \in GameStates /\ t \in Teams /\ t # FLOCK /\ RealTeams \subseteq Teams
      /\ RealTeams = Teams \ {FLOCK}
  BY TeamConstants DEF TeamsSound
<1>2. PICK C : C = Players(h, t) \cap v.names
  OBVIOUS
<1>3. LoadSpec(h, k, t, v, C)
  BY <1>2, LoadFields
<1>4. \A c \in Clients : c \in C <=> h.team[c] = t
  BY <1>1, <1>2 DEF Players, Members, OutInFlock
<1>5. /\ k.team = h.team /\ k.saving = h.saving /\ k.ranked = h.ranked /\ k.flock = h.flock
      /\ \A c \in Clients : /\ k.tee[c] = IF h.team[c] = t THEN "alive" ELSE h.tee[c]
                            /\ k.race[c] = IF h.team[c] = t THEN v.race[c] ELSE h.race[c]
                            /\ h.team[c] \in Teams
      /\ \A c \in k.finished :
           /\ c \in Clients
           /\ IF h.team[c] = t THEN c \in v.finished ELSE c \in h.finished
  <2>1. h.finished \subseteq Clients /\ \A c \in Clients : h.team[c] \in Teams
    BY <1>1 DEF GameStates
  <2>2. C \subseteq Clients
    BY <1>2 DEF Players, Members
  <2> QED BY <1>3, <1>4, <2>1, <2>2 DEF LoadSpec
<1>6. /\ \A u \in Teams : k.state[u] = IF u = t THEN STARTED ELSE h.state[u]
      /\ \A u \in Teams : k.run[u] = IF u = t THEN v.run ELSE h.run[u]
      /\ \A u \in Teams : u # t => (u \in k.practice <=> u \in h.practice)
  BY <1>1, <1>3 DEF LoadSpec, GameStates
<1>7. Moving(k, t)
  BY <1>1, <1>6 DEF Moving
<1>8. \A u \in RealTeams : u # t => /\ Moving(k, u) <=> Moving(h, u)
                                    /\ Practiced(k, u) <=> Practiced(h, u)
  BY <1>1, <1>6 DEF Moving, Practiced
<1>9. \A c \in Clients : h.team[c] # t => (Racer(k, c) <=> Racer(h, c))
  BY <1>5 DEF Racer
<1>10. FinishersPlay(k, {})
  BY <1>1, <1>5 DEF FinishersPlay, FairAll, Fair
<1>11. IdleFresh(k, {})
  <2> SUFFICES ASSUME NEW c \in k.finished
               PROVE  Moving(k, k.team[c]) \/ k.saving[k.team[c]].kind = "save"
    BY DEF IdleFresh
  <2>1. CASE h.team[c] = t
    BY <1>5, <1>7, <2>1
  <2>2. CASE h.team[c] # t
    <3>1. c \in h.finished /\ h.team[c] \in RealTeams
      BY <1>1, <1>5, <2>2 DEF FairAll, Fair, FinishersPlay
    <3> QED BY <1>5, <1>8, <2>2, <3>1 DEF FairAll, Fair, IdleFresh
  <2> QED BY <2>1, <2>2
<1>12. RacersMove(k, {})
  <2> SUFFICES ASSUME NEW c \in Clients, Racer(k, c), k.team[c] # FLOCK
               PROVE  \/ Moving(k, k.team[c])
                      \/ k.state[k.team[c]] = FINISHED /\ k.team[c] \in k.flock
    BY DEF RacersMove
  <2>1. CASE h.team[c] = t
    BY <1>5, <1>7, <2>1
  <2>2. CASE h.team[c] # t
    <3>1. Racer(h, c) /\ h.team[c] \in RealTeams /\ h.team[c] \in Teams
      BY <1>1, <1>5, <1>9, <2>2
    <3> QED BY <1>5, <1>6, <1>8, <2>2, <3>1, <1>1 DEF FairAll, Fair, RacersMove
  <2> QED BY <2>1, <2>2
<1>13. PracticeHeld(k)
  <2> SUFFICES ASSUME NEW c \in Clients, k.team[c] # FLOCK, Practiced(k, k.team[c])
               PROVE  c \notin k.finished /\ (k.team[c] \notin k.flock => ~Racer(k, c))
    BY DEF PracticeHeld
  <2>1. CASE h.team[c] = t
    <3>1. "practiced" \in v.run.marks
      BY <1>1, <1>5, <1>6, <2>1 DEF Practiced
    <3>2. v.finished = {} /\ v.race[c] # "STARTED"
      BY <3>1 DEF SavedFair
    <3> QED BY <1>5, <2>1, <3>2 DEF Racer
  <2>2. CASE h.team[c] # t
    <3>1. h.team[c] \in RealTeams /\ Practiced(h, h.team[c]) /\ h.team[c] # FLOCK
      BY <1>1, <1>5, <1>8, <2>2
    <3>2. c \notin h.finished /\ (h.team[c] \notin h.flock => ~Racer(h, c))
      BY <3>1 DEF FairAll, Fair, PracticeHeld
    <3> QED BY <1>5, <1>9, <2>2, <3>2
  <2> QED BY <2>1, <2>2
<1>14. MarksFair(k)
  BY <1>1, <1>5, <1>6 DEF FairAll, Fair, MarksFair, SavedFair
<1>15. LoadersKnown(k)
  BY <1>5 DEF FairAll, LoadersKnown, Members
<1>16. Modest(k)
  BY <1>5 DEF FairAll, Modest, OneOfModes
<1>17. SavesFair(k, V)
  BY <1>5 DEF FairAll, SavesFair
<1>18. \A c \in k.finished : k.team[c] = t => k.tee[c] = "alive" /\ Moving(k, t)
  BY <1>5, <1>7
<1>19. \A u \in RealTeams : u # t /\ k.saving[u].kind = "load" => k.state[u] \in {EMPTY, OPEN}
  BY <1>1, <1>5, <1>6 DEF FairAll, Fair, LoadsOpen
<1> QED BY <1>10, <1>11, <1>12, <1>13, <1>14, <1>15, <1>16, <1>17, <1>18, <1>19

LEMMA ProcessSaveTeamFair ==
  ASSUME LoadsValid, TeamsInv, FairInv, NEW t \in RealTeams, ProcessSaveTeam(t)
  PROVE  FairInv'
<1>1. /\ TeamsSound(g) /\ FairAll(g, saves) /\ OutInFlock(g)
      /\ FinishersPlay(g, {}) /\ IdleFresh(g, {}) /\ RacersMove(g, {}) /\ PracticeHeld(g)
      /\ MarksFair(g) /\ LoadsOpen(g) /\ LoadersKnown(g) /\ Modest(g) /\ SavesFair(g, saves)
  BY FairFacts DEF FairInv, FairAll, Fair
<1>2. PICK s : s = g.saving[t]
  OBVIOUS
<1>3. /\ s.saved \in SavedTeams /\ SavedFair(s.saved) /\ s.kind # "none"
      /\ "save" \in Features
  BY <1>1, <1>2, SavingsOf DEF SavesFair, ProcessSaveTeam, Modest
<1>4. saves' = saves
  BY <1>2, ProcessCases
<1>5. ASSUME s.kind = "save",
             Becomes(WithSaving(AllToFlock(g, Players(g, t)), t, NotSaving))
      PROVE  FairInv'
  <2>1. PICK k : k = AllToFlock(g, Players(g, t))
    OBVIOUS
  <2>2. Players(g, t) \in SUBSET Clients
    BY AliveMembers
  <2>3. Keeps(g, k) /\ AwaySpec(g, k, Players(g, t))
    BY <1>1, <2>1, <2>2, AllAway
  <2>4. Lowers(g, k) /\ Drops(g, k) /\ k.tee = g.tee
    BY <1>1, <2>1, <2>2, AllAwayLowers
  <2>5. TeamsSound(k) /\ NoNewRun(g, k) /\ k.saving = g.saving
    BY <2>3 DEF Keeps
  <2>6. Fair(k, {}, {})
    BY <1>1, <2>4, <2>5, LowersOn DEF FairAll
  <2>7. FairAll(k, saves)
    BY <1>1, <2>4, <2>5, <2>6, StaysFair, DropsStays
  <2>8. \A c \in k.finished : k.team[c] # t
    <3>1. Players(g, t) = Members(g, t)
      BY <1>1, TeamConstants DEF Players, Members, OutInFlock
    <3>2. k.finished \subseteq Clients
      BY <2>5 DEF TeamsSound, GameStates
    <3> QED BY <2>3, <3>1, <3>2, TeamConstants DEF AwaySpec, Members
  <2>9. Becomes(WithSaving(k, t, NotSaving))
    BY Zenon, <1>5, <2>1
  <2>10. /\ FinishersPlay(k, {}) /\ IdleFresh(k, {}) /\ RacersMove(k, {}) /\ PracticeHeld(k)
         /\ MarksFair(k) /\ LoadsOpen(k) /\ LoadersKnown(k) /\ Modest(k) /\ SavesFair(k, saves)
    BY <2>7 DEF FairAll, Fair
  <2> QED BY <1>4, <2>5, <2>8, <2>9, <2>10, SavingOver DEF LoadsOpen
<1>6. ASSUME TeamSize(g, t) > 0 => s.kind = "load" /\ s.status = "failed",
             Becomes(WithSaving(g, t, NotSaving))
      PROVE  FairInv'
  <2>1. \/ g.saving[t].kind # "save"
        \/ \A c \in g.finished : g.team[c] = t => g.tee[c] = "alive" /\ Moving(g, t)
    <3>1. CASE TeamSize(g, t) > 0
      BY <1>2, <1>6, <3>1
    <3>2. CASE ~(TeamSize(g, t) > 0)
      <4>1. g.finished \subseteq Clients
        BY <1>1 DEF TeamsSound, GameStates
      <4> QED BY <3>2, <4>1, NobodyIn DEF Members
    <3> QED BY <3>1, <3>2
  <2> QED BY <1>1, <1>4, <1>6, <2>1, SavingOver DEF LoadsOpen
<1>7. ASSUME \/ s.kind = "save" /\ s.status = "failed"
             \/ s.kind = "load" /\ s.status = "done",
             Becomes(WithSaving(Load(g, t, s.saved), t, NotSaving)), TeamSize(g, t) > 0
      PROVE  FairInv'
  <2>1. PICK k : k = Load(g, t, s.saved)
    OBVIOUS
  <2>2. Members(g, t) \subseteq s.saved.names
    BY <1>1, <1>2, <1>7 DEF LoadersKnown
  <2>3. /\ FinishersPlay(k, {}) /\ IdleFresh(k, {}) /\ RacersMove(k, {})
        /\ PracticeHeld(k) /\ MarksFair(k) /\ LoadersKnown(k) /\ Modest(k)
        /\ SavesFair(k, saves)
        /\ \A c \in k.finished : k.team[c] = t => k.tee[c] = "alive" /\ Moving(k, t)
        /\ \A u \in RealTeams :
             u # t /\ k.saving[u].kind = "load" => k.state[u] \in {EMPTY, OPEN}
    BY <1>1, <1>3, <2>1, <2>2, LoadFair
  <2>4. s.saved.run.id # 0
    BY <1>2, <1>7, InvFacts DEF TeamsInv, Full, SavingSound
  <2>5. TeamsSound(k)
    BY <1>1, <1>3, <1>7, <2>1, <2>4, LoadSound
  <2>6. Becomes(WithSaving(k, t, NotSaving))
    BY Zenon, <1>7, <2>1
  <2> QED BY <1>4, <2>3, <2>5, <2>6, SavingOver
<1>8. "invalid" \notin Features
  BY <1>3 DEF LoadsValid
<1> QED BY Zenon, <1>2, <1>5, <1>6, <1>7, <1>8, ProcessCases

-----------------------------------------------------------------------------
(* Runs are fair. *)

LEMMA FairInvInit ==
  ASSUME TeamsInit  PROVE FairInv
<1>1. /\ g \in GameStates /\ saves = {}
      /\ \A c \in Clients : g.team[c] = FLOCK /\ g.tee[c] = "out" /\ g.race[c] = "NONE"
      /\ g.started = {} /\ g.finished = {} /\ g.ranked = {}
      /\ g.locked = {} /\ g.flock = {} /\ g.practice = {}
      /\ \A t \in Teams : /\ g.state[t] = IF t = FLOCK THEN OPEN ELSE EMPTY
                          /\ g.saving[t] = NotSaving /\ g.run[t] = NoRun
  BY InitFields
<1>2. /\ NotSaving.kind = "none" /\ NoRun.marks = {} /\ NotSaving.saved.run.marks = {}
      /\ NotSaving.saved.finished = {}
  BY DEF NotSaving, NoRun, NoTeam
<1>3. \A t \in RealTeams : g.saving[t] = NotSaving /\ g.run[t] = NoRun
  BY <1>1, TeamConstants
<1>4. FinishersPlay(g, {}) /\ IdleFresh(g, {}) /\ RacersMove(g, {}) /\ PracticeHeld(g)
  BY <1>1 DEF FinishersPlay, IdleFresh, RacersMove, PracticeHeld
<1>5. MarksFair(g) /\ LoadsOpen(g)
  BY <1>1, <1>2, <1>3 DEF MarksFair, LoadsOpen
<1>6. LoadersKnown(g) /\ Modest(g)
  BY <1>1, <1>2, <1>3 DEF LoadersKnown, Modest
<1>7. SavesFair(g, saves) /\ NoRace(g)
  BY <1>1, <1>2, <1>3 DEF SavesFair, SavedFair, NoRace
<1> QED BY <1>4, <1>5, <1>6, <1>7 DEF FairInv, FairAll, Fair

LEMMA FairInvNext ==
  ASSUME LoadsValid, TeamsInv, FairInv, TeamsNext  PROVE FairInv'
<1>1. CASE \E c \in Clients :
             \/ Enter(c) \/ Respawn(c) \/ Leave(c) \/ Spectate(c) \/ Kill(c)
             \/ StartTile(c) \/ FinishTile(c) \/ UnlockTile(c)
  BY <1>1, EnterFair, RespawnFair, LeaveFair, SpectateFair, KillFair, StartTileFair,
     FinishTileFair, UnlockTileFair
<1>2. CASE \E c \in Clients :
             \/ Lock(c) \/ Practice(c) \/ UnPractice(c) \/ Team0Mode(c)
             \/ SaveTeam(c) \/ LoadTeam(c)
             \/ \E t \in Teams : Join(c, t)
             \/ \E d \in Clients : Swap(c, d)
  BY <1>2, LockFair, PracticeFair, UnPracticeFair, Team0ModeFair, SaveTeamFair,
     LoadTeamFair, JoinFair, SwapFair
<1>3. CASE \E t \in RealTeams :
             Tick(t) \/ SaveWorker(t) \/ LoadWorker(t) \/ ProcessSaveTeam(t)
  BY <1>3, TickFair, SaveWorkerFair, LoadWorkerFair, ProcessSaveTeamFair
<1> QED BY <1>1, <1>2, <1>3 DEF TeamsNext

LEMMA FairInvStutter ==
  ASSUME FairInv, UNCHANGED teamsVars  PROVE FairInv'
<1>1. g' = g /\ saves' = saves
  BY DEF teamsVars
<1> QED BY <1>1 DEF FairInv

LEMMA FairInvGives ==
  ASSUME TeamsInv, FairInv
  PROVE  /\ PracticedNotRanked /\ FreshStart
         /\ OneOfModes => NoRunInTeam0Mode
<1>1. MarksFair(g) /\ Modest(g) /\ SavesFair(g, saves) /\ NoIdleRun(g)
  BY FairFacts DEF FairInv, FairAll, Fair
<1>2. PracticedNotRanked
  BY <1>1 DEF PracticedNotRanked, MarksFair
<1>3. FreshStart
  BY <1>1 DEF FreshStart, Copies, MarksFair, SavesFair, SavedFair
<1>4. ASSUME OneOfModes, NEW t \in RealTeams, g.run[t].id # 0  PROVE t \notin g.flock
  <2>1. g.run[t] # NoRun /\ t \in Teams
    BY <1>4, TeamConstants
  <2>2. OnRun(g, t)
    BY <1>1, <1>4, <2>1 DEF NoIdleRun, OnRun
  <2> QED BY <1>1, <1>4, <2>2 DEF Modest
<1> QED BY <1>2, <1>3, <1>4 DEF NoRunInTeam0Mode

\* Whatever players do with practice mode, a practised run gets no rank and
\* nobody starts a run with an old finish, as long as a loaded team can be where
\* it was saved.
THEOREM PracticeIsNotWashed ==
  ASSUME LoadsValid  PROVE TeamsSpec => [](PracticedNotRanked /\ FreshStart)
<1>1. TeamsInit => TeamsInv /\ FairInv
  BY TeamsInvInit, FairInvInit
<1>2. TeamsInv /\ FairInv /\ [TeamsNext]_teamsVars => TeamsInv' /\ FairInv'
  BY TeamsInvNext, TeamsInvStutter, FairInvNext, FairInvStutter
<1>3. TeamsInv /\ FairInv => PracticedNotRanked /\ FreshStart
  BY FairInvGives
<1> QED BY <1>1, <1>2, <1>3, PTL DEF TeamsSpec

\* If teams are not both saved and switched to the mode of team 0, no team races
\* in that mode either (RunsAreFair).
THEOREM RunsStayFair ==
  ASSUME LoadsValid, OneOfModes  PROVE TeamsSpec => []RunsAreFair
<1>1. TeamsInit => TeamsInv /\ FairInv
  BY TeamsInvInit, FairInvInit
<1>2. TeamsInv /\ FairInv /\ [TeamsNext]_teamsVars => TeamsInv' /\ FairInv'
  BY TeamsInvNext, TeamsInvStutter, FairInvNext, FairInvStutter
<1>3. TeamsInv /\ FairInv => RunsAreFair
  BY FairInvGives DEF RunsAreFair
<1> QED BY <1>1, <1>2, <1>3, PTL DEF TeamsSpec
=============================================================================
