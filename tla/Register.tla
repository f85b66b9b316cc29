------------------------------ MODULE Register -------------------------------
(***************************************************************************)
(* A game server keeps itself listed on the master server: CRegister and   *)
(* its CProtocol (one per address family and game protocol) on one side,   *)
(* the tables of the master (Servers, handle_register, handle_delete) on   *)
(* the other.  A registration is an HTTP request made by a job, so several *)
(* are under way, they reach the master in any order and are answered in   *)
(* any order, while the server's thread sends more, gets a challenge over  *)
(* UDP, is reconfigured, or restarts with a new secret.                    *)
(*                                                                         *)
(* The info sent to the master is its serial.  The age of a challenge      *)
(* token is 0 for the current seed of the master, 1 for the previous one,  *)
(* 2 for an older one or none.                                             *)
(***************************************************************************)
EXTENDS Integers, SequencesExt, FiniteSets

CONSTANTS
  Protocols,    \* the enabled protocols, one address each
  MaxSerial,    \* bound: how often the info changes
  MaxFlight,    \* bound: requests of one protocol under way
  MaxFaults,    \* bound: lost requests, answers and challenges, expired
                \* entries and reseeds
  MaxChanges,   \* bound: changes of sv_register
  MaxGen        \* bound: restarts of the game server

ASSUME RegisterAssumption ==
  {MaxSerial, MaxFlight, MaxFaults, MaxChanges, MaxGen} \subseteq Nat

None == -1
Gens == 0 .. MaxGen
Ages == 0 .. 2

VARIABLES
  gen,     \* m_Secret: the process of the game server that is running
  serial,  \* CGlobal::m_InfoSerial
  known,   \* CGlobal::m_LatestSuccessfulInfoSerial
  prot,    \* CProtocol and its CShared, per protocol
  flight,  \* the jobs of a protocol in the order of their index
  stray,   \* requests of an earlier process that the master has not seen
  dels,    \* secrets of the delete requests that the master has not seen
  chal,    \* ages of the challenge packets under way to the server
  addr,    \* Servers::addresses of the master: the secret of an address
  servers, \* Servers::servers of the master: by secret
  forgot,  \* history variable: the master has removed the entry of gen
  faults, changes

master == <<addr, servers, forgot>>
shared == <<serial, known>>
vars == <<gen, serial, known, prot, flight, stray, dels, chal, addr, servers,
          forgot, faults, changes>>

Fresh(on) == [on |-> on, status |-> "none", answered |-> TRUE,
              newToken |-> FALSE, token |-> 2, due |-> TRUE]

\* Any protocols may be enabled when the server starts.
Init ==
  /\ gen = 0
  /\ serial = 0
  /\ known = -1
  /\ \E on \in SUBSET Protocols : prot = [p \in Protocols |-> Fresh(p \in on)]
  /\ flight = [p \in Protocols |-> <<>>]
  /\ stray = [p \in Protocols |-> {}]
  /\ dels = [p \in Protocols |-> {}]
  /\ chal = [p \in Protocols |-> {}]
  /\ addr = [p \in Protocols |-> None]
  /\ servers = [g \in {} |-> 0]
  /\ forgot = FALSE
  /\ faults = 0
  /\ changes = 0

Fault == faults < MaxFaults /\ faults' = faults + 1

-----------------------------------------------------------------------------
(* The game server's thread. *)

\* CheckChallengeStatus: with no request unanswered, what the last answer
\* asks for is done at once.
Checked(x) ==
  [x EXCEPT !.due = @ \/ /\ x.answered
                         /\ \/ x.status = "challenge" /\ x.newToken
                            \/ x.status = "info"]

\* A request: the info goes with it when its serial is not known to have
\* arrived.  "newest" is an index of m_NumTotalRequests - 1, "stale" one
\* below m_LatestResponseIndex.
Request(ser, tok) ==
  [serial |-> ser, info |-> ser > known, token |-> tok, newest |-> TRUE,
   stale |-> FALSE, st |-> "sent"]

HasRoom(p) == Len(flight[p]) < MaxFlight

\* SendRegister of the protocols P, whose states before it are x[p].
Send(P, x, ser) ==
  /\ \A p \in P : HasRoom(p)
  /\ flight' = [p \in Protocols |->
       IF p \in P
         THEN Append([k \in DOMAIN flight[p] |->
                        [flight[p][k] EXCEPT !.newest = FALSE]],
                     Request(ser, x[p].token))
         ELSE flight[p]]
  /\ prot' = [p \in Protocols |->
       IF p \in P THEN [x[p] EXCEPT !.newToken = FALSE, !.due = FALSE,
                                    !.answered = FALSE]
                  ELSE x[p]]

\* Mutant of Update: a disabled protocol is updated too.
UpdateAny(p) ==
  /\ LET x == [prot EXCEPT ![p] = Checked(@)]
     IN x[p].due /\ Send({p}, x, serial)
  /\ UNCHANGED <<gen, shared, stray, dels, chal, master, faults, changes>>

Update(p) ==
  /\ prot[p].on
  /\ LET x == [prot EXCEPT ![p] = Checked(@)]
     IN x[p].due /\ Send({p}, x, serial)
  /\ UNCHANGED <<gen, shared, stray, dels, chal, master, faults, changes>>

\* OnToken, which does not ask whether the protocol is enabled.
OnToken(p) ==
  \E t \in chal[p] :
    LET x == [prot EXCEPT ![p] =
                Checked([@ EXCEPT !.newToken = TRUE, !.token = t])]
    IN /\ chal' = [chal EXCEPT ![p] = @ \ {t}]
       /\ IF x[p].due
            THEN Send({p}, x, serial)
            ELSE prot' = x /\ UNCHANGED flight
       /\ UNCHANGED <<gen, shared, stray, dels, master, faults, changes>>

\* 15 seconds have passed since the last SendRegister.
Elapse(p) ==
  /\ ~prot[p].due
  /\ prot' = [prot EXCEPT ![p].due = TRUE]
  /\ UNCHANGED <<gen, shared, flight, stray, dels, chal, master, faults,
                 changes>>

\* OnNewInfo: what is due is sent, and the protocol whose turn comes first
\* may be brought forward.
OnNewInfo ==
  /\ serial < MaxSerial
  /\ serial' = serial + 1
  /\ \E early \in SUBSET Protocols :
       /\ Cardinality(early) <= 1
       /\ Send({p \in Protocols : prot[p].on /\ (prot[p].due \/ p \in early)},
               prot, serial')
  /\ UNCHANGED <<gen, known, stray, dels, chal, master, faults, changes>>

\* OnConfigChange for a protocol that is enabled by it.
Enable(p) ==
  /\ ~prot[p].on
  /\ changes < MaxChanges
  /\ changes' = changes + 1
  /\ Send({p}, [prot EXCEPT ![p].on = TRUE], serial)
  /\ UNCHANGED <<gen, shared, stray, dels, chal, master, faults>>

\* SendDeleteIfRegistered: whether a delete is sent for p.
SendsDelete(p) == prot[p].status = "ok"

Disable(p) ==
  /\ prot[p].on
  /\ changes < MaxChanges
  /\ changes' = changes + 1
  /\ dels' = [dels EXCEPT ![p] = IF SendsDelete(p) THEN @ \cup {gen} ELSE @]
  /\ prot' = [prot EXCEPT ![p].on = FALSE, ![p].status = "none"]
  /\ UNCHANGED <<gen, shared, flight, stray, chal, master, faults>>

\* The process ends, in order (OnShutdown) or not, and another one starts:
\* its secrets are new, its tables empty, and the old jobs are gone.
Restart(orderly) ==
  /\ gen < MaxGen
  /\ gen' = gen + 1
  /\ serial' = 0
  /\ known' = -1
  /\ prot' = [p \in Protocols |-> Fresh(prot[p].on)]
  /\ flight' = [p \in Protocols |-> <<>>]
  /\ stray' = [p \in Protocols |-> stray[p] \cup
       {[gen |-> gen, serial |-> flight[p][k].serial,
         info |-> flight[p][k].info, token |-> flight[p][k].token] :
            k \in {i \in DOMAIN flight[p] : flight[p][i].st = "sent"}}]
  /\ dels' = [p \in Protocols |->
       IF orderly /\ prot[p].on /\ SendsDelete(p) THEN dels[p] \cup {gen}
                                                  ELSE dels[p]]
  /\ chal' = [p \in Protocols |-> {}]
  /\ forgot' = FALSE
  /\ UNCHANGED <<addr, servers, faults, changes>>

-----------------------------------------------------------------------------
(* The master server. *)

\* Mutant of Without: a server without addresses is kept.
WithoutCheck(s, g, p) == [s EXCEPT ![g].addrs = @ \ {p}]

Without(s, g, p) ==
  LET left == s[g].addrs \ {p}
  IN IF left = {} THEN [h \in DOMAIN s \ {g} |-> s[h]]
                  ELSE [s EXCEPT ![g].addrs = left]

\* Mutant of WithInfo: whatever info arrives last is stored.
WithInfoLast(s, g, p, ser) ==
  IF g \in DOMAIN s
    THEN [s EXCEPT ![g].addrs = @ \cup {p}, ![g].serial = ser]
    ELSE [h \in DOMAIN s \cup {g} |->
            IF h = g THEN [addrs |-> {p}, serial |-> ser] ELSE s[h]]

\* The server entry of g with the address p and the info of serial ser.
WithInfo(s, g, p, ser) ==
  IF g \in DOMAIN s
    THEN [s EXCEPT ![g].addrs = @ \cup {p},
                   ![g].serial = IF ser > @ THEN ser ELSE @]
    ELSE [h \in DOMAIN s \cup {g} |->
            IF h = g THEN [addrs |-> {p}, serial |-> ser] ELSE s[h]]

\* Servers::add: whether it needs the info of a request of g.
NeedsInfo(g, r) ==
  ~r.info /\ (g \in DOMAIN servers => r.serial > servers[g].serial)

\* Mutant of Vacated: the old server keeps the address.
VacatedNot(g, p) == servers

\* An address that had another secret leaves the server of that secret.
Vacated(g, p) ==
  IF addr[p] \notin {None, g} THEN Without(servers, addr[p], p) ELSE servers

Forgets == forgot' = (forgot \/ gen \in DOMAIN servers \ DOMAIN servers')

\* handle_register for a request r of the process g: the answer it gets.
Valid(tok) == tok < 2
Registers(p, g, r) ==
  IF Valid(r.token) /\ ~NeedsInfo(g, r)
    THEN /\ addr' = [addr EXCEPT ![p] = g]
         /\ servers' = WithInfo(Vacated(g, p), g, p, r.serial)
         /\ Forgets
    ELSE UNCHANGED master
Answer(g, r) ==
  CASE ~Valid(r.token) -> "challenge"
    [] Valid(r.token) /\ NeedsInfo(g, r) -> "info"
    [] OTHER -> "ok"
Challenges(p, r) ==
  chal' = [chal EXCEPT ![p] = IF r.token # 0 THEN @ \cup {0} ELSE @]

OnRegister(p, k) ==
  LET r == flight[p][k]
  IN /\ r.st = "sent"
     /\ Registers(p, gen, r)
     /\ Challenges(p, r)
     /\ flight' = [flight EXCEPT ![p][k].st = Answer(gen, r)]
     /\ UNCHANGED <<gen, shared, prot, stray, dels, faults, changes>>

\* A request of a process that has ended; its challenge is for a secret
\* the running one does not have, and nobody waits for the answer.
OnStrayRegister(p) ==
  \E r \in stray[p] :
    /\ Registers(p, r.gen, r)
    /\ stray' = [stray EXCEPT ![p] = @ \ {r}]
    /\ UNCHANGED <<gen, shared, prot, flight, dels, chal, faults, changes>>

Removes(p) ==
  /\ addr' = [addr EXCEPT ![p] = None]
  /\ servers' = Without(servers, addr[p], p)
  /\ Forgets

\* handle_delete.
OnDelete(p) ==
  \E g \in dels[p] :
    /\ dels' = [dels EXCEPT ![p] = @ \ {g}]
    /\ IF addr[p] = g THEN Removes(p) ELSE UNCHANGED master
    /\ UNCHANGED <<gen, shared, prot, flight, stray, chal, faults, changes>>

\* prune_before removes an entry that nobody refreshes: the protocol is
\* disabled or its secret is gone, and nothing more is under way for it.
PruneLeft(p) ==
  /\ addr[p] # None
  /\ ~prot[p].on \/ addr[p] # gen
  /\ flight[p] = <<>> /\ stray[p] = {}
  /\ Removes(p)
  /\ UNCHANGED <<gen, shared, prot, flight, stray, dels, chal, faults,
                 changes>>

\* prune_before removes an entry whose refreshes did not arrive in time.
PruneLate(p) ==
  /\ addr[p] # None
  /\ Fault
  /\ Removes(p)
  /\ UNCHANGED <<gen, shared, prot, flight, stray, dels, chal, changes>>

\* Challenger::reseed.
Older(a) == IF a = 2 THEN 2 ELSE a + 1
Reseed ==
  /\ Fault
  /\ prot' = [p \in Protocols |-> [prot[p] EXCEPT !.token = Older(@)]]
  /\ flight' = [p \in Protocols |-> [k \in DOMAIN flight[p] |->
       [flight[p][k] EXCEPT !.token = Older(@)]]]
  /\ stray' = [p \in Protocols |->
       {[r EXCEPT !.token = Older(@)] : r \in stray[p]}]
  /\ chal' = [p \in Protocols |-> {Older(t) : t \in chal[p]}]
  /\ UNCHANGED <<gen, shared, dels, master, changes>>

-----------------------------------------------------------------------------
(* The jobs, and what is lost on the way. *)

\* CJob::Run ends without a usable answer: the request or the answer was
\* lost, or the answer is an error.
Fail(p, k) ==
  /\ Fault
  /\ flight[p][k].st \in {"sent", "ok", "info", "challenge"}
  /\ flight' = [flight EXCEPT ![p] = RemoveAt(@, k)]
  /\ UNCHANGED <<gen, shared, prot, stray, dels, chal, master, changes>>

\* CJob::Run under the lock of the protocol: the newest answer counts.
\* Taking a job's answer makes the jobs before it stale.
TakesAnswer(q, k) == ~q[k].stale
ApplyStatus(p, k) ==
  LET q == flight[p]
      r == q[k]
      aged == [i \in DOMAIN q |->
                 IF i < k /\ TakesAnswer(q, k) THEN [q[i] EXCEPT !.stale = TRUE]
                                               ELSE q[i]]
  IN /\ r.st \in {"ok", "info", "challenge"}
     /\ prot' = [prot EXCEPT ![p] =
          IF TakesAnswer(q, k)
            THEN [@ EXCEPT !.status = r.st, !.answered = r.newest]
            ELSE @]
     /\ flight' = [flight EXCEPT ![p] =
          CASE r.st = "challenge" -> RemoveAt(aged, k)
            [] r.st = "ok" -> [aged EXCEPT ![k].st = "wasOk"]
            [] r.st = "info" -> [aged EXCEPT ![k].st = "wasInfo"]]
     /\ UNCHANGED <<gen, shared, stray, dels, chal, master, faults, changes>>

\* Mutant of KnownAfter: an old answer lowers the serial too.
KnownAfterAnyInfo(r) ==
  CASE r.st = "wasOk" -> IF r.serial > known THEN r.serial ELSE known
    [] r.st = "wasInfo" -> known - 1

\* Mutant of KnownAfter: the info of now is taken for the one of the request.
KnownAfterNewest(r) ==
  CASE r.st = "wasOk" -> serial
    [] r.st = "wasInfo" -> IF r.serial = known THEN known - 1 ELSE known

\* Mutant of KnownAfter: need_info does not make the info known as missing.
KnownAfterKept(r) ==
  IF r.st = "wasOk" /\ r.serial > known THEN r.serial ELSE known

\* CJob::Run under the lock of CGlobal.
KnownAfter(r) ==
  CASE r.st = "wasOk" -> IF r.serial > known THEN r.serial ELSE known
    [] r.st = "wasInfo" -> IF r.serial = known THEN known - 1 ELSE known
ApplySerial(p, k) ==
  LET r == flight[p][k]
  IN /\ r.st \in {"wasOk", "wasInfo"}
     /\ known' = KnownAfter(r)
     /\ flight' = [flight EXCEPT ![p] = RemoveAt(@, k)]
     /\ UNCHANGED <<gen, serial, prot, stray, dels, chal, master, faults,
                    changes>>

LoseChallenge(p) ==
  /\ chal[p] # {}
  /\ Fault
  /\ \E t \in chal[p] : chal' = [chal EXCEPT ![p] = @ \ {t}]
  /\ UNCHANGED <<gen, shared, prot, flight, stray, dels, master, changes>>

LoseStray(p) ==
  /\ Fault
  /\ \/ /\ \E r \in stray[p] : stray' = [stray EXCEPT ![p] = @ \ {r}]
        /\ UNCHANGED dels
     \/ /\ \E g \in dels[p] : dels' = [dels EXCEPT ![p] = @ \ {g}]
        /\ UNCHANGED stray
  /\ UNCHANGED <<gen, shared, prot, flight, chal, master, changes>>

-----------------------------------------------------------------------------
Next ==
  \/ OnNewInfo \/ Reseed \/ \E b \in BOOLEAN : Restart(b)
  \/ \E p \in Protocols :
       \/ Update(p) \/ OnToken(p) \/ Elapse(p) \/ Enable(p) \/ Disable(p)
       \/ OnStrayRegister(p) \/ OnDelete(p) \/ PruneLeft(p) \/ PruneLate(p)
       \/ LoseChallenge(p) \/ LoseStray(p)
       \/ \E k \in DOMAIN flight[p] :
            OnRegister(p, k) \/ Fail(p, k) \/ ApplyStatus(p, k)
              \/ ApplySerial(p, k)

Spec == Init /\ [][Next]_vars

\* The server's thread runs, time passes, and a request that is not lost is
\* answered.
OnAnswer(p) ==
  \E k \in DOMAIN flight[p] :
    OnRegister(p, k) \/ ApplyStatus(p, k) \/ ApplySerial(p, k)

Fairness ==
  \A p \in Protocols :
    /\ WF_vars(Update(p)) /\ WF_vars(Elapse(p)) /\ SF_vars(OnToken(p))
    /\ WF_vars(OnAnswer(p))
    /\ WF_vars(OnStrayRegister(p)) /\ WF_vars(OnDelete(p))
    /\ WF_vars(PruneLeft(p))
FairSpec == Spec /\ Fairness

-----------------------------------------------------------------------------
Job ==
  [serial : 0 .. MaxSerial, info : BOOLEAN, token : Ages, newest : BOOLEAN, stale : BOOLEAN,
   st : {"sent", "ok", "info", "challenge", "wasOk", "wasInfo"}]
StrayRequest == [gen : Gens, serial : 0 .. MaxSerial, info : BOOLEAN, token : Ages]
Protocol ==
  [on : BOOLEAN, status : {"none", "ok", "info", "challenge"}, answered : BOOLEAN,
   newToken : BOOLEAN, token : Ages, due : BOOLEAN]
Entry == [addrs : SUBSET Protocols, serial : 0 .. MaxSerial]

\* Every variable has its type.
TypeOK ==
  /\ gen \in Gens /\ serial \in 0 .. MaxSerial /\ known \in -1 .. serial
  /\ prot \in [Protocols -> Protocol]
  /\ flight \in [Protocols -> Seq(Job)]
  /\ \A p \in Protocols : Len(flight[p]) <= MaxFlight
  /\ stray \in [Protocols -> SUBSET StrayRequest]
  /\ dels \in [Protocols -> SUBSET Gens]
  /\ chal \in [Protocols -> SUBSET Ages]
  /\ addr \in [Protocols -> Gens \cup {None}]
  /\ DOMAIN servers \subseteq Gens /\ servers \in [DOMAIN servers -> Entry]
  /\ forgot \in BOOLEAN

\* The two tables of the master agree, which every unwrap and assert of
\* Servers::add, remove and prune_before relies on: an address is listed by
\* the server of its secret and by no other, and a server has an address.
TablesAgree ==
  /\ \A p \in Protocols : addr[p] # None => addr[p] \in DOMAIN servers
  /\ \A g \in DOMAIN servers :
       /\ servers[g].addrs = {p \in Protocols : addr[p] = g}
       /\ servers[g].addrs # {}

\* The master has info of the running process at least as new as of serial s, unless it
\* has removed the server since the start of the process.
Has(s) == ~forgot => gen \in DOMAIN servers /\ servers[gen].serial >= s

\* A game server leaves its info out of its requests only when the master
\* has it: as long as the master has not removed the server, what it has is
\* at least as new as what the server believes it to have.
SilentMeansStored == known >= 0 => Has(known)

\* What the game server and the master know of each other.
MasterAgrees == TypeOK /\ TablesAgree /\ SilentMeansStored

\* No request that was delayed on the way replaces newer info by older.
InfoOnlyNewer ==
  [][\A me \in DOMAIN servers \cap DOMAIN servers' :
       servers'[me].serial >= servers[me].serial]_vars

(* The inductive invariant: a request that was accepted is known to the   *)
(* master until its answer is read.                                        *)
OkStored ==
  \A p \in Protocols : \A k \in DOMAIN flight[p] :
    /\ flight[p][k].serial <= serial
    /\ flight[p][k].st \in {"ok", "wasOk"} => Has(flight[p][k].serial)

IInv == MasterAgrees /\ OkStored

\* Whatever was lost, expired, reseeded or left by an earlier process: a
\* protocol that stays enabled is listed in the end, under the running
\* server and with its newest info.
Listed(p) ==
  addr[p] = gen /\ gen \in DOMAIN servers /\ servers[gen].serial = serial

ListedInTheEnd == \A p \in Protocols : (<>[]prot[p].on) => <>[]Listed(p)

\* A protocol that stays disabled is not listed in the end, although a late
\* challenge or a register under way may list it again after its delete.
UnlistedInTheEnd ==
  \A p \in Protocols : (<>[]~prot[p].on) => <>[](addr[p] = None)
=============================================================================
