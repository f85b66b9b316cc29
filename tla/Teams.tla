------------------------------- MODULE Teams -------------------------------
(***************************************************************************)
(* The teams of a DDRace server (game/server/teams.cpp) with the handlers  *)
(* that drive them: tiles (gamemodes/ddnet.cpp), spawns and deaths         *)
(* (character.cpp), chat commands (ddracechat.cpp), and saving and loading *)
(* a team through the database (score.cpp, save.cpp).                      *)
(*                                                                         *)
(* "g" holds what the handlers read and write; a handler is an operator    *)
(* from g to g.  A run is what a team does from its first start to its     *)
(* finish; it is numbered, which the code does not do.  The config is the  *)
(* default one but for sv_max_team_size; team super, times, votes and      *)
(* invitations are left out: a finish is never in the tick of its start,   *)
(* any vote may be the deciding one and any player may have been invited.  *)
(***************************************************************************)
EXTENDS Integers, FiniteSets

CONSTANTS
  NumClients,   \* client ids are 1 .. NumClients
  NumTeams,     \* real teams are 1 .. NumTeams, team 0 is nobody's
  MaxTeamSize,  \* g_Config.m_SvMaxTeamSize
  MaxRuns,      \* bound: how many runs are started
  Features      \* which commands are used, a subset of AllFeatures

AllFeatures == {"save", "practice", "team0mode", "invalid", "swap"}

ASSUME TeamsAssumption ==
  /\ {NumClients, NumTeams, MaxTeamSize, MaxRuns} \subseteq Nat
  /\ Features \subseteq AllFeatures

VARIABLES
  g,            \* the teams, see TeamsInit
  saves         \* the saved teams in the database

teamsVars == <<g, saves>>

Clients == 1 .. NumClients
FLOCK == 0
Teams == FLOCK .. NumTeams
RealTeams == 1 .. NumTeams

\* ETeamState
EMPTY == 0
OPEN == 1
STARTED == 2
STARTED_UNFINISHABLE == 3
FINISHED == 4

\* A run has a number and marks: what a rank for it depends on.
NoRun == [id |-> 0, marks |-> {}]
Marked(r, m) == [r EXCEPT !.marks = @ \cup {m}]

\* A saved team is its run, its lock and the flags and the race state of its
\* members, by their names, which are the client ids here.
NoTeam == [run |-> NoRun, locked |-> FALSE, names |-> {}, started |-> {}, finished |-> {},
           race |-> [c \in Clients |-> "NONE"]]

\* m_pSaveTeamResult; `saved' is the team that is with the database thread, of
\* which a load knows only the names at first.
NotSaving == [kind |-> "none", status |-> "none", saved |-> NoTeam]

\* out: no player, spec: spectator, dead: playing without a character.
TeamsInit ==
  /\ g = [team |-> [c \in Clients |-> FLOCK],
          tee |-> [c \in Clients |-> "out"],
          race |-> [c \in Clients |-> "NONE"],
          started |-> {}, finished |-> {},         \* sets of clients
          state |-> [t \in Teams |-> IF t = FLOCK THEN OPEN ELSE EMPTY],
          locked |-> {}, flock |-> {}, practice |-> {}, killTick |-> {},  \* of teams
          saving |-> [t \in Teams |-> NotSaving],
          run |-> [t \in Teams |-> NoRun],
          ranked |-> {}]                           \* history: the runs that got a rank
  /\ saves = {}

Members(h, t) == {c \in Clients : h.team[c] = t}
TeamSize(h, t) == Cardinality(Members(h, t))
Alive(h, t) == {c \in Members(h, t) : h.tee[c] = "alive"}
Players(h, t) == {c \in Members(h, t) : h.tee[c] # "out"}
GetSaving(h, t) == t # FLOCK /\ h.saving[t].kind # "none"

\* The team is on a run that no save has taken out of the world.
Racing(h, t) ==
  h.run[t].id # 0 /\ h.state[t] # FINISHED /\ ~GetSaving(h, t)

ResetTeam(h, t) ==
  [h EXCEPT !.state[t] = EMPTY, !.locked = @ \ {t}, !.flock = @ \ {t},
            !.practice = @ \ {t}, !.killTick = @ \ {t}]

ClearFlags(h, c) == [h EXCEPT !.started = @ \ {c}, !.finished = @ \ {c}]

SetForceCharacterTeam(h, c, t) ==
  LET old == h.team[c]
      last == /\ t # old /\ old # FLOCK /\ h.state[old] # EMPTY
              /\ TeamSize(h, old) <= 1
      left == ClearFlags(IF last THEN ResetTeam(h, old) ELSE h, c)
  IN  [left EXCEPT !.team[c] = t,
                   !.run[old] = IF t # old /\ Racing(h, old) /\ c \notin h.started
                                THEN Marked(@, "deserted") ELSE @,
                   !.state[t] = IF @ = EMPTY /\ t \notin left.locked
                                THEN OPEN ELSE @]

ToFlock(h, c) == SetForceCharacterTeam(h, c, FLOCK)

\* The loops that move the clients C to team 0, in the order of their ids.
AllToFlock(h, C) ==
  LET turn[n \in 0 .. NumClients] ==
        IF n = 0 THEN h
        ELSE IF n \in C THEN ToFlock(turn[n - 1], n) ELSE turn[n - 1]
  IN  turn[NumClients]

\* OnTeamFinish's loop: an unlocked team is moved to team 0.
Rejoin(h, t, C) == IF t \in h.locked THEN h ELSE AllToFlock(h, C)

TeamFinished(h, t) ==
  h.state[t] = STARTED /\ Members(h, t) \subseteq h.finished

CheckTeamFinished(h, t) ==
  LET C == Alive(h, t)
      done == [h EXCEPT !.started = @ \ C, !.finished = @ \ C,
                        !.race = [c \in Clients |-> IF c \in C THEN "FINISHED"
                                                    ELSE @[c]],
                        !.state[t] = FINISHED]
  IN  IF ~TeamFinished(h, t) \/ C = {} THEN h
      ELSE IF t \in h.practice THEN done
      ELSE Rejoin([done EXCEPT !.ranked = @ \cup {h.run[t]}], t, C)

-----------------------------------------------------------------------------
(***************************************************************************)
(* Deaths.  OnCharacterDeath may kill the rest of a locked team, whose     *)
(* deaths find the team OPEN and kill nobody else, so that the recursion   *)
(* of the code is two levels deep.                                         *)
(***************************************************************************)
\* Mutant of Spoil: the deadline is not set.
SpoilForever(h, t) == [h EXCEPT !.state[t] = STARTED_UNFINISHABLE]

Spoil(h, t) ==
  [h EXCEPT !.killTick = @ \cup {t}, !.state[t] = STARTED_UNFINISHABLE]

\* OnCharacterDeath, where it kills nobody else.
DiesAlone(h, c, weapon) ==
  LET t == h.team[c]
      spoils == h.state[t] = STARTED /\ c \notin h.started /\ t \notin h.flock
  IN  IF GetSaving(h, t) THEN h
      ELSE IF t \notin h.locked \/ weapon = "game"
           THEN CheckTeamFinished(ToFlock(IF spoils THEN Spoil(h, t) ELSE h, c), t)
      ELSE SetForceCharacterTeam(h, c, t)

Killed(h, c) == [h EXCEPT !.tee[c] = "dead"]

\* The other tees of the team, in the order of their ids.
KillRest(h, t, c) ==
  LET turn[n \in 0 .. NumClients] ==
        IF n = 0 THEN h
        ELSE LET k == turn[n - 1] IN
             IF n \in Alive(k, t) \ {c} THEN DiesAlone(Killed(k, n), n, "self") ELSE k
  IN  turn[NumClients]

OnCharacterDeath(h, c, weapon) ==
  LET t == h.team[c]
      open == [SetForceCharacterTeam(h, c, t) EXCEPT
                !.state[t] = OPEN, !.practice = @ \ {t}]
      rest == KillRest([open EXCEPT !.locked = @ \ {t}], t, c)
  IN  IF \/ GetSaving(h, t) \/ t \notin h.locked \/ weapon = "game"
         \/ h.state[t] = OPEN \/ t \in h.flock
      THEN DiesAlone(h, c, weapon)
      ELSE IF TeamSize(open, t) <= 1 THEN open
      ELSE IF TeamSize(open, t) <= MaxTeamSize THEN KillRest(open, t, c)
      ELSE AllToFlock(rest, Players(rest, t))

\* CCharacter::Die and CGameTeams::KillTeam.
Die(h, c, weapon) == OnCharacterDeath(Killed(h, c), c, weapon)

KillTeam(h, t) ==
  LET turn[n \in 0 .. NumClients] ==
        IF n = 0 THEN h
        ELSE LET k == turn[n - 1] IN
             IF n \in Alive(k, t) THEN Die(k, n, "self") ELSE k
  IN  turn[NumClients]

\* CCharacter::Spawn: OnCharacterSpawn, then DDRaceInit.
OnCharacterSpawn(h, c) ==
  LET t == h.team[c]
      k == ToFlock(h, c)
      expelled == \/ t = FLOCK
                  \/ t \notin h.locked /\ t \notin h.flock /\ h.state[t] > OPEN
  IN  IF GetSaving(h, t) \/ ~expelled THEN h
      ELSE IF t \in k.flock THEN k
      ELSE CheckTeamFinished(k, t)

Spawn(h, c) ==
  LET k == OnCharacterSpawn([h EXCEPT !.tee[c] = "alive"], c)
      t == k.team[c]
      mates == Alive(k, t) \ {c}
      last == CHOOSE m \in mates : \A n \in mates : n <= m
      copies == t \in k.locked /\ t \notin k.flock /\ mates # {}
  IN  [k EXCEPT !.race[c] = IF copies THEN k.race[last] ELSE "NONE"]

-----------------------------------------------------------------------------
\* The state h without what nothing reads any more: the run of a team that is
\* not on one, its kill tick, the race of a tee without a character, and the
\* flags of a tee in team 0.
Settled(h) ==
  LET onRun(t) == h.state[t] \in {STARTED, STARTED_UNFINISHABLE}
      inTeam == {c \in Clients : h.team[c] # FLOCK}
  IN  [h EXCEPT
        !.run = [t \in Teams |-> IF onRun(t) THEN @[t] ELSE NoRun],
        !.killTick = {t \in @ : h.state[t] = STARTED_UNFINISHABLE},
        !.race = [c \in Clients |-> IF h.tee[c] = "alive" THEN @[c] ELSE "NONE"],
        !.started = @ \cap inTeam,
        !.finished = @ \cap inTeam]

Becomes(h) == g' = Settled(h)

\* Joining the server, leaving the spectators, and the spawn that follows.
Enter(c) ==
  /\ g.tee[c] \in {"out", "spec"}
  /\ Becomes([g EXCEPT !.tee[c] = "dead"]) /\ UNCHANGED saves

Respawn(c) == g.tee[c] = "dead" /\ Becomes(Spawn(g, c)) /\ UNCHANGED saves

\* OnPlayerDisconnect.
Leave(c) ==
  /\ g.tee[c] # "out"
  /\ LET h == IF g.tee[c] = "alive" THEN Die(g, c, "game") ELSE g
     IN  Becomes(ToFlock([h EXCEPT !.tee[c] = "out"], c))
  /\ UNCHANGED saves

\* DoTeamChange to the spectators.
Spectate(c) ==
  /\ g.tee[c] \in {"alive", "dead"}
  /\ LET h == OnCharacterDeath(g, c, "game")
         k == CheckTeamFinished(ToFlock(h, c), h.team[c])
     IN  Becomes([IF g.tee[c] = "alive" THEN Die(k, c, "game") ELSE g
                  EXCEPT !.tee[c] = "spec"])
  /\ UNCHANGED saves

\* A death tile, or /kill.
Kill(c) == g.tee[c] = "alive" /\ Becomes(Die(g, c, "self")) /\ UNCHANGED saves

\* A number for a new run: not that of a run which exists or has a rank.
Copies == {g.run[t] : t \in RealTeams} \cup {g.saving[t].saved.run : t \in RealTeams}
          \cup {v.run : v \in saves}
UsedRuns == {r.id : r \in Copies \cup g.ranked} \ {0}
FreeRun == CHOOSE i \in 1 .. MaxRuns : i \notin UsedRuns

OnCharacterStart(h, c) ==
  LET t == h.team[c]
      solo == t = FLOCK \/ t \in h.flock
      waiting == \E m \in Alive(h, t) : h.race[m] = "FINISHED"
      begin == [h EXCEPT
        !.started = @ \cup {c}, !.state[t] = STARTED, !.killTick = @ \ {t},
        !.race = [m \in Clients |-> IF m \in Alive(h, t) THEN "STARTED" ELSE @[m]],
        !.run[t] = [id |-> FreeRun,
                    marks |-> {m \in {"practiced", "stale"} :
                      \/ m = "practiced" /\ t \in h.practice
                      \/ m = "stale" /\ Members(h, t) \cap h.finished # {}}]]
  IN  IF ~solo /\ h.race[c] = "FINISHED" THEN h
      ELSE IF solo THEN
        [h EXCEPT !.started = @ \cup {c}, !.race[c] = "STARTED",
                  !.state[t] = IF t # FLOCK /\ @ < STARTED THEN STARTED ELSE @]
      ELSE IF waiting THEN [h EXCEPT !.race[c] = "NONE"]
      ELSE IF h.state[t] < STARTED THEN begin
      ELSE [h EXCEPT !.started = @ \cup {c}]

\* HandleCharacterTiles on a start tile, on a finish tile, on an unlock tile.
StartTile(c) ==
  /\ g.tee[c] = "alive"
  /\ LET t == g.team[c]
         h == IF GetSaving(g, t) THEN Die(g, c, "world") ELSE OnCharacterStart(g, c)
     IN  /\ g.state[t] < STARTED => UsedRuns # 1 .. MaxRuns
         /\ Becomes(h)
  /\ UNCHANGED saves

OnCharacterFinish(h, c) ==
  LET t == h.team[c] IN
  IF t = FLOCK \/ t \in h.flock THEN [h EXCEPT !.race[c] = "FINISHED"]
  ELSE CheckTeamFinished([h EXCEPT !.finished = @ \cup ({c} \cap h.started)], t)

FinishTile(c) ==
  /\ g.tee[c] = "alive" /\ g.race[c] = "STARTED"
  /\ Becomes(OnCharacterFinish(g, c)) /\ UNCHANGED saves

\* Also the command /unlock.
UnlockTile(c) ==
  /\ g.tee[c] = "alive" /\ g.team[c] \in g.locked
  /\ Becomes([g EXCEPT !.locked = @ \ {g.team[c]}]) /\ UNCHANGED saves

-----------------------------------------------------------------------------
\* /lock, by any player of the team.
Lock(c) ==
  /\ g.tee[c] # "out" /\ g.team[c] # FLOCK /\ g.team[c] \notin g.locked
  /\ Becomes([g EXCEPT !.locked = @ \cup {g.team[c]}]) /\ UNCHANGED saves

CanJoinTeam(c, t) ==
  LET cur == g.team[c] IN
  /\ g.state[t] <= OPEN \/ t \in g.practice \/ t \in g.flock
  /\ cur # t
  /\ g.tee[c] = "alive"
  /\ g.race[c] = "NONE" \/ (g.state[cur] = FINISHED /\ t = FLOCK)
  /\ cur \notin g.practice
  /\ ~GetSaving(g, t) /\ ~GetSaving(g, cur)

\* /team: AttemptJoinTeam.
Join(c, t) ==
  /\ \/ t = FLOCK \/ TeamSize(g, t) < MaxTeamSize
     \/ t \in g.flock \/ t \in g.practice
  /\ CanJoinTeam(c, t)
  /\ Becomes(SetForceCharacterTeam(g, c, t)) /\ UNCHANGED saves

\* /practice, the vote that decides.
Practice(c) ==
  LET t == g.team[c] IN
  /\ "practice" \in Features
  /\ g.tee[c] # "out" /\ t # FLOCK
  /\ t \notin g.flock /\ ~GetSaving(g, t) /\ t \notin g.practice
  /\ Becomes([g EXCEPT !.practice = @ \cup {t},
                       !.run[t] = IF @.id = 0 THEN @ ELSE Marked(@, "practiced")])
  /\ UNCHANGED saves

\* Mutant of UnPractice: practice mode ends without killing the team.
UnPracticeAlive(c) ==
  LET t == g.team[c] IN
  /\ g.tee[c] # "out" /\ t # FLOCK
  /\ t \in g.practice /\ ~GetSaving(g, t)
  /\ Becomes([g EXCEPT !.practice = @ \ {t}])
  /\ UNCHANGED saves

\* /unpractice kills the team.
UnPractice(c) ==
  LET t == g.team[c] IN
  /\ g.tee[c] # "out" /\ t # FLOCK
  /\ t \in g.practice /\ ~GetSaving(g, t)
  /\ TeamSize(g, t) <= MaxTeamSize \/ t \notin g.locked
  /\ Becomes([KillTeam(g, t) EXCEPT !.practice = @ \ {t}])
  /\ UNCHANGED saves

\* /team0mode switches the mode of an open team.
Team0Mode(c) ==
  LET t == g.team[c] IN
  /\ "team0mode" \in Features
  /\ g.tee[c] # "out" /\ t # FLOCK /\ g.state[t] = OPEN
  /\ IF t \in g.flock THEN TeamSize(g, t) <= MaxTeamSize ELSE t \notin g.practice
  /\ Becomes([g EXCEPT !.flock = IF t \in @ THEN @ \ {t} ELSE @ \cup {t}])
  /\ UNCHANGED saves

\* /swap, when the other one has asked for it.
Swap(c, d) ==
  LET t == g.team[c]
      other(m) == IF m = c THEN d ELSE IF m = d THEN c ELSE m
      exchanged(S) == {m \in Clients : other(m) \in S}
  IN  /\ "swap" \in Features
      /\ c < d /\ g.team[d] = t /\ g.tee[c] = "alive" /\ g.tee[d] = "alive"
      /\ IF t = FLOCK \/ t \in g.flock
         THEN g.race[c] = "STARTED" /\ g.race[d] = "STARTED"
         ELSE g.state[t] = STARTED
      /\ Becomes([g EXCEPT !.race = [m \in Clients |-> @[other(m)]],
                           !.started = exchanged(@), !.finished = exchanged(@)])
      /\ UNCHANGED saves

\* CGameTeams::Tick, a minute after the team became unfinishable.
Tick(t) ==
  /\ t \in g.killTick /\ g.state[t] = STARTED_UNFINISHABLE
  /\ Becomes(IF t \in g.practice THEN [g EXCEPT !.killTick = @ \ {t}]
             ELSE KillTeam(g, t))
  /\ UNCHANGED saves

-----------------------------------------------------------------------------
(* Saving and loading.                                                      *)

SavedTeam(h, t) ==
  LET C == Members(h, t)
  IN  [run |-> h.run[t], locked |-> t \in h.locked, names |-> C,
       started |-> h.started \cap C, finished |-> h.finished \cap C,
       race |-> [c \in Clients |-> IF c \in C THEN h.race[c] ELSE "NONE"]]

\* /save: CScore::SaveTeam.
SaveTeam(c) ==
  LET t == g.team[c] IN
  /\ "save" \in Features
  /\ g.tee[c] # "out" /\ t # FLOCK
  /\ ~GetSaving(g, t) /\ t \notin g.practice /\ t \notin g.flock /\ g.state[t] = STARTED
  /\ Members(g, t) = Alive(g, t)
  /\ Becomes(KillTeam([g EXCEPT !.saving[t] =
                         [kind |-> "save", status |-> "pending",
                          saved |-> SavedTeam(g, t)]], t))
  /\ UNCHANGED saves

\* /load: CScore::LoadTeam.
LoadTeam(c) ==
  LET t == g.team[c] IN
  /\ "save" \in Features
  /\ g.tee[c] # "out" /\ t # FLOCK
  /\ ~GetSaving(g, t) /\ g.state[t] = OPEN /\ t \notin g.flock /\ t \notin g.practice
  /\ Becomes([g EXCEPT !.saving[t] = [kind |-> "load", status |-> "pending",
                                      saved |-> [NoTeam EXCEPT !.names = Members(g, t)]]])
  /\ UNCHANGED saves

\* The database thread writes the team, or fails to.
SaveWorker(t) ==
  LET s == g.saving[t] IN
  /\ s.kind = "save" /\ s.status = "pending"
  /\ \E ok \in BOOLEAN :
       /\ Becomes([g EXCEPT !.saving[t] =
                     IF ok THEN [kind |-> "save", status |-> "done", saved |-> NoTeam]
                     ELSE [@ EXCEPT !.status = "failed"]])
       /\ saves' = IF ok THEN saves \cup {s.saved} ELSE saves

\* Mutant of LoadWorker: the team stays in the table.
LoadWorkerKeeps(t) ==
  LET s == g.saving[t] IN
  /\ s.kind = "load" /\ s.status = "pending"
  /\ \E v \in saves :
       /\ v.names = s.saved.names
       /\ Becomes([g EXCEPT !.saving[t] = [kind |-> "load", status |-> "done",
                                           saved |-> v]])
       /\ UNCHANGED saves

\* The database thread takes a team with just these members out of the table.
LoadWorker(t) ==
  LET s == g.saving[t] IN
  /\ s.kind = "load" /\ s.status = "pending"
  /\ \/ /\ Becomes([g EXCEPT !.saving[t].status = "failed"]) /\ UNCHANGED saves
     \/ \E v \in saves :
          /\ v.names = s.saved.names
          /\ Becomes([g EXCEPT !.saving[t] = [kind |-> "load", status |-> "done",
                                              saved |-> v]])
          /\ saves' = saves \ {v}

\* CSaveTeam::Load: who is still in the team is spawned where it was.
Load(h, t, v) ==
  LET C == Players(h, t) \cap v.names
  IN  [h EXCEPT
        !.state[t] = STARTED, !.practice = @ \ {t}, !.run[t] = v.run,
        !.locked = IF v.locked THEN @ \cup {t} ELSE @ \ {t},
        !.tee = [c \in Clients |-> IF c \in C THEN "alive" ELSE @[c]],
        !.started = (@ \ C) \cup (C \cap v.started),
        !.finished = (@ \ C) \cup (C \cap v.finished),
        !.race = [c \in Clients |-> IF c \in C THEN v.race[c] ELSE @[c]]]

\* ProcessSaveTeam.  A tee that cannot be where it was saved invalidates a load.
ProcessSaveTeam(t) ==
  LET s == g.saving[t]
      Over(h) == Becomes([h EXCEPT !.saving[t] = NotSaving])
  IN  /\ s.kind # "none" /\ s.status # "pending"
      /\ \/ s.kind = "save" /\ s.status = "done"
            /\ Over(AllToFlock(g, Players(g, t)))
         \/ /\ s.kind = "save" /\ s.status = "failed"
            /\ Over(IF TeamSize(g, t) > 0 THEN Load(g, t, s.saved) ELSE g)
         \/ s.kind = "load" /\ s.status = "failed" /\ Over(g)
         \/ /\ s.kind = "load" /\ s.status = "done"
            /\ Over(IF TeamSize(g, t) > 0 THEN Load(g, t, s.saved) ELSE g)
         \/ /\ s.kind = "load" /\ s.status = "done" /\ "invalid" \in Features
            /\ TeamSize(g, t) > 0
            /\ Over(KillTeam(Load(g, t, s.saved), t))
      /\ UNCHANGED saves

TeamsNext ==
  \/ \E c \in Clients :
       \/ Enter(c) \/ Respawn(c) \/ Leave(c) \/ Spectate(c) \/ Kill(c)
       \/ StartTile(c) \/ FinishTile(c) \/ UnlockTile(c)
       \/ Lock(c) \/ Practice(c) \/ UnPractice(c) \/ Team0Mode(c)
       \/ SaveTeam(c) \/ LoadTeam(c)
       \/ \E t \in Teams : Join(c, t)
       \/ \E d \in Clients : Swap(c, d)
  \/ \E t \in RealTeams :
       Tick(t) \/ SaveWorker(t) \/ LoadWorker(t) \/ ProcessSaveTeam(t)

\* The game and the database never stop; players do what they want, but a player
\* without a character is spawned.
TeamsFairness ==
  /\ \A t \in RealTeams :
       /\ WF_teamsVars(Tick(t)) /\ WF_teamsVars(SaveWorker(t))
       /\ WF_teamsVars(LoadWorker(t)) /\ WF_teamsVars(ProcessSaveTeam(t))
  /\ \A c \in Clients : WF_teamsVars(Respawn(c))

TeamsSpec == TeamsInit /\ [][TeamsNext]_teamsVars
TeamsFairSpec == TeamsSpec /\ TeamsFairness

-----------------------------------------------------------------------------
RaceStates == {"NONE", "STARTED", "FINISHED"}
Runs == [id : 0 .. MaxRuns, marks : SUBSET {"practiced", "deserted", "stale"}]
SavedTeams ==
  [run : Runs, locked : BOOLEAN, names : SUBSET Clients, started : SUBSET Clients,
   finished : SUBSET Clients, race : [Clients -> RaceStates]]
Savings ==
  [kind : {"none", "save", "load"}, status : {"none", "pending", "done", "failed"},
   saved : SavedTeams]
GameStates ==
  [team : [Clients -> Teams], tee : [Clients -> {"out", "spec", "dead", "alive"}],
   race : [Clients -> RaceStates], started : SUBSET Clients, finished : SUBSET Clients,
   state : [Teams -> EMPTY .. FINISHED], locked : SUBSET RealTeams,
   flock : SUBSET RealTeams, practice : SUBSET RealTeams, killTick : SUBSET RealTeams,
   saving : [Teams -> Savings], run : [Teams -> Runs], ranked : SUBSET Runs]

\* A slot nobody uses is in team 0, where its next player finds himself, and
\* what is saved is a run.
TeamsTypeOK ==
  /\ g \in GameStates
  /\ \A c \in Clients : g.tee[c] = "out" => g.team[c] = FLOCK
  /\ \A v \in saves : v \in SavedTeams /\ v.run.id # 0

\* A team is EMPTY exactly when nobody is in it, however its members left, and
\* then nothing of what they had set is left for the next ones.
EmptyTeams ==
  \A t \in RealTeams :
    /\ g.state[t] = EMPTY <=> Members(g, t) = {}
    /\ g.state[t] = EMPTY => t \notin g.locked \cup g.flock \cup g.practice

\* Where the run i is: raced by a team, on its way to or from the database, or
\* in it.
Places(i) ==
  {<<"team", t>> : t \in {u \in RealTeams : Racing(g, u) /\ g.run[u].id = i}}
  \cup {<<"saving", t>> : t \in {u \in RealTeams : g.saving[u].saved.run.id = i}}
  \cup {<<"saved", v>> : v \in {u \in saves : u.run.id = i}}

\* A run is in one place at a time.  Otherwise saving would duplicate it.
OneCopy == \A i \in 1 .. MaxRuns : \A p, q \in Places(i) : p = q

\* A run in which practice mode was ever on gets no rank: neither leaving, nor
\* swapping, nor saving, nor ending practice mode washes it clean.
PracticedNotRanked == \A r \in g.ranked : "practiced" \notin r.marks

\* The message of OnCharacterDeath: "This team cannot finish anymore because ...
\* left the team before hitting the start".
DesertedNotRanked == \A r \in g.ranked : "deserted" \notin r.marks

\* A finished or saved run is over: a rank and a save of one run exclude each
\* other, as do a rank and racing on.
RankIsFinal == g.ranked \cap {r \in Copies : r.id # 0} = {}

\* Nobody starts a run with the finish of an earlier run in his account.
FreshStart == \A r \in Copies \cup g.ranked : "stale" \notin r.marks

\* "Team can't be loaded while in team 0 mode": no tee of a team in this mode
\* is on the run of a team, for it would get a rank of its own for it.
NoRunInTeam0Mode == \A t \in RealTeams : g.run[t].id # 0 => t \notin g.flock

\* A team that cannot finish anymore will be killed, or it is in practice mode.
UnfinishableDoomed ==
  \A t \in RealTeams :
    g.state[t] = STARTED_UNFINISHABLE => t \in g.killTick \cup g.practice

\* A team that cannot finish anymore does not stay so with its tees alive,
\* unless it enters practice mode.
UnfinishableEnds ==
  \A t \in RealTeams :
    []<>(g.state[t] = STARTED_UNFINISHABLE => t \in g.practice \/ Alive(g, t) = {})

\* A team nobody is in keeps nothing of the last one, and the run of a team is
\* in the game, in a save or with a worker of the database, but never twice.
TeamsConsistent == TeamsTypeOK /\ EmptyTeams /\ OneCopy

\* No rank is given for a run that was practised, no run starts with the finish
\* of an earlier one, and no team races in team 0 mode.
RunsAreFair == PracticedNotRanked /\ FreshStart /\ NoRunInTeam0Mode
=============================================================================
