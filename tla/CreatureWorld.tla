---------------------------- MODULE CreatureWorld ----------------------------
(***************************************************************************)
(* What happens to creatures, one action per task of the dispatcher:       *)
(* spawning, login and logout, lost clients, walking, orders, fights,      *)
(* summoning, and the periodic check that lets everybody think and removes *)
(* the dead. Game::checkCreatures goes through one of ten lists at a time; *)
(* here every creature is alone in its list.                               *)
(***************************************************************************)
EXTENDS Creatures

Here == World(creature)
Free(S) == {c \in S : creature[c].body = "none"}

\* Spawn::spawnMonster, Map::placeCreature
Spawn(m, place) == m \in Free(Monsters) /\ creature' = Place(creature, m, place)

Login(p, place) == p \in Free(Players) /\ creature' = Place(creature, p, place)

\* A player leaves by Game::removeCreature, his client goes later or went before.
Logout(p) == p \in Here /\ creature' = RemoveCreature(creature, p, TRUE)

\* ProtocolGame::release; a client that comes back is left to Session.
LoseClient(p) ==
    /\ creature[p].client
    /\ creature' = Unref([creature EXCEPT ![p].client = FALSE], {p})

\* Whom the wild monsters may turn to when c moves: somebody in the way of whom they
\* follow, or else c.
Picks(w, c) ==
    LET choices(m) ==
            {x \in IF w[m].follow = Null THEN {c} ELSE w[m].targets \ {w[m].follow} :
                 m # c /\ w[m].master = Null /\ IsOpponent(w, m, x)} \cup {Null}
    IN  {picks \in [Monsters -> UNION {choices(m) : m \in Monsters}] :
            \A m \in Monsters : picks[m] \in choices(m)}
NoPicks == [m \in Monsters |-> Null]

\* Creature::onWalk to a place.
Steps(w, c, place) ==
    UNION {{Move(w, c, place, far, early, picks) : early \in SUBSET far, picks \in Picks(w, c)} :
           far \in SUBSET Distant(w, c, place)}

\* Game::checkCreatureWalk: a step and a cleanup.
Walk(c, place) ==
    /\ c \in Here /\ creature[c].alive /\ place # creature[c].at
    /\ \E w \in Steps(creature, c, place) : creature' = Cleanup(w)

\* The same at once, out of Creature::addEventWalk, maybe to where it sees the same, and
\* the field it may end in: one that does not kill wakes a monster, whose next thought
\* decides again.
FirstSteps(w, c) ==
    LET walked == {w} \cup UNION {Steps(w, c, place) : place \in Places \ {w[c].at}}
    IN  {Cleanup(v) : v \in UNION {{u, Hurt(u, c, TRUE)} : u \in walked}}

\* Monster::onFollowCreatureComplete without a path: a summon forgets whom it follows.
GiveUp(w, c) ==
    IF c \in Monsters /\ w[c].master # Null THEN RemoveTargets(w, c, {w[c].follow}) ELSE w

\* Creature::goToFollowCreature: there is no way, or the first step has time, or not.
Chases(w, c) ==
    IF w[c].follow = Null THEN {w} ELSE {w, GiveUp(w, c)} \cup FirstSteps(w, c)

\* Game::updateCreatureWalk, the first step of which is Walk, at once or in time.
UpdateWalk(c) ==
    /\ c \in Here /\ creature[c].alive /\ creature[c].follow # Null
    /\ creature' = GiveUp(creature, c)

\* Game::playerSetAttackedCreature
PlayerAttack(p, t) ==
    /\ p \in Here /\ t \in (Here \cup {Null}) \ {p}
    /\ LET ordered == SetAttacked(creature, p, t)
       IN  creature' = IF ordered[p].attacked = Null THEN ordered
                       ELSE SetFollow(ordered, p, t)

\* Game::playerFollowCreature
PlayerFollow(p, t) ==
    /\ p \in Here /\ t \in (Here \cup {Null}) \ {p}
    /\ creature' = SetFollow(SetAttacked(creature, p, Null), p, t)

\* doAttacking: a monster that finds the client of its target gone stops, and is no
\* longer checked.
Strike(w, c, fatal) ==
    LET t == w[c].attacked
        unchecked == RemoveCheck(SetFollow(w, c, Null), c)
    IN  IF t = Null THEN w
        ELSE IF c \in Monsters /\ Clientless(w, t) THEN SetAttacked(unchecked, c, Null)
        ELSE IF c = t THEN w
        ELSE Hurt(w, t, fatal)

\* Game::checkCreatureAttack
CheckAttack(c) ==
    /\ c \in Here /\ creature[c].alive /\ creature[c].attacked # Null
    /\ \E fatal \in BOOLEAN : creature' = Strike(creature, c, fatal)

\* Damage by spells, fields and conditions.
Damage(c) ==
    /\ c \in Here /\ creature[c].alive
    /\ \E fatal \in BOOLEAN : creature' = Hurt(creature, c, fatal)

\* A script creates a monster and gives it a master (creature:setMaster).
Summon(w, c, m) == SetMaster(Place(w, m, w[c].at), m, c)

SummonByScript(p, m) ==
    /\ p \in Here /\ m \in Free(Monsters)
    /\ creature' = Summon(creature, p, m)

\* Monster::onCreatureConvinced of the spectator x
OnConvinced(w, x, m) ==
    IF IsFriend(w, x, m) \/ IsOpponent(w, x, m) THEN UpdateIdle(UpdateTargets(w, x), x) ELSE w

\* Monster::convinceCreature
Convince(p, m) ==
    /\ {p, m} \subseteq Here /\ ~OfPlayer(creature, m)
    /\ LET mastered == SetMaster(creature, m, p)
           calm == SetAttacked(SetFollow(mastered, m, Null), m, Null)
           single == UpdateTargets(KillSummons(calm, m), m)
           awake == UpdateIdle(single, m)
           watching == {x \in Here \cap Monsters :
                            InReach(creature, x, creature[m].at)
                            \/ InReach(creature, x, creature[p].at)}
       IN  creature' = FoldSet(LAMBDA x, v : OnConvinced(v, x, m), awake, watching)

-----------------------------------------------------------------------------
(* Thinking and dying. *)

\* Monster::onThink of a monster in its spawn's range: target is whom it turns to, new
\* a monster it summons. One that has just died on its way goes on thinking.
Think(w, m, target, new) ==
    LET woken == UpdateIdle(w, m)
        master == woken[m].master
        asleep == woken[m].alive /\ master = Null /\ woken[m].targets = {}
        mine == woken[m].attacked
        theirs == IF master = Null THEN Null ELSE woken[master].attacked
        turned == IF target = Null THEN woken ELSE Select(woken, m, target)
        obeyed == IF mine # Null THEN SetFollow(woken, m, IF mine = m THEN Null ELSE mine)
                  ELSE IF theirs # Null THEN Select(woken, m, theirs)
                  ELSE SetFollow(woken, m, master)
    IN  IF asleep THEN woken
        ELSE IF master # Null THEN obeyed
        ELSE IF new = Null THEN turned
        ELSE Summon(turned, m, new)

\* Creature::onDeath and Monster::death
MonsterDies(w, m) ==
    LET single == ClearLists(KillSummons(SetAttacked(w, m, Null), m), m)
        free == IF single[m].master = Null THEN single ELSE SetMaster(single, m, Null)
    IN  RemoveCreature(free, m, TRUE)

\* Where a player who died finds himself: healed, where he died or in a temple.
Revived(w, p) ==
    LET healed == [w EXCEPT ![p].alive = TRUE]
    IN  {healed} \cup
        UNION {{Move(healed, p, temple, far, {}, NoPicks) : far \in SUBSET Distant(w, p, temple)} :
               temple \in Places \ {w[p].at}}

Leaves(W, p) == {RemoveCreature(w, p, TRUE) : w \in W}

\* Player::death: the player leaves the game unless he died in a fight zone.
PlayerDeaths(w, p) == LET revived == Revived(w, p) IN revived \cup Leaves(revived, p)

\* What a monster may think: whom it turns to, what it summons.
Thoughts(w, m) ==
    {Think(w, m, target, new) :
         target \in w[m].targets \cup {Null},
         new \in {x \in Monsters : w[x].body = "none"} \cup {Null}}

\* A monster out of its spawn's range is taken back.
TakeBack(w, m, home, far, early) == SetIdle(Move(w, m, home, far, early, NoPicks), m, TRUE)

Strays(w, m) ==
    UNION {UNION {{TakeBack(w, m, home, far, early) : early \in SUBSET far} :
                  far \in SUBSET Distant(w, m, home)} :
           home \in Places \ {w[m].at}}

Strikes(W, c) == {Strike(w, c, fatal) : w \in W, fatal \in BOOLEAN}

\* A condition of a monster, in the end, may be fatal.
Suffers(w, c) == IF c \in Monsters THEN {w, Hurt(w, c, TRUE)} ELSE {w}

\* The first step of the chase, and what a monster thinks then (Creature::onThink,
\* Monster::onThink).
Thinks(w, c) ==
    UNION {IF c \in Players THEN {v} ELSE Thoughts(v, c) \cup Strays(v, c) : v \in Chases(w, c)}

\* A creature that was alive at its turn: its thoughts, its attack, its conditions. It
\* is not asked in between whether it still is.
Live(w, c) == UNION {Suffers(struck, c) : struck \in Strikes(Thinks(w, c), c)}

Die(w, c) == IF c \in Monsters THEN {MonsterDies(w, c)} ELSE PlayerDeaths(w, c)

\* Game::checkCreatures comes to c, and cleans up at the end.
Check(c) ==
    /\ creature[c].listed
    /\ IF ~creature[c].check
       THEN creature' = Cleanup(Release([creature EXCEPT ![c].listed = FALSE], c))
       ELSE \E w \in IF creature[c].alive THEN Live(creature, c) ELSE Die(creature, c) :
                creature' = Cleanup(w)

Init == creature = [c \in Creatures |-> Unborn]

Next ==
    \/ \E m \in Monsters, a \in Places : Spawn(m, a)
    \/ \E p \in Players :
           \/ \E a \in Places : Login(p, a)
           \/ Logout(p) \/ LoseClient(p)
           \/ \E t \in Creatures \cup {Null} : PlayerAttack(p, t) \/ PlayerFollow(p, t)
           \/ \E m \in Monsters : SummonByScript(p, m) \/ Convince(p, m)
    \/ \E c \in Creatures :
           \/ \E a \in Places : Walk(c, a)
           \/ UpdateWalk(c)
           \/ CheckAttack(c) \/ Damage(c) \/ Check(c)

Spec == Init /\ [][Next]_creature

-----------------------------------------------------------------------------
\* Types.
CreatureTypeOK == creature \in [Creatures -> Body]

\* Who keeps a reference to c: the world, the check list, the protocol, the entries of
\* ToReleaseCreatures, the lists of monsters and of masters.
Holders(c) ==
    LET one(holds) == IF holds THEN 1 ELSE 0
    IN  one(c \in Here) + one(creature[c].listed) + one(creature[c].client)
        + creature[c].due
        + Cardinality({x \in Creatures : c \in creature[x].targets})
        + Cardinality({x \in Creatures : c \in creature[x].friends})
        + Cardinality({x \in Creatures : c \in creature[x].summons})

\* Every reference is counted once, whatever order creatures die, vanish, change sides
\* and lose sight of each other in: nobody is deleted while somebody keeps him in a
\* list, and an object that nobody keeps is gone (creature.h:471, monster.cpp:72-76).
RefsExact ==
    \A c \in Creatures :
        /\ creature[c].refs = Holders(c)
        /\ creature[c].refs = 0 <=> creature[c].body = "none"

\* The pointers that are not counted are good all the same: who is in the world attacks
\* and follows creatures of the world only, and masters and summons know each other
\* (creature.cpp:429-451, 630-637, 1187-1208).
PointersLive ==
    \A c \in Here :
        /\ {creature[c].attacked, creature[c].follow} \subseteq Here \cup {Null}
        /\ creature[c].master # Null => c \in creature[creature[c].master].summons
        /\ \A s \in creature[c].summons : s \in Here /\ creature[s].master = c

\* Whom the check does not find again: nobody else removes the dead.
Forgotten == {c \in Here : ~creature[c].alive /\ ~(creature[c].listed /\ creature[c].check)}

\* Whoever dies is being checked and so removed, even if he was idle, or had stopped
\* because of a lost client, when he was struck: a dead monster is not woken any more
\* (monster.cpp:700-704, 2027-2032). The one exception is a monster that dies in its own
\* check, on the first step of its chase (creature.cpp:287-290), while the player it
\* attacks has no client: it goes on to attack, and stops being checked (monster.cpp:838).
OnlyTheStoppedAreForgotten ==
    [][\A c \in Forgotten' \ Forgotten :
          /\ c \in Monsters /\ Check(c) /\ creature[c].alive
          /\ creature[c].follow # Null
          /\ Clientless(creature, creature[c].attacked)]_creature
=============================================================================
