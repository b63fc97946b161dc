------------------------------ MODULE Creatures ------------------------------
(***************************************************************************)
(* The creatures of the world: who holds a reference to whom, who looks at *)
(* whom, who is checked, and who is dead (src/src/creature.cpp, creature.h,*)
(* monster.cpp, src/src/game.cpp:498-590, 3352-3430, 4374-4402).           *)
(*                                                                         *)
(* All of it runs on the dispatcher thread. The code is hard because of    *)
(* callbacks: to place, move or remove one creature tells every spectator, *)
(* and their handlers change the lists, the flags and the counters of the  *)
(* others. Each operator below takes the creatures and returns them        *)
(* changed, as a call in the code does. The order in which spectators are  *)
(* told is that of a hash set; their handlers touch their own lists only,  *)
(* so the model tells the mover first and the others in a fixed order.     *)
(*                                                                         *)
(* A position is reduced to what can be seen from it (Near); invisibility, *)
(* conditions, protection zones, parties and floors are left out or are    *)
(* choices. Monsters are hostile and players chase. Nobody reads whom a    *)
(* removed creature attacked or followed: the model forgets it.            *)
(***************************************************************************)
EXTENDS FiniteSetsExt

CONSTANTS
    Players, Monsters,
    Places,
    Near,       \* pairs of places in sight of each other
    Null        \* nullptr, and nowhere

ASSUME NearAssumption ==
    /\ Near \subseteq Places \X Places
    /\ \A a \in Places : <<a, a>> \in Near
    /\ \A a, b \in Places : <<a, b>> \in Near => <<b, a>> \in Near

ASSUME KindAssumption ==
    /\ Players \cap Monsters = {} /\ Null \notin Players \cup Monsters \cup Places
    /\ IsFiniteSet(Players) /\ IsFiniteSet(Monsters)

Creatures == Players \cup Monsters

VARIABLE creature   \* the objects, see Body

\* Creature, Monster and Player objects. due counts the entries of ToReleaseCreatures.
Body ==
    [body     : {"none", "world", "removed"},
     at       : Places \cup {Null},
     alive    : BOOLEAN,                    \* health > 0
     client   : BOOLEAN,                    \* Player::client
     attacked : Creatures \cup {Null},
     follow   : Creatures \cup {Null},
     master   : Creatures \cup {Null},
     summons  : SUBSET Monsters,
     targets  : SUBSET Creatures,           \* Monster::targetList
     friends  : SUBSET Creatures,           \* Monster::friendList
     listed   : BOOLEAN,                    \* inCheckCreaturesVector
     check    : BOOLEAN,                    \* creatureCheck
     refs     : Nat,                        \* referenceCounter
     due      : Nat]

Fresh(place, client) ==
    [body |-> "none", at |-> place, alive |-> TRUE, client |-> client,
     attacked |-> Null, follow |-> Null, master |-> Null, summons |-> {},
     targets |-> {}, friends |-> {}, listed |-> FALSE, check |-> FALSE,
     refs |-> 0, due |-> 0]

\* An address without an object.
Unborn == Fresh(Null, FALSE)

World(w) == {c \in Creatures : w[c].body = "world"}
InReach(w, c, place) == <<w[c].at, place>> \in Near

\* Creature::canSee; a player sees through his client.
Sees(w, c, t) == InReach(w, c, w[t].at) /\ (c \in Players => w[c].client)

-----------------------------------------------------------------------------
(* Reference counters. *)

\* Mutant of Destroy: a monster takes the references of its lists along.
DestroyOnly(w, dead) ==
    LET held(x) == Cardinality({d \in dead : x \in w[d].summons})
    IN  [x \in Creatures |->
            IF x \in dead THEN Unborn
            ELSE [w[x] EXCEPT !.refs = @ - held(x),
                              !.master = IF held(x) > 0 THEN Null ELSE @,
                              !.attacked = IF held(x) > 0 THEN Null ELSE @]]

\* How often the lists of dead hold x.
HeldBy(w, dead, x) ==
    Cardinality({d \in dead : x \in w[d].targets})
      + Cardinality({d \in dead : x \in w[d].friends})
      + Cardinality({d \in dead : x \in w[d].summons})

Frees(w, dead, x) == \E d \in dead : x \in w[d].summons

\* ~Monster gives the references of its lists back, ~Creature lets the summons go.
Destroy(w, dead) ==
    [x \in Creatures |->
        IF x \in dead THEN Unborn
        ELSE [w[x] EXCEPT !.refs = @ - HeldBy(w, dead, x),
                          !.master = IF Frees(w, dead, x) THEN Null ELSE @,
                          !.attacked = IF Frees(w, dead, x) THEN Null ELSE @]]

Unheld(w) == {c \in Creatures : w[c].body # "none" /\ w[c].refs = 0}

\* Who has no reference left is deleted, which may take others along.
Reap(w) ==
    IF Unheld(w) = {} THEN w
    ELSE FoldSet(LAMBDA i, v : Destroy(v, Unheld(v)), w, 1..Cardinality(Creatures))

\* decrementReferenceCounter of every creature in S
Unref(w, S) ==
    LET fewer == [c \in Creatures |-> IF c \in S THEN [w[c] EXCEPT !.refs = @ - 1] ELSE w[c]]
    IN  IF fewer = w THEN w ELSE Reap(fewer)

Release(w, c) == [w EXCEPT ![c].due = @ + 1]

\* Mutant of Cleanup: the list of what is to be released is not emptied.
CleanupKeeping(w) == Reap([c \in Creatures |-> [w[c] EXCEPT !.refs = @ - w[c].due]])

\* Game::cleanup
Cleanup(w) ==
    LET clean == [c \in Creatures |-> [w[c] EXCEPT !.refs = @ - w[c].due, !.due = 0]]
    IN  IF clean = w THEN w ELSE Reap(clean)

-----------------------------------------------------------------------------
(* The check list and the lists of monsters. *)

AddCheck(w, c) ==
    [w EXCEPT ![c].check = TRUE, ![c].listed = TRUE,
              ![c].refs = IF w[c].listed THEN @ ELSE @ + 1]

RemoveCheck(w, c) == IF w[c].listed THEN [w EXCEPT ![c].check = FALSE] ELSE w

AddTarget(w, m, c) ==
    IF c \in w[m].targets THEN w
    ELSE [w EXCEPT ![m].targets = @ \cup {c}, ![c].refs = @ + 1]

AddFriend(w, m, c) ==
    IF c \in w[m].friends THEN w
    ELSE [w EXCEPT ![m].friends = @ \cup {c}, ![c].refs = @ + 1]

RemoveTargets(w, m, S) ==
    Unref([w EXCEPT ![m].targets = @ \ S], w[m].targets \cap S)

RemoveFriends(w, m, S) ==
    Unref([w EXCEPT ![m].friends = @ \ S], w[m].friends \cap S)

\* clearTargetList and clearFriendList
ClearLists(w, m) == RemoveFriends(RemoveTargets(w, m, Creatures), m, Creatures)

OfPlayer(w, m) == w[m].master \in Players

Clientless(w, c) == c \in Players /\ ~w[c].client

IsFriend(w, m, c) ==
    \/ Clientless(w, c)
    \/ /\ OfPlayer(w, m)
       /\ w[m].master = IF c \in Players THEN c ELSE w[c].master
    \/ ~OfPlayer(w, m) /\ c \in Monsters /\ w[c].master = Null

IsOpponent(w, m, c) ==
    /\ ~Clientless(w, c)
    /\ IF OfPlayer(w, m) THEN c # w[m].master ELSE c \in Players \/ OfPlayer(w, c)

\* Monster::setIdle: neither a removed nor a dead monster changes.
SetIdle(w, m, idle) ==
    IF w[m].body = "removed" \/ ~w[m].alive THEN w
    ELSE IF idle THEN RemoveCheck(ClearLists(w, m), m)
    ELSE AddCheck(w, m)

UpdateIdle(w, m) == SetIdle(w, m, w[m].master = Null /\ w[m].targets = {})

\* onCreatureFound
Found(w, m, c) ==
    LET befriended == IF IsFriend(w, m, c) THEN AddFriend(w, m, c) ELSE w
        opposed == IF IsOpponent(w, m, c) THEN AddTarget(befriended, m, c) ELSE befriended
    IN  UpdateIdle(opposed, m)

\* The last target is gone.
Untroubled(w, m) == IF w[m].targets = {} THEN UpdateIdle(w, m) ELSE w

Forgive(w, m, c) ==
    IF IsOpponent(w, m, c) THEN Untroubled(RemoveTargets(w, m, {c}), m) ELSE w

\* onCreatureLeave
Leave(w, m, c) ==
    Forgive(IF IsFriend(w, m, c) THEN RemoveFriends(w, m, {c}) ELSE w, m, c)

\* The end of updateTargetList: everybody in sight is found.
FindAll(w, m) ==
    FoldSet(LAMBDA c, v : Found(v, m, c), w, {c \in World(w) \ {m} : Sees(w, m, c)})

UpdateTargets(w, m) ==
    LET lost == {c \in Creatures : ~w[c].alive \/ ~Sees(w, m, c)}
    IN  FindAll(RemoveTargets(RemoveFriends(w, m, lost), m, lost), m)

-----------------------------------------------------------------------------
(* Whom a creature attacks, follows and obeys. *)

\* Creature::setAttackedCreature passes the order on to the summons.
\* Player::setAttackedCreature also stops following; chasing is an action of its own.
SetAttacked(w, c, t) ==
    LET sees(v, x) == t = Null \/ Sees(v, x, t)
        order(x, v) == [v EXCEPT ![x].attacked = IF sees(v, x) THEN t ELSE Null]
        obeyed == FoldSet(order, order(c, w), w[c].summons)
    IN  IF ~sees(w, c) THEN order(c, w)
        ELSE IF c \in Players THEN [obeyed EXCEPT ![c].follow = Null] ELSE obeyed

\* Creature::setFollowCreature, Player::setFollowCreature
SetFollow(w, c, t) ==
    IF t = Null \/ t = w[c].follow \/ Sees(w, c, t) THEN [w EXCEPT ![c].follow = t]
    ELSE IF c \in Players THEN SetAttacked([w EXCEPT ![c].follow = Null], c, Null)
    ELSE [w EXCEPT ![c].follow = Null]

Unfollow(w, c, t) == IF w[c].follow = t THEN SetFollow(w, c, Null) ELSE w

\* Creature::onCreatureDisappear
Disappear(w, c, t) ==
    Unfollow(IF w[c].attacked = t THEN SetAttacked(w, c, Null) ELSE w, c, t)

\* Creature::setMaster, of another master than before
SetMaster(w, c, new) ==
    LET old == w[c].master
        joined == IF new = Null THEN w
                  ELSE [w EXCEPT ![new].summons = @ \cup {c}, ![c].refs = @ + 1]
        owned == [joined EXCEPT ![c].master = new]
    IN  IF old = Null \/ c \notin owned[old].summons THEN owned
        ELSE Unref([owned EXCEPT ![old].summons = @ \ {c}], {c})

\* Monster::selectTarget, with isTarget
Select(w, m, t) ==
    IF t \in w[m].targets /\ t \in World(w) /\ ~Clientless(w, t)
    THEN SetFollow(SetAttacked(w, m, t), m, t)
    ELSE w

\* Mutant of Hurt: the monster is woken after the loss.
HurtThenWake(w, c, fatal) ==
    LET hurt == [w EXCEPT ![c].alive = @ /\ ~fatal]
    IN  IF c \in Monsters THEN SetIdle(hurt, c, FALSE) ELSE hurt

\* Monster::changeHealth wakes the monster before the loss.
Hurt(w, c, fatal) ==
    LET awake == IF c \in Monsters THEN SetIdle(w, c, FALSE) ELSE w
    IN  [awake EXCEPT ![c].alive = @ /\ ~fatal]

\* What becomes of the summons of a monster that dies or changes sides.
KillSummons(w, m) ==
    LET kill(s, v) ==
            Unref([Hurt(v, s, TRUE) EXCEPT ![s].master = Null], {s})
    IN  [FoldSet(kill, w, w[m].summons) EXCEPT ![m].summons = {}]

-----------------------------------------------------------------------------
(* Placing, removing and moving; each tells the spectators. *)

\* Game::placeCreature of a new object: the counter starts with the world's
\* reference, and with the protocol's for a player.
Place(w, c, place) ==
    LET new == [w EXCEPT ![c] = [Fresh(place, c \in Players) EXCEPT
                    !.body = "world", !.refs = IF c \in Players THEN 2 ELSE 1]]
        appear(x, v) == IF x = c THEN UpdateIdle(UpdateTargets(v, x), x) ELSE Found(v, x, c)
        watching == {x \in World(new) \cap Monsters : InReach(new, x, place)}
    IN  AddCheck(FoldSet(appear, new, watching), c)

\* A summon that is removed leaves a master who stays.
Desert(w, m) ==
    IF w[m].master # Null /\ w[w[m].master].body = "world" THEN SetMaster(w, m, Null) ELSE w

\* onRemoveCreature(c) of the spectator x, who has forgotten c.
Part(w, x, c) ==
    IF x \in Players THEN w
    ELSE IF x = c THEN SetIdle(Desert(w, x), x, TRUE)
    ELSE Leave(w, x, c)

OnRemove(w, x, c) == Part(Disappear(w, x, c), x, c)

OnRemoveAll(w, S, c) == FoldSet(LAMBDA x, v : OnRemove(v, x, c), w, S)

\* Among the spectators is c itself, told first (early) or last: once it has dropped its
\* master, the others may no longer know it for an opponent.
RemoveOne(w, c, early) ==
    LET watching == {x \in World(w) : InReach(w, x, w[c].at)} \ {c}
        first == IF early THEN {c} ELSE watching
        last == IF early THEN watching ELSE {c}
        gone(v) == [v EXCEPT ![c].body = "removed", ![c].attacked = Null, ![c].follow = Null]
    IN  IF c \in World(w)
        THEN RemoveCheck(Release(gone(OnRemoveAll(OnRemoveAll(w, first, c), last, c)), c), c)
        ELSE w

RemoveSummons(w, c) == FoldSet(LAMBDA s, v : RemoveOne(v, s, TRUE), w, w[c].summons)

\* Game::removeCreature: the summons go with their master, whose list stays as it is.
RemoveCreature(w, c, early) ==
    IF c \in World(w) THEN RemoveSummons(RemoveOne(w, c, early), c) ELSE w

\* Mutant of LoseSight: only the followed creature is watched.
LoseFollowed(w, x, c) ==
    LET t == w[x].follow
    IN  IF t # Null /\ c \in {x, t} /\ ~Sees(w, x, t) THEN SetFollow(w, x, Null) ELSE w

Lose(w, x, c, t) ==
    IF t # Null /\ c \in {x, t} /\ ~Sees(w, x, t) THEN Disappear(w, x, t) ELSE w

LoseAttacked(w, x, c) == Lose(w, x, c, w[x].attacked)

\* Creature::onCreatureMove: who is out of sight is attacked and followed no more.
LoseSight(w, x, c) == LoseAttacked(Lose(w, x, c, w[x].follow), x, c)

\* The mover comes into sight, or goes out of sight.
Meet(w, x, c, from) ==
    LET now == InReach(w, x, w[c].at)
        before == InReach(w, x, from)
    IN  IF now /\ ~before THEN Found(w, x, c)
        ELSE IF before /\ ~now THEN Leave(w, x, c)
        ELSE w

\* A wild monster may turn to pick, if that is the mover or somebody standing in the way.
TurnTo(w, x, c, pick) ==
    LET follows == w[x].follow
        turns == /\ w[x].master = Null /\ pick # Null
                 /\ IsOpponent(w, x, pick)
                 /\ IF follows = Null THEN pick = c ELSE pick # follows
    IN  IF turns THEN Select(w, x, pick) ELSE w

\* Monster::onCreatureMove of the spectator x, c coming from the place from.
Notice(w, x, c, from, picks) ==
    IF x \in Players THEN w
    ELSE IF x = c THEN UpdateIdle(UpdateTargets(w, x), x)
    ELSE TurnTo(UpdateIdle(Meet(w, x, c, from), x), x, c, picks[x])

OnMove(w, x, c, from, picks) == Notice(LoseSight(w, x, c), x, c, from, picks)

\* Map::moveCreature. The summons in far are left too far behind and removed (early:
\* see RemoveOne); picks is whom the spectators turn to.
Move(w, c, place, far, early, picks) ==
    LET from == w[c].at
        watching == {x \in World(w) : InReach(w, x, from) \/ InReach(w, x, place)} \ {c}
        alone == FoldSet(LAMBDA s, v : RemoveCreature(v, s, s \in early),
                         [w EXCEPT ![c].at = place], far)
    IN  FoldSet(LAMBDA x, v : OnMove(v, x, c, from, picks),
                OnMove(alone, c, c, from, picks), watching)

\* The summons that a move to place may leave behind.
Distant(w, c, place) == {s \in w[c].summons : ~InReach(w, s, place)}
=============================================================================
