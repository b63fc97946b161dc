--------------------------- MODULE CreatureProofs ---------------------------
(***************************************************************************)
(* Proofs about CreatureWorld.tla, for any players, monsters and places.   *)
(*                                                                         *)
(* A task of the dispatcher passes the creatures through many functions,   *)
(* and each of them may call back. The invariant is therefore stated of any*)
(* value of the creatures (Good), and what is proved of a function is that *)
(* it returns good creatures for good ones and leaves alone what its       *)
(* callers go on relying on (Quiet): who was in the world still is, where  *)
(* he was, with his master and summons. The folds over spectators and      *)
(* summons are inductions over sets (FoldIn).                              *)
(***************************************************************************)
EXTENDS CreatureWorld, TotalProofs

-----------------------------------------------------------------------------
(* The invariant. *)

Worlds == [Creatures -> Body]

\* Who is not deleted before the next cleanup, whatever lists he is taken from.
Kept(w, c) == w[c].body = "world" \/ w[c].due > 0

One(b) == IF b THEN 1 ELSE 0

\* The references that c has from outside of creatures.
Own(b) == One(b.body = "world") + One(b.listed) + One(b.client) + b.due

\* Who holds c in one of his lists.
Targeting(w, c) == {x \in Creatures : c \in w[x].targets}
Befriending(w, c) == {x \in Creatures : c \in w[x].friends}
Mastering(w, c) == {x \in Creatures : c \in w[x].summons}

Held(w, c) ==
    Cardinality(Targeting(w, c)) + Cardinality(Befriending(w, c)) + Cardinality(Mastering(w, c))

\* Only monsters have lists, and an address without an object has nothing.
Shape(w) ==
    /\ w \in Worlds
    /\ \A p \in Players : w[p].targets = {} /\ w[p].friends = {}
    /\ \A c \in Creatures : w[c].body = "none" => w[c] = Unborn

\* References are counted, those in S once more than they are held.
Owing(w, S) == \A c \in Creatures : w[c].refs = Own(w[c]) + Held(w, c) + One(c \in S)

Counted(w) == \A c \in Creatures : w[c].refs = Own(w[c]) + Held(w, c)

\* Masters and summons know each other; a master stays until his summons have gone.
Linked(w) ==
    /\ \A c \in World(w) :
          w[c].master # Null => c \in w[w[c].master].summons /\ Kept(w, w[c].master)
    /\ \A d \in Creatures : \A s \in w[d].summons :
          /\ w[s].body = "world" => w[s].master = d
          /\ w[d].body = "world" => w[s].body = "world"

Aims(w, x) == {w[x].attacked, w[x].follow} \ {Null}

\* Who is attacked or followed is in the world, and in reach unless c is one of the two
\* and the other, one of P, has not been told that c has moved.
Watch(w, c, P) ==
    \A x \in World(w) : \A t \in Aims(w, x) :
        IF InReach(w, x, w[t].at) THEN t \in World(w) ELSE x \in P /\ c \in {x, t}

\* A monster in whose check the step from creature to creature' may stop the checks of the
\* dead: it lives, and chases, and the player it attacks has no client.
Stopping(m) ==
    m \in Monsters /\ Check(m) /\ creature[m].alive /\ creature[m].follow # Null
        /\ Clientless(creature, creature[m].attacked)

\* Who may lie dead unchecked in the step from creature to creature'.
Excused == Forgotten \cup {m \in Monsters : Stopping(m)}

\* Players and the dead of the world, unless they are excused, are checked. Null is in P
\* as long as c, who is being placed, is not.
Checked(w, c, P) ==
    \A x \in Creatures :
        /\ w[x].check => w[x].listed /\ w[x].body = "world"
        /\ w[x].body = "world" /\ (x \in Players \/ (~w[x].alive /\ x \notin Excused))
              => w[x].check \/ (x = c /\ Null \in P)

Sound(w, c, P) == Shape(w) /\ Counted(w) /\ Linked(w) /\ Watch(w, c, P) /\ Checked(w, c, P)

Good(w, c, P) == Sound(w, c, P) /\ Unheld(w) = {}

\* No master is being removed.
MastersHere(w) == \A c \in World(w) : w[c].master # Null => w[c].master \in World(w)

\* Who has a master has no summons.
Flat(w) == \A c \in World(w) : w[c].master # Null => w[c].summons = {}

Orderly(w) == MastersHere(w) /\ Flat(w)

\* The creatures between two calls of a task.
Fine(w) == Good(w, Null, {}) /\ Orderly(w)

-----------------------------------------------------------------------------
(* What functions leave alone. *)

Fields == {"body", "at", "alive", "client", "attacked", "follow", "master", "summons",
           "targets", "friends", "listed", "check", "refs", "due"}

Same(a, b, F) == \A f \in Fields \ F : a[f] = b[f]

Quiet(w, v) ==
    \A c \in Creatures :
        /\ (v[c].body = w[c].body /\ v[c].at = w[c].at) \/ v[c].body = "none"
        /\ v[c].summons \subseteq w[c].summons
        /\ Kept(w, c) =>
              /\ v[c].body = w[c].body /\ v[c].at = w[c].at /\ v[c].alive = w[c].alive
              /\ v[c].client = w[c].client /\ v[c].due = w[c].due
              /\ v[c].summons = w[c].summons
        /\ w[c].body = "world" => v[c].master = w[c].master

\* Nobody aims at anybody new.
Eased(w, v) ==
    \A x \in World(w) :
        Aims(v, x) \subseteq Aims(w, x) /\ v[x].attacked \in {w[x].attacked, Null}

Tame(w, v) == Quiet(w, v) /\ Eased(w, v)

LEMMA FiniteCreatures == IsFiniteSet(Creatures) /\ Null \notin Creatures /\ Null \notin Places
  <1>1. IsFiniteSet(Players \cup Monsters)
    BY KindAssumption, FS_Union
  <1> QED
    BY <1>1, KindAssumption DEF Creatures

LEMMA QuietAlone == ASSUME NEW w PROVE Tame(w, w)
  BY DEF Tame, Quiet, Eased

LEMMA QuietTwice ==
  ASSUME NEW u, NEW v, NEW w, Quiet(u, v), Quiet(v, w)
  PROVE  Quiet(u, w)
  BY DEF Quiet, Kept

LEMMA TameTwice ==
  ASSUME NEW u, NEW v, NEW w, Tame(u, v), Tame(v, w)
  PROVE  Tame(u, w)
  <1>1. Quiet(u, w)
    BY QuietTwice DEF Tame
  <1>2. World(u) \subseteq World(v)
    BY DEF Tame, Quiet, Kept, World
  <1> QED
    BY <1>1, <1>2 DEF Tame, Eased

\* Who is in the world, and who is kept, stays.
LEMMA QuietWorld ==
  ASSUME NEW w, NEW v, Quiet(w, v)
  PROVE  /\ World(v) = World(w)
         /\ \A c \in Creatures : Kept(w, c) => Kept(v, c)
  <1>1. \A c \in Creatures : v[c].body = "world" <=> w[c].body = "world"
    BY DEF Quiet, Kept
  <1>2. World(v) = World(w)
    BY <1>1 DEF World
  <1> QED
    BY <1>2 DEF Quiet, Kept

LEMMA QuietLinked ==
  ASSUME NEW w \in Worlds, NEW v \in Worlds, Linked(w), Quiet(w, v)
  PROVE  Linked(v)
  <1>1. World(v) = World(w) /\ \A c \in Creatures : Kept(w, c) => Kept(v, c)
    BY QuietWorld
  <1>2. ASSUME NEW c \in World(v), v[c].master # Null
        PROVE  c \in v[v[c].master].summons /\ Kept(v, v[c].master)
    <2>1. c \in World(w) /\ v[c].master = w[c].master /\ w[c].master \in Creatures
      BY <1>1, <1>2 DEF Quiet, World, Worlds, Body
    <2>2. c \in w[w[c].master].summons /\ Kept(w, w[c].master)
      BY <1>2, <2>1 DEF Linked
    <2> QED
      BY <1>1, <2>1, <2>2 DEF Quiet
  <1>3. ASSUME NEW d \in Creatures, NEW s \in v[d].summons
        PROVE  /\ v[s].body = "world" => v[s].master = d
               /\ v[d].body = "world" => v[s].body = "world"
    <2>1. s \in w[d].summons /\ s \in Creatures
      BY DEF Quiet, Worlds, Body, Creatures
    <2> QED
      BY <1>1, <2>1 DEF Linked, Quiet, World
  <1> QED
    BY <1>2, <1>3 DEF Linked

LEMMA TameWatch ==
  ASSUME NEW w, NEW v, Shape(w), Shape(v), NEW c, NEW P, Watch(w, c, P), Tame(w, v)
  PROVE  Watch(v, c, P)
  <1>1. World(v) = World(w)
    BY QuietWorld DEF Tame
  <1> SUFFICES ASSUME NEW x \in World(v), NEW t \in Aims(v, x)
               PROVE  IF InReach(v, x, v[t].at) THEN t \in World(v) ELSE x \in P /\ c \in {x, t}
    BY DEF Watch
  <1>2. x \in World(w) /\ t \in Aims(w, x) /\ v[x].at = w[x].at
    BY <1>1 DEF Tame, Eased, Quiet, Kept, World
  <1>3. t \in Creatures
    BY <1>2 DEF Aims, Shape, Worlds, Body, World
  <1>4. CASE v[t].body = "none"
    <2>1. v[t].at = Null /\ ~InReach(v, x, v[t].at)
      BY <1>3, <1>4, NearAssumption, FiniteCreatures DEF Shape, Unborn, Fresh, InReach
    <2>2. t \notin World(w)
      BY <1>1, <1>4 DEF World
    <2> QED
      BY <1>2, <2>1, <2>2 DEF Watch
  <1>5. CASE v[t].body # "none"
    <2>1. v[t].at = w[t].at
      BY <1>3, <1>5 DEF Tame, Quiet
    <2> QED
      BY <1>1, <1>2, <2>1 DEF Watch, InReach
  <1> QED
    BY <1>4, <1>5

-----------------------------------------------------------------------------
(* Folds. *)

\* Induction over the subsets of a finite set in the order in which a fold takes them.
LEMMA SomeInduction ==
  ASSUME NEW S, IsFiniteSet(S), NEW T, {} \in T,
         \A s \in SUBSET S : s # {} /\ s \ {Some(s)} \in T => s \in T
  PROVE  SUBSET S \subseteq T
  <1> DEFINE bad == {s \in SUBSET S : s \notin T}
  <1> SUFFICES ASSUME bad # {} PROVE FALSE
    OBVIOUS
  <1>1. PICK s \in bad : \A r \in bad : r \subseteq s => r = s
    <2>2. bad \subseteq SUBSET S
      OBVIOUS
    <2> HIDE DEF bad
    <2> QED
      BY <2>2, SmallestSubset
  <1>2. Some(s) \in s
    BY <1>1, SomeOf
  <1>3. s \ {Some(s)} \in T
    BY <1>1, <1>2
  <1> QED
    BY <1>1, <1>2, <1>3

\* A fold over S starts at base and stays in R: F takes <<element, value>>, and R[s]
\* are the values that may be reached once the elements of s have been taken.
Stays(S, W, R, F, base) ==
    /\ R \in [SUBSET S -> SUBSET W]
    /\ base \in R[{}]
    /\ \A s \in SUBSET S : \A v \in W :
          s # {} /\ v \in R[s \ {Some(s)}] => F[<<Some(s), v>>] \in R[s]

\* g tells what the fold over each subset is.
Folding(S, R, F, base, g) ==
    \A s \in SUBSET S :
        /\ g[s] \in R[s]
        /\ g[s] = IF s = {} THEN base ELSE F[<<Some(s), g[s \ {Some(s)}]>>]

LEMMA FoldExists ==
  ASSUME NEW S, IsFiniteSet(S), NEW W, NEW R, NEW F, NEW base, Stays(S, W, R, F, base)
  PROVE  \E g \in [SUBSET S -> W] : Folding(S, R, F, base, g)
  <1> DEFINE All == (SUBSET S) \X W
             Closed(H) == /\ <<{}, base>> \in H
                          /\ \A s \in SUBSET S : \A v \in W :
                                s # {} /\ v \in R[s \ {Some(s)}] /\ <<s \ {Some(s)}, v>> \in H
                                   => <<s, F[<<Some(s), v>>]>> \in H
             G == {p \in All : \A H \in SUBSET All : Closed(H) => p \in H}
             Single(s) == \E v \in R[s] : \A u \in W : <<s, u>> \in G <=> u = v
  <1>0. /\ R \in [SUBSET S -> SUBSET W] /\ base \in R[{}]
        /\ \A s \in SUBSET S : \A v \in W :
              s # {} /\ v \in R[s \ {Some(s)}] => F[<<Some(s), v>>] \in R[s]
    BY DEF Stays
  <1>1. Closed(G)
    <2>1. <<{}, base>> \in G
      BY <1>0
    <2>2. ASSUME NEW s \in SUBSET S, NEW v \in W, s # {}, v \in R[s \ {Some(s)}],
                 <<s \ {Some(s)}, v>> \in G
          PROVE  <<s, F[<<Some(s), v>>]>> \in G
      <3>1. <<s, F[<<Some(s), v>>]>> \in All
        BY <1>0, <2>2
      <3> QED
        BY <2>2, <3>1
    <2> QED
      BY <2>1, <2>2
  <1>2. Single({})
    <2> SUFFICES ASSUME NEW u \in W, <<{}, u>> \in G, u # base PROVE FALSE
      BY <1>0, <1>1
    <2> DEFINE H == All \ {<<{}, u>>}
    <2>1. Closed(H)
      <3>1. ASSUME NEW s \in SUBSET S, NEW v \in W, s # {}, v \in R[s \ {Some(s)}]
            PROVE  <<s, F[<<Some(s), v>>]>> \in H
        BY <1>0, <3>1
      <3> QED
        BY <1>0, <3>1
    <2> QED
      BY <2>1
  <1>3. ASSUME NEW s \in SUBSET S, s # {}, Single(s \ {Some(s)}) PROVE Single(s)
    <2> DEFINE r == s \ {Some(s)}
    <2>1. PICK v \in R[r] : \A u \in W : <<r, u>> \in G <=> u = v
      BY <1>3
    <2>2. v \in W /\ r \in SUBSET S
      BY <1>0, <2>1
    <2> DEFINE next == F[<<Some(s), v>>]
    <2>3. next \in R[s] /\ next \in W
      BY <1>0, <1>3, <2>1, <2>2
    <2>4. <<s, next>> \in G
      <3>1. <<r, v>> \in G
        BY <2>1, <2>2
      <3> HIDE DEF G
      <3> QED
        BY <1>1, <1>3, <2>1, <2>2, <3>1
    <2>5. ASSUME NEW u \in W, u # next, <<s, u>> \in G PROVE FALSE
      <3> DEFINE H == G \ {<<s, u>>}
      <3>1. <<{}, base>> \in H
        BY <1>1, <1>3
      <3>2. ASSUME NEW q \in SUBSET S, NEW x \in W, q # {}, x \in R[q \ {Some(q)}],
                   <<q \ {Some(q)}, x>> \in H
            PROVE  <<q, F[<<Some(q), x>>]>> \in H
        <4>1. <<q, F[<<Some(q), x>>]>> \in G
          <5> HIDE DEF G
          <5> QED
            BY <1>1, <3>2
        <4>2. CASE q = s
          <5>1. x = v
            BY <2>1, <3>2, <4>2
          <5> QED
            BY <2>5, <4>1, <4>2, <5>1
        <4>3. CASE q # s
          BY <4>1, <4>3
        <4> QED
          BY <4>2, <4>3
      <3>3. Closed(H) /\ H \in SUBSET All
        <4> HIDE DEF H
        <4>1. Closed(H)
          BY <3>1, <3>2
        <4> QED
          BY <4>1 DEF H
      <3>4. <<s, u>> \in H
        <4> HIDE DEF H, Closed
        <4> QED
          BY <2>5, <3>3
      <3> QED
        BY <3>4
    <2> HIDE DEF G
    <2> QED
      BY <2>3, <2>4, <2>5
  <1> HIDE DEF G, Closed
  <1> DEFINE T == {s \in SUBSET S : Single(s)}
             g == [s \in SUBSET S |-> CHOOSE v \in R[s] : \A u \in W : <<s, u>> \in G <=> u = v]
  <1>4. SUBSET S \subseteq T
    <2>1. {} \in T
      BY <1>2
    <2>2. \A s \in SUBSET S : s # {} /\ s \ {Some(s)} \in T => s \in T
      BY <1>3
    <2> HIDE DEF T
    <2> QED
      BY <2>1, <2>2, SomeInduction
  <1>5. ASSUME NEW s \in SUBSET S
        PROVE  g[s] \in R[s] /\ \A u \in W : <<s, u>> \in G <=> u = g[s]
    <2>1. Single(s)
      BY <1>4
    <2> QED
      BY <2>1
  <1> HIDE DEF g
  <1>6. g \in [SUBSET S -> W]
    <2>1. g = [s \in SUBSET S |-> g[s]]
      BY DEF g
    <2> QED
      BY <1>0, <1>5, <2>1
  <1>7. ASSUME NEW s \in SUBSET S
        PROVE  g[s] = IF s = {} THEN base ELSE F[<<Some(s), g[s \ {Some(s)}]>>]
    <2>1. CASE s = {}
      BY <1>0, <1>1, <1>5, <2>1 DEF Closed
    <2>2. CASE s # {}
      <3> DEFINE r == s \ {Some(s)}
      <3>1. r \in SUBSET S /\ g[r] \in R[r] /\ <<r, g[r]>> \in G /\ g[r] \in W
        BY <1>5, <1>6
      <3>2. <<s, F[<<Some(s), g[r]>>]>> \in G
        BY <1>0, <1>1, <2>2, <3>1 DEF Closed
      <3>3. F[<<Some(s), g[r]>>] \in W
        BY <1>0, <2>2, <3>1
      <3> QED
        BY <1>5, <2>2, <3>2, <3>3
    <2> QED
      BY <2>1, <2>2
  <1> QED
    BY <1>5, <1>6, <1>7 DEF Folding

-----------------------------------------------------------------------------
(* Counting references. *)

LEMMA ListsCounted ==
  ASSUME NEW w, NEW c
  PROVE  /\ IsFiniteSet(Targeting(w, c)) /\ Cardinality(Targeting(w, c)) \in Nat
         /\ IsFiniteSet(Befriending(w, c)) /\ Cardinality(Befriending(w, c)) \in Nat
         /\ IsFiniteSet(Mastering(w, c)) /\ Cardinality(Mastering(w, c)) \in Nat
  <1>1. /\ Targeting(w, c) \subseteq Creatures /\ Befriending(w, c) \subseteq Creatures
        /\ Mastering(w, c) \subseteq Creatures
    BY DEF Targeting, Befriending, Mastering
  <1> QED
    BY <1>1, FiniteCreatures, FS_Subset, FS_CardinalityType

LEMMA OwnCounted ==
  ASSUME NEW w \in Worlds, NEW c \in Creatures
  PROVE  /\ Own(w[c]) \in Nat /\ Held(w, c) \in Nat /\ w[c].refs \in Nat /\ w[c].due \in Nat
         /\ Kept(w, c) => Own(w[c]) > 0
  BY ListsCounted DEF Own, One, Held, Worlds, Body, Kept

\* Whoever is in a list has a reference.
LEMMA ListedIsHeld ==
  ASSUME NEW w, NEW d \in Creatures, NEW c, c \in w[d].targets \cup w[d].friends \cup w[d].summons
  PROVE  Held(w, c) \in Nat /\ Held(w, c) > 0
  <1>1. d \in Targeting(w, c) \cup Befriending(w, c) \cup Mastering(w, c)
    BY DEF Targeting, Befriending, Mastering
  <1>2. \/ Cardinality(Targeting(w, c)) > 0 \/ Cardinality(Befriending(w, c)) > 0
        \/ Cardinality(Mastering(w, c)) > 0
    <2>1. ASSUME NEW S, IsFiniteSet(S), d \in S PROVE Cardinality(S) > 0
      <3>1. Cardinality(S) \in Nat /\ Cardinality(S) # 0
        BY <2>1, FS_CardinalityType, FS_EmptySet
      <3> QED
        BY <3>1
    <2> QED
      BY <1>1, <2>1, ListsCounted
  <1> QED
    BY <1>2, ListsCounted DEF Held

\* The creatures that are not objects are nobody's.
LEMMA ListedIsBorn ==
  ASSUME NEW w, Shape(w), NEW S, Owing(w, S) \/ Counted(w), NEW d \in Creatures,
         NEW c \in w[d].targets \cup w[d].friends \cup w[d].summons
  PROVE  c \in Creatures /\ w[c].body # "none" /\ w[c].refs > 0
  <1>1. c \in Creatures
    BY DEF Shape, Worlds, Body, Creatures
  <1>2. Held(w, c) > 0 /\ Held(w, c) \in Nat /\ Own(w[c]) \in Nat
    BY <1>1, ListedIsHeld, OwnCounted DEF Shape
  <1>3. w[c].refs > 0
    BY <1>1, <1>2 DEF Owing, Counted, One
  <1> QED
    BY <1>1, <1>3 DEF Shape, Unborn, Fresh

LEMMA KeptIsBorn ==
  ASSUME NEW w, Shape(w), NEW c \in Creatures, Kept(w, c)
  PROVE  w[c].body # "none"
  BY DEF Shape, Kept, Unborn, Fresh

\* Functions that change lists of monsters, the check list and its flag only.
Listing == {"targets", "friends", "listed", "check", "refs"}

LEMMA ListingIsTame ==
  ASSUME NEW w \in Worlds, NEW v \in Worlds, \A x \in Creatures : Same(v[x], w[x], Listing)
  PROVE  Tame(w, v)
  <1>1. \A x \in Creatures :
           /\ v[x].body = w[x].body /\ v[x].at = w[x].at /\ v[x].alive = w[x].alive
           /\ v[x].client = w[x].client /\ v[x].due = w[x].due /\ v[x].summons = w[x].summons
           /\ v[x].master = w[x].master /\ v[x].attacked = w[x].attacked
           /\ v[x].follow = w[x].follow
    BY DEF Same, Fields, Listing
  <1> QED
    BY <1>1 DEF Tame, Quiet, Eased, Aims, World

LEMMA ListingIsSound ==
  ASSUME NEW w, NEW v \in Worlds, NEW e, NEW P, Shape(w), Linked(w), Watch(w, e, P), Checked(w, e, P),
         \A x \in Creatures : Same(v[x], w[x], Listing),
         \A x \in Creatures : v[x].listed = w[x].listed /\ v[x].check = w[x].check,
         Shape(v)
  PROVE  Linked(v) /\ Watch(v, e, P) /\ Checked(v, e, P) /\ Tame(w, v)
  <1>1. Tame(w, v) /\ w \in Worlds
    BY ListingIsTame DEF Shape
  <1>2. Linked(v) /\ Watch(v, e, P)
    BY <1>1, QuietLinked, TameWatch DEF Tame
  <1>3. Checked(v, e, P)
    BY DEF Checked, Same, Fields, Listing
  <1> QED
    BY <1>1, <1>2, <1>3

LEMMA AddTargetGood ==
  ASSUME NEW w, NEW e, NEW P, Good(w, e, P), NEW m \in Monsters, NEW c \in Creatures,
         w[m].body # "none", w[c].body # "none"
  PROVE  Good(AddTarget(w, m, c), e, P) /\ Tame(w, AddTarget(w, m, c))
  <1>0. m \in Creatures /\ m \notin Players /\ w \in Worlds
    BY KindAssumption DEF Creatures, Good, Sound, Shape
  <1>1. CASE c \in w[m].targets
    BY <1>1, QuietAlone DEF AddTarget
  <1>2. CASE c \notin w[m].targets
    <2> DEFINE v == AddTarget(w, m, c)
    <2>1. v \in Worlds /\ \A x \in Creatures : Same(v[x], w[x], {"targets", "refs"})
      <3>1. v \in Worlds
        BY <1>0, <1>2 DEF AddTarget, Worlds, Body
      <3>2. ASSUME NEW x \in Creatures PROVE Same(v[x], w[x], {"targets", "refs"})
        BY <1>0, <1>2 DEF AddTarget, Worlds, Body, Same, Fields
      <3> QED
        BY <3>1, <3>2
    <2>2. \A x \in Creatures : v[x].targets = IF x = m THEN w[m].targets \cup {c} ELSE w[x].targets
      <3> SUFFICES ASSUME NEW x \in Creatures
                   PROVE  v[x].targets = IF x = m THEN w[m].targets \cup {c} ELSE w[x].targets
        OBVIOUS
      <3>1. w[x] \in Body /\ w[m] \in Body /\ w[c] \in Body /\ DOMAIN w = Creatures
        BY <1>0 DEF Worlds
      <3>2. CASE x = c /\ x = m
        BY <1>2, <3>1, <3>2 DEF AddTarget, Body
      <3>3. CASE x # c /\ x = m
        BY <1>2, <3>1, <3>3 DEF AddTarget, Body
      <3>4. CASE x = c /\ x # m
        BY <1>2, <3>1, <3>4 DEF AddTarget, Body
      <3>5. CASE x # c /\ x # m
        BY <1>2, <3>1, <3>5 DEF AddTarget, Body
      <3> QED
        BY <3>2, <3>3, <3>4, <3>5
    <2>3. \A x \in Creatures : v[x].refs = IF x = c THEN w[c].refs + 1 ELSE w[x].refs
      BY <1>0, <1>2 DEF AddTarget, Worlds, Body
    <2> HIDE DEF v
    <2>4. \A x \in Creatures : Own(v[x]) = Own(w[x]) /\ v[x].friends = w[x].friends
                               /\ v[x].summons = w[x].summons /\ v[x].body = w[x].body
                               /\ v[x].listed = w[x].listed /\ v[x].check = w[x].check
      BY <2>1 DEF Own, Same, Fields
    <2>5. Shape(v)
      <3>1. \A x \in Creatures : v[x].body = "none" => v[x] = w[x]
        BY <1>0, <1>2, <2>4 DEF v, AddTarget, Worlds, Body
      <3> QED
        BY <1>0, <2>1, <2>2, <2>4, <3>1 DEF Good, Sound, Shape, Creatures
    <2>6. Linked(v) /\ Watch(v, e, P) /\ Checked(v, e, P) /\ Tame(w, v)
      <3>1. \A x \in Creatures : Same(v[x], w[x], Listing)
        BY <2>1 DEF Same, Listing
      <3> QED
        BY <2>1, <2>4, <2>5, <3>1, ListingIsSound DEF Good, Sound
    <2>7. ASSUME NEW x \in Creatures
          PROVE  v[x].refs = Own(v[x]) + Held(v, x) /\ (v[x].body # "none" => v[x].refs # 0)
      <3>1. Befriending(v, x) = Befriending(w, x) /\ Mastering(v, x) = Mastering(w, x)
        BY <2>4 DEF Befriending, Mastering
      <3>2. Targeting(v, x) = IF x = c THEN Targeting(w, x) \cup {m} ELSE Targeting(w, x)
        BY <1>0, <2>2 DEF Targeting
      <3>3. x = c => m \notin Targeting(w, x)
        BY <1>2 DEF Targeting
      <3>4. Cardinality(Targeting(v, x)) = Cardinality(Targeting(w, x)) + One(x = c)
        <4>1. CASE x = c
          <5>1. Cardinality(Targeting(w, x) \cup {m}) = Cardinality(Targeting(w, x)) + 1
            BY <3>3, <4>1, FS_AddElement, ListsCounted
          <5> QED
            BY <3>2, <4>1, <5>1 DEF One
        <4>2. CASE x # c
          BY <3>2, <4>2, ListsCounted DEF One
        <4> QED
          BY <4>1, <4>2
      <3>5. Held(v, x) = Held(w, x) + One(x = c)
        BY <3>1, <3>4, ListsCounted DEF Held, One
      <3>6. w[x].refs = Own(w[x]) + Held(w, x) /\ (w[x].body # "none" => w[x].refs # 0)
        BY DEF Good, Sound, Counted, Unheld
      <3> QED
        BY <1>0, <2>3, <2>4, <3>5, <3>6, OwnCounted DEF One
    <2> QED
      BY <2>5, <2>6, <2>7 DEF v, Good, Sound, Counted, Unheld
  <1> QED
    BY <1>1, <1>2

LEMMA AddFriendGood ==
  ASSUME NEW w, NEW e, NEW P, Good(w, e, P), NEW m \in Monsters, NEW c \in Creatures,
         w[m].body # "none", w[c].body # "none"
  PROVE  Good(AddFriend(w, m, c), e, P) /\ Tame(w, AddFriend(w, m, c))
  <1>0. m \in Creatures /\ m \notin Players /\ w \in Worlds
    BY KindAssumption DEF Creatures, Good, Sound, Shape
  <1>1. CASE c \in w[m].friends
    BY <1>1, QuietAlone DEF AddFriend
  <1>2. CASE c \notin w[m].friends
    <2> DEFINE v == AddFriend(w, m, c)
    <2>1. v \in Worlds /\ \A x \in Creatures : Same(v[x], w[x], {"friends", "refs"})
      <3>1. v \in Worlds
        BY <1>0, <1>2 DEF AddFriend, Worlds, Body
      <3>2. ASSUME NEW x \in Creatures PROVE Same(v[x], w[x], {"friends", "refs"})
        BY <1>0, <1>2 DEF AddFriend, Worlds, Body, Same, Fields
      <3> QED
        BY <3>1, <3>2
    <2>2. \A x \in Creatures : v[x].friends = IF x = m THEN w[m].friends \cup {c} ELSE w[x].friends
      <3> SUFFICES ASSUME NEW x \in Creatures
                   PROVE  v[x].friends = IF x = m THEN w[m].friends \cup {c} ELSE w[x].friends
        OBVIOUS
      <3>1. w[x] \in Body /\ w[m] \in Body /\ w[c] \in Body /\ DOMAIN w = Creatures
        BY <1>0 DEF Worlds
      <3>2. CASE x = c /\ x = m
        BY <1>2, <3>1, <3>2 DEF AddFriend, Body
      <3>3. CASE x # c /\ x = m
        BY <1>2, <3>1, <3>3 DEF AddFriend, Body
      <3>4. CASE x = c /\ x # m
        BY <1>2, <3>1, <3>4 DEF AddFriend, Body
      <3>5. CASE x # c /\ x # m
        BY <1>2, <3>1, <3>5 DEF AddFriend, Body
      <3> QED
        BY <3>2, <3>3, <3>4, <3>5
    <2>3. \A x \in Creatures : v[x].refs = IF x = c THEN w[c].refs + 1 ELSE w[x].refs
      BY <1>0, <1>2 DEF AddFriend, Worlds, Body
    <2> HIDE DEF v
    <2>4. \A x \in Creatures : Own(v[x]) = Own(w[x]) /\ v[x].targets = w[x].targets
                               /\ v[x].summons = w[x].summons /\ v[x].body = w[x].body
                               /\ v[x].listed = w[x].listed /\ v[x].check = w[x].check
      BY <2>1 DEF Own, Same, Fields
    <2>5. Shape(v)
      <3>1. \A x \in Creatures : v[x].body = "none" => v[x] = w[x]
        BY <1>0, <1>2, <2>4 DEF v, AddFriend, Worlds, Body
      <3> QED
        BY <1>0, <2>1, <2>2, <2>4, <3>1 DEF Good, Sound, Shape, Creatures
    <2>6. Linked(v) /\ Watch(v, e, P) /\ Checked(v, e, P) /\ Tame(w, v)
      <3>1. \A x \in Creatures : Same(v[x], w[x], Listing)
        BY <2>1 DEF Same, Listing
      <3> QED
        BY <2>1, <2>4, <2>5, <3>1, ListingIsSound DEF Good, Sound
    <2>7. ASSUME NEW x \in Creatures
          PROVE  v[x].refs = Own(v[x]) + Held(v, x) /\ (v[x].body # "none" => v[x].refs # 0)
      <3>1. Targeting(v, x) = Targeting(w, x) /\ Mastering(v, x) = Mastering(w, x)
        BY <2>4 DEF Targeting, Mastering
      <3>2. Befriending(v, x) = IF x = c THEN Befriending(w, x) \cup {m} ELSE Befriending(w, x)
        BY <1>0, <2>2 DEF Befriending
      <3>3. x = c => m \notin Befriending(w, x)
        BY <1>2 DEF Befriending
      <3>4. Cardinality(Befriending(v, x)) = Cardinality(Befriending(w, x)) + One(x = c)
        <4>1. CASE x = c
          <5>1. Cardinality(Befriending(w, x) \cup {m}) = Cardinality(Befriending(w, x)) + 1
            BY <3>3, <4>1, FS_AddElement, ListsCounted
          <5> QED
            BY <3>2, <4>1, <5>1 DEF One
        <4>2. CASE x # c
          BY <3>2, <4>2, ListsCounted DEF One
        <4> QED
          BY <4>1, <4>2
      <3>5. Held(v, x) = Held(w, x) + One(x = c)
        BY <3>1, <3>4, ListsCounted DEF Held, One
      <3>6. w[x].refs = Own(w[x]) + Held(w, x) /\ (w[x].body # "none" => w[x].refs # 0)
        BY DEF Good, Sound, Counted, Unheld
      <3> QED
        BY <1>0, <2>3, <2>4, <3>5, <3>6, OwnCounted DEF One
    <2> QED
      BY <2>5, <2>6, <2>7 DEF v, Good, Sound, Counted, Unheld
  <1> QED
    BY <1>1, <1>2

-----------------------------------------------------------------------------
(* Deletion. *)

\* One creature gets another body.
Given(w, c, b) == [w EXCEPT ![c] = b]

LEMMA BodyGiven ==
  ASSUME NEW w \in Worlds, NEW c \in Creatures, NEW b \in Body
  PROVE  /\ Given(w, c, b) \in Worlds /\ Given(w, c, b)[c] = b
         /\ \A x \in Creatures : x # c => Given(w, c, b)[x] = w[x]
  BY DEF Given, Worlds

\* v is w but for the body of c, of which only the fields in F may differ.
OneDiffers(w, v, c, F) ==
    /\ v \in Worlds /\ v[c] \in Body /\ Same(v[c], w[c], F)
    /\ \A x \in Creatures : x # c => v[x] = w[x]

LEMMA GivenDiffers ==
  ASSUME NEW w \in Worlds, NEW c \in Creatures, NEW b \in Body, NEW F, Same(b, w[c], F)
  PROVE  OneDiffers(w, Given(w, c, b), c, F)
  BY BodyGiven DEF OneDiffers

LEMMA UncheckedDiffers ==
  ASSUME NEW w \in Worlds, NEW c \in Creatures
  PROVE  /\ OneDiffers(w, RemoveCheck(w, c), c, {"check"})
         /\ w[c].listed => ~RemoveCheck(w, c)[c].check
  <1>1. w[c] \in Body
    BY DEF Worlds
  <1>2. CASE w[c].listed
    <2>1. PICK b \in Body : b = [w[c] EXCEPT !.check = FALSE]
      BY <1>1 DEF Body
    <2>2. Same(b, w[c], {"check"}) /\ ~b.check
      BY <1>1, <2>1 DEF Same, Fields, Body
    <2>3. RemoveCheck(w, c) = Given(w, c, b)
      BY <1>2, <2>1 DEF RemoveCheck, Given
    <2> QED
      BY <2>2, <2>3, BodyGiven, GivenDiffers
  <1>3. CASE ~w[c].listed
    BY <1>1, <1>3 DEF RemoveCheck, OneDiffers, Same
  <1> QED
    BY <1>2, <1>3

LEMMA ReleaseDiffers ==
  ASSUME NEW w \in Worlds, NEW c \in Creatures
  PROVE  OneDiffers(w, Release(w, c), c, {"due"}) /\ Release(w, c)[c].due = w[c].due + 1
  <1>1. w[c] \in Body /\ w[c].due + 1 \in Nat
    BY DEF Worlds, Body
  <1>2. PICK n \in Nat : n = w[c].due + 1
    BY <1>1
  <1>3. PICK b \in Body : b = [w[c] EXCEPT !.due = n]
    BY <1>1 DEF Body
  <1>4. Same(b, w[c], {"due"}) /\ b.due = n
    BY <1>1, <1>3 DEF Same, Fields, Body
  <1>5. Release(w, c) = Given(w, c, b)
    BY <1>2, <1>3 DEF Release, Given
  <1> QED
    BY <1>2, <1>4, <1>5, BodyGiven, GivenDiffers

\* Game::removeCreature: c leaves the world, his target and whom he follows with it.
TakenOut(w, c) == [w EXCEPT ![c].body = "removed", ![c].attacked = Null, ![c].follow = Null]

\* A body is still one when it moves between worlds and lets go of others.
LEMMA BodyMoved ==
  ASSUME NEW b \in Body, NEW s \in {"none", "world", "removed"},
         NEW a \in Creatures \cup {Null}, NEW f \in Creatures \cup {Null}
  PROVE  [b EXCEPT !.body = s, !.attacked = a, !.follow = f] \in Body
  BY DEF Body

LEMMA TakenOutDiffers ==
  ASSUME NEW w \in Worlds, NEW c \in Creatures
  PROVE  /\ OneDiffers(w, TakenOut(w, c), c, {"body", "attacked", "follow"})
         /\ TakenOut(w, c)[c].body = "removed"
  <1>1. w[c] \in Body /\ DOMAIN w = Creatures
    BY DEF Worlds
  <1>2. PICK b \in Body : b = [w[c] EXCEPT !.body = "removed", !.attacked = Null, !.follow = Null]
    <2>1. "removed" \in {"none", "world", "removed"} /\ Null \in Creatures \cup {Null}
      OBVIOUS
    <2> QED
      BY <1>1, <2>1, BodyMoved
  <1>3. Same(b, w[c], {"body", "attacked", "follow"}) /\ b.body = "removed"
    BY <1>1, <1>2 DEF Same, Fields, Body
  <1>4. TakenOut(w, c) = Given(w, c, b)
    BY <1>1, <1>2 DEF TakenOut, Given
  <1> QED
    BY <1>3, <1>4, BodyGiven, GivenDiffers

\* c gets another master, or none; p loses his client.
Mastered(w, c, m) == [w EXCEPT ![c].master = m]
Unclienting(w, p) == [w EXCEPT ![p].client = FALSE]

LEMMA MasteredWorld ==
  ASSUME NEW w \in Worlds, NEW c \in Creatures, NEW m \in Creatures \cup {Null}
  PROVE  Mastered(w, c, m) \in Worlds
  <1>0. w[c] \in Body
    BY DEF Worlds
  <1>1. PICK b \in Body : b = [w[c] EXCEPT !.master = m]
    BY <1>0 DEF Body
  <1>2. Mastered(w, c, m) = Given(w, c, b)
    BY <1>1 DEF Mastered, Given
  <1> QED
    BY <1>2, BodyGiven

LEMMA ClientlessWorld ==
  ASSUME NEW w \in Worlds, NEW p \in Creatures
  PROVE  Unclienting(w, p) \in Worlds
  <1>0. w[p] \in Body
    BY DEF Worlds
  <1>1. PICK b \in Body : b = [w[p] EXCEPT !.client = FALSE]
    BY <1>0 DEF Body
  <1>2. Unclienting(w, p) = Given(w, p, b)
    BY <1>1 DEF Unclienting, Given
  <1> QED
    BY <1>2, BodyGiven

\* What a deletion changes in a body.
Bereaved(b, r, m, a) == [b EXCEPT !.refs = r, !.master = m, !.attacked = a]

LEMMA BodyBereft ==
  ASSUME NEW b \in Body, NEW r \in Nat, NEW m \in Creatures \cup {Null},
         NEW a \in Creatures \cup {Null}
  PROVE  /\ Bereaved(b, r, m, a) \in Body /\ Bereaved(b, r, m, a).refs = r
         /\ Bereaved(b, r, m, a).master = m /\ Bereaved(b, r, m, a).attacked = a
         /\ Same(Bereaved(b, r, m, a), b, {"refs", "master", "attacked"})
  <1>1. Bereaved(b, r, m, a) \in Body
    BY DEF Bereaved, Body
  <1>2. Bereaved(b, r, m, a).refs = r /\ Bereaved(b, r, m, a).master = m /\ Bereaved(b, r, m, a).attacked = a
    BY DEF Bereaved, Body
  <1>3. Same(Bereaved(b, r, m, a), b, {"refs", "master", "attacked"})
    BY DEF Bereaved, Body, Same, Fields
  <1> QED
    BY <1>1, <1>2, <1>3

\* Who loses his master loses the reference of the master's list.
Unmastered(b) == [b EXCEPT !.master = Null]
Fewer(b) == [b EXCEPT !.refs = @ - 1]

LEMMA UnmasteredIs == ASSUME NEW b \in Body PROVE Unmastered(b) \in Body
  BY DEF Unmastered, Body

LEMMA BodyFreed ==
  ASSUME NEW b \in Body
  PROVE  Fewer(Unmastered(b)) = [b EXCEPT !.master = Null, !.refs = b.refs - 1]
  BY DEF Body, Fewer, Unmastered

\* A body that is given what it has.
LEMMA BodyAgain ==
  ASSUME NEW b \in Body, b.refs = 0, b.master = Null, b.attacked = Null
  PROVE  [b EXCEPT !.refs = 0, !.master = Null, !.attacked = Null] = b
  BY DEF Body

LEMMA UnbornIs ==
  /\ Unborn \in Body /\ Unborn.targets = {} /\ Unborn.friends = {} /\ Unborn.summons = {}
  /\ Unborn.body = "none" /\ Unborn.at = Null /\ Unborn.refs = 0 /\ Own(Unborn) = 0
  /\ Unborn.master = Null /\ Unborn.attacked = Null /\ Unborn.follow = Null
  /\ ~Unborn.check /\ ~Unborn.listed
  BY DEF Unborn, Fresh, Body, Own, One

LEMMA DestroySound ==
  ASSUME NEW w, NEW e, NEW P, Sound(w, e, P), NEW v, v = Destroy(w, Unheld(w))
  PROVE  /\ Sound(v, e, P) /\ Tame(w, v)
         /\ \A x \in Creatures : v[x].body = "none" <=> w[x].body = "none" \/ x \in Unheld(w)
  <1> DEFINE dead == Unheld(w)
  <1>1. w \in Worlds /\ dead \subseteq Creatures
    BY DEF Sound, Shape, Unheld
  <1>2. ASSUME NEW d \in dead
        PROVE  /\ Held(w, d) = 0 /\ w[d].body = "removed" /\ ~w[d].listed /\ ~w[d].client
               /\ w[d].due = 0
    <2>1. Own(w[d]) = 0 /\ Held(w, d) = 0
      BY <1>1, OwnCounted DEF Sound, Counted, Unheld
    <2>2. w[d] \in Body /\ w[d].body # "none"
      BY <1>1 DEF Worlds, Unheld
    <2> QED
      BY <2>1, <2>2 DEF Own, One, Body
  <1>3. ASSUME NEW d \in dead, NEW x \in Creatures
        PROVE  d \notin w[x].targets /\ d \notin w[x].friends /\ d \notin w[x].summons
    BY <1>2, ListedIsHeld
  <1>4. \A x \in Creatures : Frees(w, dead, x) => w[x].body # "world"
    <2> SUFFICES ASSUME NEW d \in dead, NEW x \in w[d].summons, w[x].body = "world" PROVE FALSE
      BY DEF Frees
    <2>1. x \in Creatures /\ d \in Creatures
      BY <1>1 DEF Worlds, Body, Creatures
    <2>2. x \in World(w) /\ w[x].master = d /\ d # Null
      BY <2>1, FiniteCreatures DEF Sound, Linked, World
    <2>3. Kept(w, d)
      BY <2>2 DEF Sound, Linked
    <2> QED
      BY <1>1, <1>2, <2>3 DEF Kept
  <1> DEFINE byTargets(x) == {d \in dead : x \in w[d].targets}
             byFriends(x) == {d \in dead : x \in w[d].friends}
             bySummons(x) == {d \in dead : x \in w[d].summons}
  <1>5. ASSUME NEW x \in Creatures
        PROVE  /\ HeldBy(w, dead, x) \in Nat /\ HeldBy(w, dead, x) <= Held(w, x)
               /\ Cardinality(Targeting(w, x) \ byTargets(x)) + Cardinality(Befriending(w, x) \ byFriends(x))
                    + Cardinality(Mastering(w, x) \ bySummons(x)) = Held(w, x) - HeldBy(w, dead, x)
    <2>1. /\ byTargets(x) \in SUBSET Targeting(w, x) /\ byFriends(x) \in SUBSET Befriending(w, x)
          /\ bySummons(x) \in SUBSET Mastering(w, x)
      BY <1>1 DEF Targeting, Befriending, Mastering
    <2>2. ASSUME NEW S, IsFiniteSet(S), NEW T \in SUBSET S
          PROVE  /\ Cardinality(T) \in Nat /\ Cardinality(S) \in Nat /\ Cardinality(T) <= Cardinality(S)
                 /\ Cardinality(S \ T) = Cardinality(S) - Cardinality(T)
      <3>1. S \cap T = T
        OBVIOUS
      <3>2. Cardinality(S \ T) = Cardinality(S) - Cardinality(S \cap T)
        BY <2>2, FS_Difference
      <3> QED
        BY <2>2, <3>1, <3>2, FS_Subset, FS_CardinalityType
    <2> HIDE DEF byTargets, byFriends, bySummons, dead
    <2>3. HeldBy(w, dead, x) = Cardinality(byTargets(x)) + Cardinality(byFriends(x)) + Cardinality(bySummons(x))
      BY DEF HeldBy, byTargets, byFriends, bySummons
    <2>4. IsFiniteSet(Targeting(w, x)) /\ IsFiniteSet(Befriending(w, x)) /\ IsFiniteSet(Mastering(w, x))
      BY ListsCounted
    <2>5. /\ Cardinality(byTargets(x)) \in Nat /\ Cardinality(byTargets(x)) <= Cardinality(Targeting(w, x))
          /\ Cardinality(Targeting(w, x) \ byTargets(x))
               = Cardinality(Targeting(w, x)) - Cardinality(byTargets(x))
          /\ Cardinality(Targeting(w, x)) \in Nat
      BY <2>1, <2>2, <2>4
    <2>6. /\ Cardinality(byFriends(x)) \in Nat /\ Cardinality(byFriends(x)) <= Cardinality(Befriending(w, x))
          /\ Cardinality(Befriending(w, x) \ byFriends(x))
               = Cardinality(Befriending(w, x)) - Cardinality(byFriends(x))
          /\ Cardinality(Befriending(w, x)) \in Nat
      BY <2>1, <2>2, <2>4
    <2>7. /\ Cardinality(bySummons(x)) \in Nat /\ Cardinality(bySummons(x)) <= Cardinality(Mastering(w, x))
          /\ Cardinality(Mastering(w, x) \ bySummons(x))
               = Cardinality(Mastering(w, x)) - Cardinality(bySummons(x))
          /\ Cardinality(Mastering(w, x)) \in Nat
      BY <2>1, <2>2, <2>4
    <2> QED
      BY <2>3, <2>5, <2>6, <2>7 DEF Held
  <1> HIDE DEF byTargets, byFriends, bySummons
  <1>51. \A x \in Creatures : HeldBy(w, dead, x) \in Nat /\ HeldBy(w, dead, x) <= Held(w, x)
    BY <1>5
  <1>6. ASSUME NEW x \in Creatures
        PROVE  v[x] = IF x \in dead THEN Unborn
                      ELSE [w[x] EXCEPT !.refs = @ - HeldBy(w, dead, x),
                                        !.master = IF Frees(w, dead, x) THEN Null ELSE @,
                                        !.attacked = IF Frees(w, dead, x) THEN Null ELSE @]
    BY DEF Destroy
  <1>7. DOMAIN v = Creatures /\ v = [x \in Creatures |-> v[x]]
    BY DEF Destroy
  <1> HIDE DEF dead
  <1>8. ASSUME NEW x \in Creatures, x \notin dead
        PROVE  /\ Same(v[x], w[x], {"refs", "master", "attacked"}) /\ v[x] \in Body
               /\ v[x].refs = w[x].refs - HeldBy(w, dead, x)
               /\ v[x].master = IF Frees(w, dead, x) THEN Null ELSE w[x].master
               /\ v[x].attacked = IF Frees(w, dead, x) THEN Null ELSE w[x].attacked
    <2>1. w[x] \in Body
      BY <1>1 DEF Worlds
    <2>2. w[x].refs = Own(w[x]) + Held(w, x) /\ Own(w[x]) \in Nat /\ Held(w, x) \in Nat
      BY <1>1, OwnCounted DEF Sound, Counted
    <2>3. w[x].refs - HeldBy(w, dead, x) \in Nat
      <3> HIDE DEF dead
      <3> QED
        BY <1>51, <2>2
    <2>4. PICK r \in Nat : r = w[x].refs - HeldBy(w, dead, x)
      BY <2>3
    <2>5. PICK m \in Creatures \cup {Null} : m = IF Frees(w, dead, x) THEN Null ELSE w[x].master
      BY <2>1 DEF Body
    <2>6. PICK a \in Creatures \cup {Null} : a = IF Frees(w, dead, x) THEN Null ELSE w[x].attacked
      BY <2>1 DEF Body
    <2>7. v[x] = Bereaved(w[x], r, m, a)
      BY <1>6, <1>8, <2>4, <2>5, <2>6 DEF Bereaved
    <2>8. /\ v[x] \in Body /\ v[x].refs = r /\ v[x].master = m /\ v[x].attacked = a
          /\ Same(v[x], w[x], {"refs", "master", "attacked"})
      <3>1. /\ Bereaved(w[x], r, m, a) \in Body /\ Bereaved(w[x], r, m, a).refs = r
            /\ Bereaved(w[x], r, m, a).master = m /\ Bereaved(w[x], r, m, a).attacked = a
            /\ Same(Bereaved(w[x], r, m, a), w[x], {"refs", "master", "attacked"})
        BY <2>1, BodyBereft
      <3> QED
        BY <2>7, <3>1
    <2> QED
      BY <2>4, <2>5, <2>6, <2>8
  <1>9. ASSUME NEW x \in dead
        PROVE  v[x] = Unborn /\ v[x] \in Body /\ v[x].targets = {} /\ v[x].friends = {}
               /\ v[x].summons = {} /\ v[x].body = "none" /\ v[x].refs = 0 /\ Own(v[x]) = 0
               /\ ~v[x].check
    BY <1>1, <1>6, UnbornIs
  <1>10. v \in Worlds
    BY <1>7, <1>8, <1>9 DEF Worlds
  <1>11. \A x \in Creatures \ dead :
            /\ v[x].body = w[x].body /\ v[x].at = w[x].at /\ v[x].alive = w[x].alive
            /\ v[x].client = w[x].client /\ v[x].due = w[x].due /\ v[x].summons = w[x].summons
            /\ v[x].targets = w[x].targets /\ v[x].friends = w[x].friends
            /\ v[x].follow = w[x].follow /\ v[x].listed = w[x].listed /\ v[x].check = w[x].check
            /\ Own(v[x]) = Own(w[x])
    BY <1>8 DEF Same, Fields, Own
  <1>12. Tame(w, v)
    <2>1. \A x \in Creatures : Kept(w, x) => x \notin dead
      BY <1>1, <1>2 DEF Kept
    <2>2. Quiet(w, v)
      <3> SUFFICES ASSUME NEW c \in Creatures
                   PROVE  /\ (v[c].body = w[c].body /\ v[c].at = w[c].at) \/ v[c].body = "none"
                          /\ v[c].summons \subseteq w[c].summons
                          /\ Kept(w, c) =>
                                /\ v[c].body = w[c].body /\ v[c].at = w[c].at /\ v[c].alive = w[c].alive
                                /\ v[c].client = w[c].client /\ v[c].due = w[c].due
                                /\ v[c].summons = w[c].summons
                          /\ w[c].body = "world" => v[c].master = w[c].master
        BY DEF Quiet
      <3>1. CASE c \in dead
        BY <1>2, <1>9, <2>1, <3>1
      <3>2. CASE c \notin dead
        BY <1>4, <1>8, <1>11, <3>2
      <3> QED
        BY <3>1, <3>2
    <2>3. \A x \in World(w) : Aims(v, x) = Aims(w, x) /\ v[x].attacked = w[x].attacked
      <3> SUFFICES ASSUME NEW x \in World(w)
                   PROVE  Aims(v, x) = Aims(w, x) /\ v[x].attacked = w[x].attacked
        OBVIOUS
      <3>1. x \in Creatures /\ x \notin dead /\ ~Frees(w, dead, x)
        BY <1>4, <2>1 DEF World, Kept
      <3> QED
        BY <1>8, <1>11, <3>1 DEF Aims
    <2> QED
      BY <2>2, <2>3 DEF Tame, Eased
  <1>13. Counted(v)
    <2> SUFFICES ASSUME NEW x \in Creatures PROVE v[x].refs = Own(v[x]) + Held(v, x)
      BY DEF Counted
    <2>0. HeldBy(w, dead, x) \in Nat /\ HeldBy(w, dead, x) <= Held(w, x)
      BY <1>51
    <2>1. /\ Targeting(v, x) = Targeting(w, x) \ byTargets(x)
          /\ Befriending(v, x) = Befriending(w, x) \ byFriends(x)
          /\ Mastering(v, x) = Mastering(w, x) \ bySummons(x)
      <3>1. \A y \in Creatures : /\ x \in v[y].targets <=> x \in w[y].targets /\ y \notin dead
                                 /\ x \in v[y].friends <=> x \in w[y].friends /\ y \notin dead
                                 /\ x \in v[y].summons <=> x \in w[y].summons /\ y \notin dead
        BY <1>9, <1>11
      <3> QED
        BY <3>1 DEF Targeting, Befriending, Mastering, byTargets, byFriends, bySummons
    <2>2. Held(v, x) = Held(w, x) - HeldBy(w, dead, x)
      BY <1>5, <2>1 DEF Held
    <2>3. w[x].refs = Own(w[x]) + Held(w, x) /\ Own(w[x]) \in Nat /\ Held(w, x) \in Nat
      BY <1>1, OwnCounted DEF Sound, Counted
    <2>4. CASE x \in dead
      <3>1. Held(w, x) = 0
        BY <1>2, <2>4
      <3> QED
        BY <1>9, <2>0, <2>2, <2>4, <3>1
    <2>5. CASE x \notin dead
      BY <2>0, <1>8, <1>11, <2>2, <2>3, <2>5
    <2> QED
      BY <2>4, <2>5
  <1>14. Shape(v)
    <2>1. ASSUME NEW p \in Players PROVE v[p].targets = {} /\ v[p].friends = {}
      BY <1>9, <1>11 DEF Sound, Shape, Creatures
    <2>2. ASSUME NEW c \in Creatures, v[c].body = "none" PROVE v[c] = Unborn
      <3>1. CASE c \in dead
        BY <1>9, <3>1
      <3>2. CASE c \notin dead
        <4>1. w[c] = Unborn /\ w[c].refs = 0
          BY <1>11, <2>2, <3>2, UnbornIs DEF Sound, Shape
        <4>2. HeldBy(w, dead, c) = 0
          BY <1>1, <1>51, <4>1, OwnCounted DEF Sound, Counted
        <4>3. v[c] = [Unborn EXCEPT !.refs = @ - 0,
                                    !.master = IF Frees(w, dead, c) THEN Null ELSE @,
                                    !.attacked = IF Frees(w, dead, c) THEN Null ELSE @]
          BY <1>6, <3>2, <4>1, <4>2
        <4>4. v[c] = [Unborn EXCEPT !.refs = 0, !.master = Null, !.attacked = Null]
          BY <4>3, UnbornIs
        <4> QED
          BY <4>4, UnbornIs, BodyAgain
      <3> QED
        BY <3>1, <3>2
    <2> QED
      BY <1>10, <2>1, <2>2 DEF Shape
  <1>15. Linked(v) /\ Watch(v, e, P)
    BY <1>1, <1>10, <1>12, <1>14, QuietLinked, TameWatch DEF Sound, Tame
  <1>16. Checked(v, e, P)
    BY <1>9, <1>11 DEF Sound, Checked
  <1>17. \A x \in Creatures : v[x].body = "none" <=> w[x].body = "none" \/ x \in dead
    BY <1>9, <1>11
  <1> QED
    BY <1>12, <1>13, <1>14, <1>15, <1>16, <1>17 DEF Sound, dead

LEMMA DestroyNobody == ASSUME NEW w \in Worlds PROVE Destroy(w, {}) = w
  <1>1. ASSUME NEW x \in Creatures
        PROVE  [w[x] EXCEPT !.refs = @ - HeldBy(w, {}, x),
                            !.master = IF Frees(w, {}, x) THEN Null ELSE @,
                            !.attacked = IF Frees(w, {}, x) THEN Null ELSE @] = w[x]
    <2>1. HeldBy(w, {}, x) = 0
      <3>1. /\ {d \in {} : x \in w[d].targets} = {} /\ {d \in {} : x \in w[d].friends} = {}
            /\ {d \in {} : x \in w[d].summons} = {} /\ Cardinality({}) = 0
        BY FS_EmptySet
      <3> QED
        BY <3>1 DEF HeldBy
    <2>2. ~Frees(w, {}, x)
      BY DEF Frees
    <2>3. w[x] \in Body /\ w[x].refs - 0 = w[x].refs
      BY DEF Worlds, Body
    <2>4. [w[x] EXCEPT !.refs = w[x].refs, !.master = w[x].master, !.attacked = w[x].attacked] = w[x]
      BY <2>3 DEF Body
    <2> QED
      BY <2>1, <2>2, <2>3, <2>4
  <1>2. Destroy(w, {}) = [x \in Creatures |-> w[x]]
    BY <1>1 DEF Destroy
  <1> QED
    BY <1>2 DEF Worlds

Born(w) == {c \in Creatures : w[c].body # "none"}

\* As many rounds as there are creatures are enough to delete everybody without a
\* reference.
LEMMA ReapGood ==
  ASSUME NEW w, NEW e, NEW P, Sound(w, e, P)
  PROVE  Good(Reap(w), e, P) /\ Tame(w, Reap(w))
  <1> DEFINE N == Cardinality(Creatures)
             S == 1 .. N
             Enough(u, s) == Unheld(u) = {} \/ Cardinality(Born(u)) + Cardinality(s) <= N
             R == [s \in SUBSET S |-> {u \in Worlds : Sound(u, e, P) /\ Tame(w, u) /\ Enough(u, s)}]
             F == [p \in S \X Worlds |-> Destroy(p[2], Unheld(p[2]))]
  <1>1. N \in Nat /\ IsFiniteSet(S) /\ Cardinality(S) = N
    BY FiniteCreatures, FS_CardinalityType, FS_Interval
  <1>2. \A u : IsFiniteSet(Born(u)) /\ Cardinality(Born(u)) \in Nat /\ Cardinality(Born(u)) <= N
    <2>1. \A u : Born(u) \in SUBSET Creatures
      BY DEF Born
    <2> QED
      BY <2>1, FiniteCreatures, FS_Subset, FS_CardinalityType
  <1>3. w \in R[{}]
    <2>1. Cardinality({}) = 0
      BY FS_EmptySet
    <2> QED
      BY <1>1, <1>2, <2>1, QuietAlone DEF Sound, Shape
  <1>4. ASSUME NEW s \in SUBSET S, NEW u \in Worlds, s # {}, u \in R[s \ {Some(s)}]
        PROVE  Destroy(u, Unheld(u)) \in R[s]
    <2> DEFINE v == Destroy(u, Unheld(u))
    <2>1. Sound(u, e, P) /\ Tame(w, u) /\ Enough(u, s \ {Some(s)})
      BY <1>4
    <2>2. /\ Sound(v, e, P) /\ Tame(u, v)
          /\ \A x \in Creatures : v[x].body = "none" <=> u[x].body = "none" \/ x \in Unheld(u)
      BY <2>1, DestroySound
    <2>3. Tame(w, v)
      BY <2>1, <2>2, TameTwice
    <2>4. Enough(v, s)
      <3>1. CASE Unheld(u) = {}
        BY <3>1, DestroyNobody
      <3>2. CASE Unheld(u) # {}
        <4>1. PICK x \in Unheld(u) : TRUE
          BY <3>2
        <4> HIDE DEF v
        <4>2. Born(v) \in SUBSET (Born(u) \ {x}) /\ x \in Born(u)
          BY <2>2, <4>1 DEF Born, Unheld
        <4>3. /\ IsFiniteSet(Born(u) \ {x})
              /\ Cardinality(Born(u) \ {x}) = Cardinality(Born(u)) - 1
          BY <1>2, <4>2, FS_RemoveElement
        <4>4. Cardinality(Born(v)) <= Cardinality(Born(u)) - 1
          BY <4>2, <4>3, FS_Subset
        <4>5. IsFiniteSet(s) /\ Cardinality(s) \in Nat /\ Some(s) \in s
          BY <1>1, <1>4, FS_Subset, FS_CardinalityType, SomeOf
        <4>6. Cardinality(s \ {Some(s)}) = Cardinality(s) - 1
          BY <4>5, FS_RemoveElement
        <4> QED
          BY <1>1, <1>2, <2>1, <3>2, <4>4, <4>5, <4>6
      <3> QED
        BY <3>1, <3>2
    <2>5. v \in Worlds
      BY <2>2 DEF Sound, Shape
    <2> QED
      BY <2>2, <2>3, <2>4, <2>5
  <1>5. \A s \in SUBSET S : \A u \in Worlds :
           s # {} /\ u \in R[s \ {Some(s)}] => F[<<Some(s), u>>] \in R[s]
    <2> SUFFICES ASSUME NEW s \in SUBSET S, NEW u \in Worlds, s # {}, u \in R[s \ {Some(s)}]
                 PROVE  F[<<Some(s), u>>] \in R[s]
      OBVIOUS
    <2>1. Some(s) \in S
      BY SomeOf
    <2>2. F[<<Some(s), u>>] = Destroy(u, Unheld(u))
      BY <2>1
    <2> HIDE DEF F, R
    <2> QED
      BY <1>4, <2>2
  <1>6. R \in [SUBSET S -> SUBSET Worlds]
    OBVIOUS
  <1>7. PICK g \in [SUBSET S -> Worlds] :
           \A s \in SUBSET S :
              g[s] \in R[s] /\ g[s] = IF s = {} THEN w ELSE F[<<Some(s), g[s \ {Some(s)}]>>]
    <2> HIDE DEF F, R, S
    <2>1. Stays(S, Worlds, R, F, w)
      BY <1>3, <1>5, <1>6 DEF Stays
    <2>2. \E g \in [SUBSET S -> Worlds] : Folding(S, R, F, w, g)
      BY <1>1, <2>1, FoldExists
    <2> QED
      BY <2>2 DEF Folding
  <1>8. ASSUME NEW s \in SUBSET S, s # {}
        PROVE  F[<<Some(s), g[s \ {Some(s)}]>>]
                  = Destroy(g[s \ {Some(s)}], Unheld(g[s \ {Some(s)}]))
    BY <1>7, <1>8, SomeOf
  <1> DEFINE next(h, s) == IF s = {} THEN w ELSE Destroy(h[s \ {Some(s)}], Unheld(h[s \ {Some(s)}]))
             iter == CHOOSE h : h = [s \in SUBSET S |-> next(h, s)]
  <1>9. g = [s \in SUBSET S |-> next(g, s)]
    <2> HIDE DEF F, R
    <2> QED
      BY <1>7, <1>8
  <1>10. iter = [s \in SUBSET S |-> next(iter, s)]
    <2> HIDE DEF next
    <2> QED
      BY <1>9
  <1>11. FoldSet(LAMBDA i, u : Destroy(u, Unheld(u)), w, S) = iter[S]
    BY DEF FoldSet, MapThenFoldSet, Some
  <1>12. \A s \in SUBSET S : iter[s] \in R[s]
    <2> HIDE DEF iter, R
    <2> DEFINE T == {s \in SUBSET S : iter[s] \in R[s]}
    <2>1. {} \in T
      BY <1>3, <1>10
    <2>2. \A s \in SUBSET S : s # {} /\ s \ {Some(s)} \in T => s \in T
      <3> SUFFICES ASSUME NEW s \in SUBSET S, s # {}, s \ {Some(s)} \in T PROVE s \in T
        OBVIOUS
      <3> DEFINE u == iter[s \ {Some(s)}]
      <3>1. u \in R[s \ {Some(s)}] /\ u \in Worlds
        BY <1>6
      <3>2. iter[s] = Destroy(u, Unheld(u))
        BY <1>10
      <3> QED
        BY <1>4, <3>1, <3>2
    <2> HIDE DEF T, S
    <2>3. SUBSET S \subseteq T
      BY <1>1, <2>1, <2>2, SomeInduction
    <2> QED
      BY <2>3 DEF T
  <1>13. iter[S] \in R[S]
    <2> HIDE DEF iter, R
    <2> QED
      BY <1>12
  <1>14. CASE Unheld(w) # {}
    <2> DEFINE v == iter[S]
    <2> HIDE DEF iter
    <2>1. Reap(w) = v
      BY <1>11, <1>14 DEF Reap
    <2>2. Sound(v, e, P) /\ Tame(w, v) /\ Enough(v, S)
      BY <1>13
    <2> HIDE DEF v
    <2>3. Unheld(v) = {}
      <3> SUFFICES ASSUME Unheld(v) # {} PROVE FALSE
        OBVIOUS
      <3>1. Cardinality(Born(v)) = 0
        BY <1>1, <1>2, <2>2
      <3>2. Born(v) = {}
        BY <1>2, <3>1, FS_EmptySet
      <3> QED
        BY <3>2 DEF Born, Unheld
    <2> QED
      BY <2>1, <2>2, <2>3 DEF Good
  <1>15. CASE Unheld(w) = {}
    BY <1>15, QuietAlone DEF Reap, Good
  <1> QED
    BY <1>14, <1>15

LEMMA HeldSame ==
  ASSUME NEW w, NEW v,
         \A y \in Creatures : /\ v[y].targets = w[y].targets /\ v[y].friends = w[y].friends
                              /\ v[y].summons = w[y].summons
  PROVE  \A x : Held(v, x) = Held(w, x)
  BY DEF Held, Targeting, Befriending, Mastering

LEMMA UnrefNobody ==
  ASSUME NEW w \in Worlds
  PROVE  Unref(w, {}) = w
  <1>1. [c \in Creatures |-> IF c \in {} THEN [w[c] EXCEPT !.refs = @ - 1] ELSE w[c]] = w
    BY DEF Worlds
  <1> QED
    BY <1>1 DEF Unref

LEMMA UnrefReaps ==
  ASSUME NEW w, NEW S, NEW d \in S, d \in Creatures, w[d] \in Body
  PROVE  Unref(w, S) = Reap([c \in Creatures |->
                                IF c \in S THEN [w[c] EXCEPT !.refs = @ - 1] ELSE w[c]])
  <1> DEFINE u == [c \in Creatures |-> IF c \in S THEN [w[c] EXCEPT !.refs = @ - 1] ELSE w[c]]
  <1>1. u[d].refs = w[d].refs - 1 /\ w[d].refs \in Nat
    BY DEF Body
  <1>2. u # w
    <2>1. u[d].refs # w[d].refs
      <3> HIDE DEF u
      <3> QED
        BY <1>1
    <2> HIDE DEF u
    <2> QED
      BY <2>1
  <1> QED
    BY <1>2 DEF Unref

LEMMA UnrefGood ==
  ASSUME NEW w, NEW e, NEW P, NEW S \in SUBSET Creatures, Shape(w), Owing(w, S), Linked(w),
         Watch(w, e, P), Checked(w, e, P), Unheld(w) = {}
  PROVE  Good(Unref(w, S), e, P) /\ Tame(w, Unref(w, S))
  <1>0. w \in Worlds
    BY DEF Shape
  <1>1. CASE S = {}
    <2>1. Counted(w)
      BY <1>0, <1>1, OwnCounted DEF Owing, Counted, One
    <2> QED
      BY <1>0, <1>1, <2>1, UnrefNobody, QuietAlone DEF Good, Sound
  <1>2. CASE S # {}
    <2> DEFINE u == [c \in Creatures |-> IF c \in S THEN [w[c] EXCEPT !.refs = @ - 1] ELSE w[c]]
    <2>1. \A c \in S : w[c] \in Body /\ w[c].refs > 0 /\ w[c].refs - 1 \in Nat /\ w[c].body # "none"
      <3> SUFFICES ASSUME NEW c \in S
                   PROVE  w[c] \in Body /\ w[c].refs > 0 /\ w[c].refs - 1 \in Nat /\ w[c].body # "none"
        OBVIOUS
      <3>1. w[c].refs = Own(w[c]) + Held(w, c) + 1
        BY DEF Owing, One
      <3>2. w[c].refs > 0 /\ w[c].refs - 1 \in Nat /\ w[c] \in Body
        BY <1>0, <3>1, OwnCounted DEF Worlds
      <3> QED
        BY <3>2, UnbornIs DEF Shape
    <2>2. \A c \in Creatures : Same(u[c], w[c], {"refs"}) /\ u[c].refs = w[c].refs - One(c \in S)
                               /\ u[c] \in Body
      <3> SUFFICES ASSUME NEW c \in Creatures
                   PROVE  Same(u[c], w[c], {"refs"}) /\ u[c].refs = w[c].refs - One(c \in S)
                          /\ u[c] \in Body
        OBVIOUS
      <3>1. w[c] \in Body
        BY <1>0 DEF Worlds
      <3>2. CASE c \in S
        BY <2>1, <3>1, <3>2 DEF Same, Fields, Body, One
      <3>3. CASE c \notin S
        BY <3>1, <3>3 DEF Same, Fields, Body, One
      <3> QED
        BY <3>2, <3>3
    <2>3. u \in Worlds
      BY <2>2 DEF Worlds
    <2>4. \A c \in Creatures : u[c].body = "none" => u[c] = w[c]
      BY <2>1, <2>2 DEF Same, Fields
    <2> HIDE DEF u
    <2>5. \A c \in Creatures :
             /\ u[c].targets = w[c].targets /\ u[c].friends = w[c].friends
             /\ u[c].summons = w[c].summons /\ u[c].listed = w[c].listed
             /\ u[c].check = w[c].check /\ u[c].body = w[c].body /\ Own(u[c]) = Own(w[c])
      BY <2>2 DEF Same, Fields, Own
    <2>6. Shape(u)
      BY <2>3, <2>4, <2>5 DEF Shape, Creatures
    <2>7. Linked(u) /\ Watch(u, e, P) /\ Checked(u, e, P) /\ Tame(w, u)
      <3>1. \A x \in Creatures : Same(u[x], w[x], Listing)
        BY <2>2 DEF Same, Listing
      <3> QED
        BY <2>3, <2>5, <2>6, <3>1, ListingIsSound
    <2>8. Counted(u)
      <3> SUFFICES ASSUME NEW c \in Creatures PROVE u[c].refs = Own(u[c]) + Held(u, c)
        BY DEF Counted
      <3>1. Held(u, c) = Held(w, c)
        BY <2>5, HeldSame
      <3> QED
        BY <1>0, <2>2, <2>5, <3>1, OwnCounted DEF Owing, One
    <2>9. Good(Reap(u), e, P) /\ Tame(u, Reap(u))
      BY <2>6, <2>7, <2>8, ReapGood DEF Sound
    <2>10. Unref(w, S) = Reap(u)
      BY <1>0, <1>2, <2>1, UnrefReaps DEF u
    <2> QED
      BY <2>7, <2>9, <2>10, TameTwice
  <1> QED
    BY <1>1, <1>2

-----------------------------------------------------------------------------
(* The lists of monsters. *)

LEMMA RemoveTargetsGood ==
  ASSUME NEW w, NEW e, NEW P, Good(w, e, P), NEW m \in Creatures, NEW S
  PROVE  Good(RemoveTargets(w, m, S), e, P) /\ Tame(w, RemoveTargets(w, m, S))
  <1> DEFINE v == [w EXCEPT ![m].targets = @ \ S]
             D == w[m].targets \cap S
  <1>0. w \in Worlds /\ w[m] \in Body /\ D \in SUBSET Creatures
    BY DEF Good, Sound, Shape, Worlds, Body
  <1>1. \A x \in Creatures : Same(v[x], w[x], {"targets"}) /\ v[x] \in Body
                             /\ v[x].targets = IF x = m THEN w[m].targets \ S ELSE w[x].targets
    <2> SUFFICES ASSUME NEW x \in Creatures
                 PROVE  Same(v[x], w[x], {"targets"}) /\ v[x] \in Body
                        /\ v[x].targets = IF x = m THEN w[m].targets \ S ELSE w[x].targets
      OBVIOUS
    <2>1. CASE x = m
      BY <1>0, <2>1 DEF Worlds, Body, Same, Fields
    <2>2. CASE x # m
      BY <1>0, <2>2 DEF Worlds, Same
    <2> QED
      BY <2>1, <2>2
  <1>2. v \in Worlds
    <2>1. DOMAIN v = Creatures /\ v = [x \in Creatures |-> v[x]]
      BY <1>0 DEF Worlds
    <2> HIDE DEF v
    <2> QED
      BY <1>1, <2>1 DEF Worlds
  <1>3. \A x \in Creatures : v[x].body = "none" => v[x] = w[x]
    <2> SUFFICES ASSUME NEW x \in Creatures, v[x].body = "none", x = m PROVE v[x] = w[x]
      BY <1>0 DEF Worlds
    <2>1. w[m] = Unborn
      BY <1>0 DEF Good, Sound, Shape, Worlds, Body
    <2>2. w[m].targets \ S = w[m].targets
      BY <2>1, UnbornIs
    <2>3. v[x] = [w[m] EXCEPT !.targets = w[m].targets]
      BY <1>0, <2>2 DEF Worlds
    <2> QED
      BY <1>0, <2>3 DEF Body
  <1> HIDE DEF v
  <1>4. \A c \in Creatures :
             /\ v[c].friends = w[c].friends /\ v[c].refs = w[c].refs
             /\ v[c].summons = w[c].summons /\ v[c].listed = w[c].listed
             /\ v[c].check = w[c].check /\ v[c].body = w[c].body /\ Own(v[c]) = Own(w[c])
    BY <1>1 DEF Same, Fields, Own
  <1>5. Shape(v)
    BY <1>1, <1>2, <1>3, <1>4 DEF Good, Sound, Shape, Creatures
  <1>6. Linked(v) /\ Watch(v, e, P) /\ Checked(v, e, P) /\ Tame(w, v)
    <2>1. \A x \in Creatures : Same(v[x], w[x], Listing)
      BY <1>1 DEF Same, Listing
    <2> QED
      BY <1>2, <1>4, <1>5, <2>1, ListingIsSound DEF Good, Sound
  <1>7. Owing(v, D)
    <2> SUFFICES ASSUME NEW c \in Creatures PROVE v[c].refs = Own(v[c]) + Held(v, c) + One(c \in D)
      BY DEF Owing
    <2>1. Befriending(v, c) = Befriending(w, c) /\ Mastering(v, c) = Mastering(w, c)
      BY <1>4 DEF Befriending, Mastering
    <2>2. Targeting(v, c) = IF c \in D THEN Targeting(w, c) \ {m} ELSE Targeting(w, c)
      BY <1>1 DEF Targeting
    <2>3. Cardinality(Targeting(w, c)) = Cardinality(Targeting(v, c)) + One(c \in D)
      <3>1. CASE c \in D
        <4>1. m \in Targeting(w, c)
          BY <3>1 DEF Targeting
        <4>2. Cardinality(Targeting(w, c) \ {m}) = Cardinality(Targeting(w, c)) - 1
          BY <4>1, FS_RemoveElement, ListsCounted
        <4> QED
          BY <2>2, <3>1, <4>2, ListsCounted DEF One
      <3>2. CASE c \notin D
        BY <2>2, <3>2, ListsCounted DEF One
      <3> QED
        BY <3>1, <3>2
    <2>4. Held(w, c) = Held(v, c) + One(c \in D)
      BY <2>1, <2>3, ListsCounted DEF Held, One
    <2>5. w[c].refs = Own(w[c]) + Held(w, c)
      BY DEF Good, Sound, Counted
    <2>6. Own(v[c]) \in Nat /\ Held(v, c) \in Nat
      BY <1>2, OwnCounted
    <2> QED
      BY <1>4, <2>4, <2>5, <2>6 DEF One
  <1>8. Unheld(v) = {}
    BY <1>4 DEF Good, Unheld
  <1>9. Good(Unref(v, D), e, P) /\ Tame(v, Unref(v, D))
    BY <1>0, <1>5, <1>6, <1>7, <1>8, UnrefGood
  <1>10. RemoveTargets(w, m, S) = Unref(v, D)
    BY DEF RemoveTargets, v
  <1> QED
    BY <1>6, <1>9, <1>10, TameTwice

LEMMA RemoveFriendsGood ==
  ASSUME NEW w, NEW e, NEW P, Good(w, e, P), NEW m \in Creatures, NEW S
  PROVE  Good(RemoveFriends(w, m, S), e, P) /\ Tame(w, RemoveFriends(w, m, S))
  <1> DEFINE v == [w EXCEPT ![m].friends = @ \ S]
             D == w[m].friends \cap S
  <1>0. w \in Worlds /\ w[m] \in Body /\ D \in SUBSET Creatures
    BY DEF Good, Sound, Shape, Worlds, Body
  <1>1. \A x \in Creatures : Same(v[x], w[x], {"friends"}) /\ v[x] \in Body
                             /\ v[x].friends = IF x = m THEN w[m].friends \ S ELSE w[x].friends
    <2> SUFFICES ASSUME NEW x \in Creatures
                 PROVE  Same(v[x], w[x], {"friends"}) /\ v[x] \in Body
                        /\ v[x].friends = IF x = m THEN w[m].friends \ S ELSE w[x].friends
      OBVIOUS
    <2>1. CASE x = m
      BY <1>0, <2>1 DEF Worlds, Body, Same, Fields
    <2>2. CASE x # m
      BY <1>0, <2>2 DEF Worlds, Same
    <2> QED
      BY <2>1, <2>2
  <1>2. v \in Worlds
    <2>1. DOMAIN v = Creatures /\ v = [x \in Creatures |-> v[x]]
      BY <1>0 DEF Worlds
    <2> HIDE DEF v
    <2> QED
      BY <1>1, <2>1 DEF Worlds
  <1>3. \A x \in Creatures : v[x].body = "none" => v[x] = w[x]
    <2> SUFFICES ASSUME NEW x \in Creatures, v[x].body = "none", x = m PROVE v[x] = w[x]
      BY <1>0 DEF Worlds
    <2>1. w[m] = Unborn
      BY <1>0 DEF Good, Sound, Shape, Worlds, Body
    <2>2. w[m].friends \ S = w[m].friends
      BY <2>1, UnbornIs
    <2>3. v[x] = [w[m] EXCEPT !.friends = w[m].friends]
      BY <1>0, <2>2 DEF Worlds
    <2> QED
      BY <1>0, <2>3 DEF Body
  <1> HIDE DEF v
  <1>4. \A c \in Creatures :
             /\ v[c].targets = w[c].targets /\ v[c].refs = w[c].refs
             /\ v[c].summons = w[c].summons /\ v[c].listed = w[c].listed
             /\ v[c].check = w[c].check /\ v[c].body = w[c].body /\ Own(v[c]) = Own(w[c])
    BY <1>1 DEF Same, Fields, Own
  <1>5. Shape(v)
    BY <1>1, <1>2, <1>3, <1>4 DEF Good, Sound, Shape, Creatures
  <1>6. Linked(v) /\ Watch(v, e, P) /\ Checked(v, e, P) /\ Tame(w, v)
    <2>1. \A x \in Creatures : Same(v[x], w[x], Listing)
      BY <1>1 DEF Same, Listing
    <2> QED
      BY <1>2, <1>4, <1>5, <2>1, ListingIsSound DEF Good, Sound
  <1>7. Owing(v, D)
    <2> SUFFICES ASSUME NEW c \in Creatures PROVE v[c].refs = Own(v[c]) + Held(v, c) + One(c \in D)
      BY DEF Owing
    <2>1. Targeting(v, c) = Targeting(w, c) /\ Mastering(v, c) = Mastering(w, c)
      BY <1>4 DEF Targeting, Mastering
    <2>2. Befriending(v, c) = IF c \in D THEN Befriending(w, c) \ {m} ELSE Befriending(w, c)
      BY <1>1 DEF Befriending
    <2>3. Cardinality(Befriending(w, c)) = Cardinality(Befriending(v, c)) + One(c \in D)
      <3>1. CASE c \in D
        <4>1. m \in Befriending(w, c)
          BY <3>1 DEF Befriending
        <4>2. Cardinality(Befriending(w, c) \ {m}) = Cardinality(Befriending(w, c)) - 1
          BY <4>1, FS_RemoveElement, ListsCounted
        <4> QED
          BY <2>2, <3>1, <4>2, ListsCounted DEF One
      <3>2. CASE c \notin D
        BY <2>2, <3>2, ListsCounted DEF One
      <3> QED
        BY <3>1, <3>2
    <2>4. Held(w, c) = Held(v, c) + One(c \in D)
      BY <2>1, <2>3, ListsCounted DEF Held, One
    <2>5. w[c].refs = Own(w[c]) + Held(w, c)
      BY DEF Good, Sound, Counted
    <2>6. Own(v[c]) \in Nat /\ Held(v, c) \in Nat
      BY <1>2, OwnCounted
    <2> QED
      BY <1>4, <2>4, <2>5, <2>6 DEF One
  <1>8. Unheld(v) = {}
    BY <1>4 DEF Good, Unheld
  <1>9. Good(Unref(v, D), e, P) /\ Tame(v, Unref(v, D))
    BY <1>0, <1>5, <1>6, <1>7, <1>8, UnrefGood
  <1>10. RemoveFriends(w, m, S) = Unref(v, D)
    BY DEF RemoveFriends, v
  <1> QED
    BY <1>6, <1>9, <1>10, TameTwice

LEMMA ClearListsGood ==
  ASSUME NEW w, NEW e, NEW P, Good(w, e, P), NEW m \in Creatures
  PROVE  Good(ClearLists(w, m), e, P) /\ Tame(w, ClearLists(w, m))
  <1> DEFINE u == RemoveTargets(w, m, Creatures)
  <1>1. Good(u, e, P) /\ Tame(w, u)
    BY RemoveTargetsGood
  <1> HIDE DEF u
  <1>2. Good(RemoveFriends(u, m, Creatures), e, P) /\ Tame(u, RemoveFriends(u, m, Creatures))
    BY <1>1, RemoveFriendsGood
  <1> QED
    BY <1>1, <1>2, TameTwice DEF ClearLists, u

\* A change of the flag and the list of those who are checked.
LEMMA CheckGood ==
  ASSUME NEW w, NEW e, NEW P, Good(w, e, P), NEW v \in Worlds, NEW c \in Creatures,
         w[c].body # "none",
         \A x \in Creatures : Same(v[x], w[x], {"check", "listed", "refs"}) /\ (x # c => v[x] = w[x]),
         v[c].listed, v[c].refs = w[c].refs + 1 - One(w[c].listed),
         v[c].check => c \in World(w),
         c \in World(w) /\ (c \in Players \/ (~w[c].alive /\ c \notin Excused)) => v[c].check
  PROVE  Good(v, e, P) /\ Tame(w, v)
  <1>0. w \in Worlds /\ w[c] \in Body /\ Shape(w)
    BY DEF Good, Sound, Shape, Worlds
  <1>1. v[c].refs # 0
    <2>1. w[c].refs # 0 /\ w[c].refs \in Nat
      BY <1>0 DEF Good, Unheld, Body
    <2> QED
      BY <2>1 DEF One
  <1>5. \A x \in Creatures :
           /\ v[x].targets = w[x].targets /\ v[x].friends = w[x].friends
           /\ v[x].summons = w[x].summons /\ v[x].body = w[x].body /\ v[x].alive = w[x].alive
           /\ v[x].client = w[x].client /\ v[x].due = w[x].due
    BY DEF Same, Fields
  <1>6. Shape(v)
    BY <1>0, <1>5 DEF Shape, Creatures
  <1>7. Tame(w, v)
    <2>1. \A x \in Creatures : Same(v[x], w[x], Listing)
      BY DEF Same, Listing
    <2> QED
      BY <1>0, <2>1, ListingIsTame
  <1>8. Linked(v) /\ Watch(v, e, P)
    BY <1>0, <1>6, <1>7, QuietLinked, TameWatch DEF Good, Sound, Tame
  <1>9. Checked(v, e, P)
    BY <1>0, <1>5 DEF Good, Sound, Checked, World
  <1>10. ASSUME NEW x \in Creatures PROVE v[x].refs = Own(v[x]) + Held(v, x)
    <2>1. Held(v, x) = Held(w, x)
      BY <1>5, HeldSame
    <2>2. w[x].refs = Own(w[x]) + Held(w, x) /\ Held(w, x) \in Nat /\ w[x].due \in Nat
      BY <1>0, OwnCounted DEF Good, Sound, Counted
    <2>3. CASE x = c
      <3>1. Own(v[c]) = Own(w[c]) + 1 - One(w[c].listed)
        BY <1>5, <2>2, <2>3 DEF Own, One
      <3> QED
        BY <2>1, <2>2, <2>3, <3>1 DEF Own, One
    <2>4. CASE x # c
      BY <2>1, <2>2, <2>4
    <2> QED
      BY <2>3, <2>4
  <1>11. Unheld(v) = {}
    BY <1>1, <1>5 DEF Good, Unheld
  <1> QED
    BY <1>6, <1>7, <1>8, <1>9, <1>10, <1>11 DEF Good, Sound, Counted

LEMMA AddCheckGood ==
  ASSUME NEW w, NEW e, NEW P, Good(w, e, P), NEW c \in World(w)
  PROVE  /\ Good(AddCheck(w, c), e, P) /\ Tame(w, AddCheck(w, c))
         /\ AddCheck(w, c)[c].check
  <1> DEFINE v == AddCheck(w, c)
  <1>0. w \in Worlds /\ w[c] \in Body /\ c \in Creatures /\ w[c].body # "none"
    BY DEF Good, Sound, Shape, Worlds, World
  <1>1. v \in Worlds
    <2>1. PICK n : n = IF w[c].listed THEN w[c].refs ELSE w[c].refs + 1
      OBVIOUS
    <2>2. n \in Nat
      <3>1. w[c].refs \in Nat
        BY <1>0 DEF Body
      <3> QED
        BY <2>1, <3>1
    <2>3. v = [w EXCEPT ![c].check = TRUE, ![c].listed = TRUE, ![c].refs = n]
      BY <2>1 DEF AddCheck
    <2> HIDE DEF v
    <2>4. PICK b \in Body : b = [w[c] EXCEPT !.check = TRUE, !.listed = TRUE, !.refs = n]
      BY <1>0, <2>2 DEF Body
    <2>5. v = Given(w, c, b)
      BY <1>0, <2>3, <2>4 DEF Worlds, Given
    <2> QED
      BY <1>0, <2>5, BodyGiven
  <1>2. \A x \in Creatures : x # c => v[x] = w[x]
    BY <1>0 DEF AddCheck, Worlds
  <1>3. v[c].check /\ v[c].listed
    BY <1>0 DEF AddCheck, Worlds, Body
  <1>4. v[c].refs = w[c].refs + 1 - One(w[c].listed)
    <2>1. CASE w[c].listed
      BY <1>0, <2>1 DEF AddCheck, Worlds, Body, One
    <2>2. CASE ~w[c].listed
      BY <1>0, <2>2 DEF AddCheck, Worlds, Body, One
    <2> QED
      BY <2>1, <2>2
  <1>5. Same(v[c], w[c], {"check", "listed", "refs"})
    BY <1>0 DEF AddCheck, Worlds, Body, Same, Fields
  <1> HIDE DEF v
  <1>6. \A x \in Creatures : Same(v[x], w[x], {"check", "listed", "refs"}) /\ (x # c => v[x] = w[x])
    BY <1>2, <1>5 DEF Same
  <1>7. Good(v, e, P) /\ Tame(w, v)
    BY <1>0, <1>1, <1>3, <1>4, <1>6, CheckGood
  <1> QED
    BY <1>3, <1>7 DEF v

LEMMA RemoveCheckGood ==
  ASSUME NEW w, NEW e, NEW P, Good(w, e, P), NEW c \in Creatures,
         c \in World(w) => c \notin Players /\ (w[c].alive \/ c \in Excused)
  PROVE  Good(RemoveCheck(w, c), e, P) /\ Tame(w, RemoveCheck(w, c))
  <1>0. w \in Worlds /\ w[c] \in Body
    BY DEF Good, Sound, Shape, Worlds
  <1>1. CASE ~w[c].listed
    BY <1>1, QuietAlone DEF RemoveCheck
  <1>2. CASE w[c].listed
    <2> DEFINE v == RemoveCheck(w, c)
    <2>1. OneDiffers(w, v, c, {"check"}) /\ ~v[c].check
      BY <1>0, <1>2, UncheckedDiffers
    <2> HIDE DEF v
    <2>2. v \in Worlds /\ \A x \in Creatures : x # c => v[x] = w[x]
      BY <2>1 DEF OneDiffers
    <2>3. v[c].listed = w[c].listed /\ v[c].refs = w[c].refs /\ w[c].refs \in Nat
      BY <1>0, <2>1 DEF OneDiffers, Same, Fields, Body
    <2>4. v[c].refs = w[c].refs + 1 - One(w[c].listed)
      BY <1>2, <2>3 DEF One
    <2>5. Same(v[c], w[c], {"check", "listed", "refs"})
      BY <2>1 DEF OneDiffers, Same
    <2>6. w[c].body # "none"
      BY <1>2, UnbornIs DEF Good, Sound, Shape
    <2>7. \A x \in Creatures : Same(v[x], w[x], {"check", "listed", "refs"}) /\ (x # c => v[x] = w[x])
      BY <2>2, <2>5 DEF Same
    <2>8. Good(v, e, P) /\ Tame(w, v)
      BY <1>2, <2>1, <2>2, <2>3, <2>4, <2>6, <2>7, CheckGood
    <2> QED
      BY <2>8 DEF v
  <1> QED
    BY <1>1, <1>2

LEMMA SetIdleGood ==
  ASSUME NEW w, NEW e, NEW P, Good(w, e, P), NEW m \in Monsters, w[m].body # "none", NEW idle
  PROVE  Good(SetIdle(w, m, idle), e, P) /\ Tame(w, SetIdle(w, m, idle))
  <1>0. m \in Creatures /\ m \notin Players /\ w[m] \in Body
    BY KindAssumption DEF Creatures, Good, Sound, Shape, Worlds
  <1>1. CASE w[m].body = "removed" \/ ~w[m].alive
    BY <1>1, QuietAlone DEF SetIdle
  <1>2. CASE w[m].body # "removed" /\ w[m].alive /\ idle
    <2> DEFINE u == ClearLists(w, m)
    <2>1. Good(u, e, P) /\ Tame(w, u)
      BY <1>0, ClearListsGood
    <2>2. w[m].body = "world" /\ u[m].alive = w[m].alive
      BY <1>0, <1>2, <2>1 DEF Body, Tame, Quiet, Kept
    <2> HIDE DEF u
    <2>3. Good(RemoveCheck(u, m), e, P) /\ Tame(u, RemoveCheck(u, m))
      BY <1>0, <1>2, <2>1, <2>2, RemoveCheckGood
    <2>4. Tame(w, RemoveCheck(u, m))
      BY <2>1, <2>3, TameTwice
    <2>5. SetIdle(w, m, idle) = RemoveCheck(u, m)
      BY <1>2 DEF SetIdle, u
    <2> QED
      BY <2>3, <2>4, <2>5
  <1>3. CASE w[m].body # "removed" /\ w[m].alive /\ ~idle
    <2>1. m \in World(w)
      BY <1>0, <1>3 DEF Body, World
    <2> QED
      BY <1>3, <2>1, AddCheckGood DEF SetIdle
  <1> QED
    BY <1>1, <1>2, <1>3

LEMMA UpdateIdleGood ==
  ASSUME NEW w, NEW e, NEW P, Good(w, e, P), NEW m \in Monsters, w[m].body # "none"
  PROVE  Good(UpdateIdle(w, m), e, P) /\ Tame(w, UpdateIdle(w, m))
  BY SetIdleGood DEF UpdateIdle

\* Who is kept is still an object afterwards.
LEMMA StaysBorn ==
  ASSUME NEW w, NEW v, Shape(w), Tame(w, v) \/ Quiet(w, v), NEW c \in Creatures, Kept(w, c)
  PROVE  v[c].body # "none" /\ Kept(v, c)
  BY KeptIsBorn DEF Tame, Quiet, Kept

LEMMA FoundGood ==
  ASSUME NEW w, NEW e, NEW P, Good(w, e, P), NEW m \in Monsters, NEW c \in Creatures,
         Kept(w, m), Kept(w, c)
  PROVE  Good(Found(w, m, c), e, P) /\ Tame(w, Found(w, m, c))
  <1>0. m \in Creatures /\ Shape(w)
    BY DEF Creatures, Good, Sound
  <1> DEFINE u == IF IsFriend(w, m, c) THEN AddFriend(w, m, c) ELSE w
             v == IF IsOpponent(w, m, c) THEN AddTarget(u, m, c) ELSE u
  <1>1. Good(u, e, P) /\ Tame(w, u)
    BY <1>0, AddFriendGood, KeptIsBorn, QuietAlone
  <1>2. u[m].body # "none" /\ u[c].body # "none"
    <2> HIDE DEF u
    <2> QED
      BY <1>0, <1>1, StaysBorn
  <1> HIDE DEF u
  <1>3. Good(v, e, P) /\ Tame(u, v)
    BY <1>1, <1>2, AddTargetGood, QuietAlone
  <1> HIDE DEF v
  <1>4. Tame(w, v)
    BY <1>1, <1>3, TameTwice
  <1>5. v[m].body # "none"
    BY <1>0, <1>4, StaysBorn
  <1>6. Good(UpdateIdle(v, m), e, P) /\ Tame(v, UpdateIdle(v, m))
    BY <1>3, <1>5, UpdateIdleGood
  <1> QED
    BY <1>4, <1>6, TameTwice DEF Found, v, u

\* What satisfies the equations of a fold stays where the fold stays.
Unfolds(S, W, F, base, g) ==
    /\ g[{}] = base
    /\ \A s \in SUBSET S : s # {} /\ g[s \ {Some(s)}] \in W
          => g[s] = F[<<Some(s), g[s \ {Some(s)}]>>]

LEMMA FoldIn ==
  ASSUME NEW S, IsFiniteSet(S), NEW W, NEW R, NEW F, NEW base, Stays(S, W, R, F, base), NEW g,
         Unfolds(S, W, F, base, g)
  PROVE  g[S] \in R[S]
  <1> DEFINE T == {s \in SUBSET S : g[s] \in R[s]}
  <1>1. {} \in T
    BY DEF Stays, Unfolds
  <1>2. \A s \in SUBSET S : s # {} /\ s \ {Some(s)} \in T => s \in T
    <2> SUFFICES ASSUME NEW s \in SUBSET S, s # {}, s \ {Some(s)} \in T PROVE s \in T
      OBVIOUS
    <2>1. g[s \ {Some(s)}] \in R[s \ {Some(s)}] /\ s \ {Some(s)} \in SUBSET S
      OBVIOUS
    <2>2. g[s \ {Some(s)}] \in W
      BY <2>1 DEF Stays
    <2> QED
      BY <2>1, <2>2 DEF Stays, Unfolds
  <1> HIDE DEF T
  <1>3. SUBSET S \subseteq T
    BY <1>1, <1>2, SomeInduction
  <1> QED
    BY <1>3 DEF T

LEMMA UntroubledGood ==
  ASSUME NEW w, NEW e, NEW P, Good(w, e, P), NEW m \in Monsters, w[m].body # "none"
  PROVE  Good(Untroubled(w, m), e, P) /\ Tame(w, Untroubled(w, m))
  BY UpdateIdleGood, QuietAlone DEF Untroubled

LEMMA ForgiveGood ==
  ASSUME NEW w, NEW e, NEW P, Good(w, e, P), NEW m \in Monsters, NEW c, Kept(w, m)
  PROVE  Good(Forgive(w, m, c), e, P) /\ Tame(w, Forgive(w, m, c))
  <1> DEFINE u == RemoveTargets(w, m, {c})
  <1>0. m \in Creatures /\ Shape(w)
    BY DEF Creatures, Good, Sound
  <1>1. Good(u, e, P) /\ Tame(w, u)
    BY <1>0, RemoveTargetsGood
  <1> HIDE DEF u
  <1>2. u[m].body # "none"
    BY <1>0, <1>1, StaysBorn
  <1>3. Good(Untroubled(u, m), e, P) /\ Tame(u, Untroubled(u, m))
    BY <1>1, <1>2, UntroubledGood
  <1>4. Tame(w, Untroubled(u, m))
    BY <1>1, <1>3, TameTwice
  <1>5. Forgive(w, m, c) = IF IsOpponent(w, m, c) THEN Untroubled(u, m) ELSE w
    BY DEF Forgive, u
  <1> QED
    BY <1>3, <1>4, <1>5, QuietAlone

LEMMA LeaveGood ==
  ASSUME NEW w, NEW e, NEW P, Good(w, e, P), NEW m \in Monsters, NEW c, Kept(w, m)
  PROVE  Good(Leave(w, m, c), e, P) /\ Tame(w, Leave(w, m, c))
  <1> DEFINE u == IF IsFriend(w, m, c) THEN RemoveFriends(w, m, {c}) ELSE w
  <1>0. m \in Creatures /\ Shape(w)
    BY DEF Creatures, Good, Sound
  <1>1. Good(u, e, P) /\ Tame(w, u)
    BY <1>0, RemoveFriendsGood, QuietAlone
  <1>2. Leave(w, m, c) = Forgive(u, m, c)
    BY DEF Leave
  <1> HIDE DEF u
  <1>3. Kept(u, m)
    BY <1>0, <1>1, StaysBorn
  <1>4. Good(Forgive(u, m, c), e, P) /\ Tame(u, Forgive(u, m, c))
    BY <1>1, <1>3, ForgiveGood
  <1> QED
    BY <1>1, <1>2, <1>4, TameTwice

LEMMA FindAllGood ==
  ASSUME NEW w, NEW e, NEW P, Good(w, e, P), NEW m \in Monsters, Kept(w, m)
  PROVE  Good(FindAll(w, m), e, P) /\ Tame(w, FindAll(w, m))
  <1> DEFINE S == {c \in World(w) \ {m} : Sees(w, m, c)}
             R == [s \in SUBSET S |-> {v \in Worlds : Good(v, e, P) /\ Tame(w, v)}]
             F == [p \in S \X Worlds |-> Found(p[2], m, p[1])]
  <1>1. IsFiniteSet(S) /\ S \subseteq World(w) /\ World(w) \subseteq Creatures /\ m \in Creatures
    <2>1. S \subseteq World(w) /\ World(w) \subseteq Creatures
      BY DEF World
    <2> QED
      BY <2>1, FiniteCreatures, FS_Subset DEF Creatures
  <1>2. w \in R[{}]
    BY QuietAlone DEF Good, Sound, Shape
  <1>3. ASSUME NEW s \in SUBSET S, NEW v \in Worlds, NEW c \in S, v \in R[s \ {c}]
        PROVE  Found(v, m, c) \in R[s]
    <2>1. Good(v, e, P) /\ Tame(w, v)
      BY <1>3
    <2>2. Kept(v, m) /\ Kept(v, c) /\ c \in Creatures
      BY <1>1, <2>1, QuietWorld DEF Tame, Kept, World
    <2>3. Good(Found(v, m, c), e, P) /\ Tame(v, Found(v, m, c))
      BY <2>1, <2>2, FoundGood
    <2>4. Tame(w, Found(v, m, c)) /\ Found(v, m, c) \in Worlds
      BY <2>1, <2>3, TameTwice DEF Good, Sound, Shape
    <2> QED
      BY <2>3, <2>4
  <1>10. Stays(S, Worlds, R, F, w)
    <2>1. R \in [SUBSET S -> SUBSET Worlds]
      OBVIOUS
    <2>2. ASSUME NEW s \in SUBSET S, NEW v \in Worlds, s # {}, v \in R[s \ {Some(s)}]
          PROVE  F[<<Some(s), v>>] \in R[s]
      <3>1. Some(s) \in S /\ F[<<Some(s), v>>] = Found(v, m, Some(s))
        BY <2>2, SomeOf
      <3> HIDE DEF S, R, F
      <3> QED
        BY <1>3, <2>2, <3>1
    <2> HIDE DEF S, R, F
    <2> QED
      BY <1>2, <2>1, <2>2 DEF Stays
  <1>11. PICK g \in [SUBSET S -> Worlds] : Folding(S, R, F, w, g)
    <2> HIDE DEF S, R, F
    <2> QED
      BY <1>1, <1>10, FoldExists
  <1> DEFINE next(h, s) == IF s = {} THEN w ELSE Found(h[s \ {Some(s)}], m, Some(s))
             fold == CHOOSE h : h = [s \in SUBSET S |-> next(h, s)]
  <1>12. ASSUME NEW s \in SUBSET S, NEW v \in Worlds, s # {}
         PROVE  F[<<Some(s), v>>] = Found(v, m, Some(s))
    BY <1>12, SomeOf
  <1>13. fold = [s \in SUBSET S |-> next(fold, s)]
    <2>1. g = [s \in SUBSET S |-> next(g, s)]
      <3> HIDE DEF S, R, F
      <3> QED
        BY <1>11, <1>12 DEF Folding
    <2> HIDE DEF next
    <2> QED
      BY <2>1
  <1>14. FoldSet(LAMBDA c, v : Found(v, m, c), w, S) = fold[S]
    BY DEF FoldSet, MapThenFoldSet, Some
  <1>15. fold[S] \in R[S]
    <2> HIDE DEF S, R, F, fold
    <2>1. Unfolds(S, Worlds, F, w, fold)
      BY <1>12, <1>13 DEF Unfolds
    <2> QED
      BY <1>1, <1>10, <2>1, FoldIn
  <1>20. FoldSet(LAMBDA c, v : Found(v, m, c), w, S) \in R[S]
    <2> HIDE DEF S, R, F, fold
    <2> QED
      BY <1>14, <1>15
  <1> QED
    BY <1>20 DEF FindAll

LEMMA UpdateTargetsGood ==
  ASSUME NEW w, NEW e, NEW P, Good(w, e, P), NEW m \in Monsters, Kept(w, m)
  PROVE  Good(UpdateTargets(w, m), e, P) /\ Tame(w, UpdateTargets(w, m))
  <1> DEFINE lost == {c \in Creatures : ~w[c].alive \/ ~Sees(w, m, c)}
             u == RemoveFriends(w, m, lost)
             v == RemoveTargets(u, m, lost)
  <1>0. m \in Creatures /\ Shape(w)
    BY DEF Creatures, Good, Sound
  <1> HIDE DEF lost
  <1>1. Good(u, e, P) /\ Tame(w, u)
    BY <1>0, RemoveFriendsGood
  <1> HIDE DEF u
  <1>2. Good(v, e, P) /\ Tame(u, v)
    BY <1>0, <1>1, RemoveTargetsGood
  <1> HIDE DEF v
  <1>3. Tame(w, v)
    BY <1>1, <1>2, TameTwice
  <1>4. Kept(v, m)
    BY <1>0, <1>3, StaysBorn
  <1>5. Good(FindAll(v, m), e, P) /\ Tame(v, FindAll(v, m))
    BY <1>2, <1>4, FindAllGood
  <1>6. UpdateTargets(w, m) = FindAll(v, m)
    BY DEF UpdateTargets, v, u, lost
  <1> QED
    BY <1>3, <1>5, <1>6, TameTwice

-----------------------------------------------------------------------------
(* Whom creatures attack and follow. *)

\* x, who aimed at a, aims at b: at whom he did, at nobody, or at t, whom he sees.
Turns(w, x, t, a, b) == b = a \/ b = Null \/ (b = t /\ Sees(w, x, t))

Aimed(w, v, t) ==
    /\ v \in Worlds
    /\ \A x \in Creatures :
          /\ Same(v[x], w[x], {"attacked", "follow"})
          /\ Turns(w, x, t, w[x].attacked, v[x].attacked)
          /\ Turns(w, x, t, w[x].follow, v[x].follow)

LEMMA AimedAlone == ASSUME NEW w \in Worlds, NEW t PROVE Aimed(w, w, t)
  BY DEF Aimed, Turns, Same

LEMMA AimedTwice ==
  ASSUME NEW w, NEW u, NEW v, NEW t \in Creatures \cup {Null}, Aimed(w, u, t), Aimed(u, v, t)
  PROVE  Aimed(w, v, t)
  <1> SUFFICES ASSUME NEW x \in Creatures
               PROVE  /\ Same(v[x], w[x], {"attacked", "follow"})
                      /\ Turns(w, x, t, w[x].attacked, v[x].attacked)
                      /\ Turns(w, x, t, w[x].follow, v[x].follow)
    BY DEF Aimed
  <1>1. Same(v[x], w[x], {"attacked", "follow"})
    BY DEF Aimed, Same
  <1>2. t # Null => (Sees(u, x, t) <=> Sees(w, x, t))
    <2>1. \A c \in Creatures : u[c].at = w[c].at /\ u[c].client = w[c].client
      BY DEF Aimed, Same, Fields
    <2> QED
      BY <2>1 DEF Sees, InReach
  <1>3. /\ Turns(w, x, t, w[x].attacked, u[x].attacked) /\ Turns(w, x, t, w[x].follow, u[x].follow)
        /\ Turns(u, x, t, u[x].attacked, v[x].attacked) /\ Turns(u, x, t, u[x].follow, v[x].follow)
    BY DEF Aimed
  <1> QED
    BY <1>1, <1>2, <1>3 DEF Turns

LEMMA AimedGood ==
  ASSUME NEW w, NEW e, NEW P, Good(w, e, P), NEW v, NEW t \in World(w) \cup {Null}, Aimed(w, v, t)
  PROVE  Good(v, e, P) /\ Quiet(w, v) /\ (t = Null => Tame(w, v))
  <1>0. w \in Worlds /\ v \in Worlds /\ World(w) \subseteq Creatures
    BY DEF Good, Sound, Shape, Aimed, World
  <1>1. \A x \in Creatures :
           /\ v[x].body = w[x].body /\ v[x].at = w[x].at /\ v[x].alive = w[x].alive
           /\ v[x].client = w[x].client /\ v[x].due = w[x].due /\ v[x].summons = w[x].summons
           /\ v[x].master = w[x].master /\ v[x].targets = w[x].targets
           /\ v[x].friends = w[x].friends /\ v[x].listed = w[x].listed
           /\ v[x].check = w[x].check /\ v[x].refs = w[x].refs
    BY DEF Aimed, Same, Fields
  <1>2. Quiet(w, v) /\ World(v) = World(w)
    BY <1>1 DEF Quiet, World
  <1>3. Shape(v)
    <2>1. ASSUME NEW c \in Creatures, v[c].body = "none" PROVE v[c] = Unborn
      <3>1. w[c] = Unborn
        BY <1>1, <2>1 DEF Good, Sound, Shape
      <3>2. w[c].at = Null /\ w[c].attacked = Null /\ w[c].follow = Null
        BY <3>1 DEF Unborn, Fresh
      <3>3. t # Null => ~Sees(w, c, t)
        BY <1>0, <3>2, NearAssumption, FiniteCreatures DEF Sees, InReach
      <3>4. v[c].attacked = w[c].attacked /\ v[c].follow = w[c].follow
        BY <3>2, <3>3 DEF Aimed, Turns
      <3>5. v[c] \in Body /\ w[c] \in Body
        BY <1>0 DEF Worlds
      <3>6. v[c] = w[c]
        BY <1>1, <3>4, <3>5 DEF Body
      <3> QED
        BY <3>1, <3>6
    <2> QED
      BY <1>0, <1>1, <2>1 DEF Good, Sound, Shape, Creatures
  <1>4. Counted(v)
    <2>1. \A x : Held(v, x) = Held(w, x)
      BY <1>1, HeldSame
    <2>2. \A x \in Creatures : Own(v[x]) = Own(w[x])
      BY <1>1 DEF Own
    <2> QED
      BY <1>1, <2>1, <2>2 DEF Good, Sound, Counted
  <1>5. Linked(v)
    BY <1>0, <1>2, QuietLinked DEF Good, Sound
  <1>6. Checked(v, e, P) /\ Unheld(v) = {}
    BY <1>1 DEF Good, Sound, Checked, Unheld
  <1>7. Watch(v, e, P)
    <2> SUFFICES ASSUME NEW x \in World(v), NEW a \in Aims(v, x)
                 PROVE  IF InReach(v, x, v[a].at) THEN a \in World(v) ELSE x \in P /\ e \in {x, a}
      BY DEF Watch
    <2>0. x \in Creatures /\ x \in World(w) /\ a \in Creatures
      BY <1>0, <1>2 DEF Aims, Worlds, Body
    <2>1. v[x].at = w[x].at /\ v[a].at = w[a].at
      BY <1>1, <2>0
    <2>2. CASE a \in Aims(w, x)
      BY <1>2, <2>0, <2>1, <2>2 DEF Good, Sound, Watch, InReach
    <2>3. CASE a \notin Aims(w, x)
      <3>1. a = t /\ Sees(w, x, t)
        BY <2>0, <2>3 DEF Aims, Aimed, Turns
      <3> QED
        BY <1>2, <2>0, <2>1, <3>1, FiniteCreatures DEF Sees, InReach
    <2> QED
      BY <2>2, <2>3
  <1>8. ASSUME t = Null PROVE Eased(w, v)
    <2> SUFFICES ASSUME NEW x \in Creatures
                 PROVE  Aims(v, x) \subseteq Aims(w, x) /\ v[x].attacked \in {w[x].attacked, Null}
      BY <1>0 DEF Eased
    <2> QED
      BY <1>8 DEF Aims, Aimed, Turns
  <1> QED
    BY <1>2, <1>3, <1>4, <1>5, <1>6, <1>7, <1>8 DEF Good, Sound, Tame

\* One creature is told whom to attack, or whom to follow.
LEMMA AttackAimed ==
  ASSUME NEW w \in Worlds, NEW x \in Creatures, NEW t \in Creatures \cup {Null},
         NEW a \in Creatures \cup {Null}, Turns(w, x, t, w[x].attacked, a)
  PROVE  /\ Aimed(w, [w EXCEPT ![x].attacked = a], t)
         /\ [w EXCEPT ![x].attacked = a][x].attacked = a
         /\ [w EXCEPT ![x].attacked = a][x].follow = w[x].follow
         /\ \A y \in Creatures : y # x => [w EXCEPT ![x].attacked = a][y] = w[y]
  <1> DEFINE v == [w EXCEPT ![x].attacked = a]
  <1>0. w[x] \in Body /\ DOMAIN w = Creatures
    BY DEF Worlds
  <1>1. v \in Worlds
    BY <1>0 DEF Worlds, Body
  <1>2. v[x].attacked = a /\ v[x].follow = w[x].follow /\ Same(v[x], w[x], {"attacked", "follow"})
    BY <1>0 DEF Body, Same, Fields
  <1>3. \A y \in Creatures : y # x => v[y] = w[y]
    BY <1>0
  <1> HIDE DEF v
  <1>4. \A y \in Creatures : /\ Same(v[y], w[y], {"attacked", "follow"})
                             /\ Turns(w, y, t, w[y].attacked, v[y].attacked)
                             /\ Turns(w, y, t, w[y].follow, v[y].follow)
    BY <1>2, <1>3 DEF Turns, Same
  <1>5. Aimed(w, v, t)
    BY <1>1, <1>4 DEF Aimed
  <1> QED
    BY <1>2, <1>3, <1>5 DEF v

LEMMA FollowAimed ==
  ASSUME NEW w \in Worlds, NEW x \in Creatures, NEW t \in Creatures \cup {Null},
         NEW a \in Creatures \cup {Null}, Turns(w, x, t, w[x].follow, a)
  PROVE  /\ Aimed(w, [w EXCEPT ![x].follow = a], t)
         /\ [w EXCEPT ![x].follow = a][x].follow = a
         /\ [w EXCEPT ![x].follow = a][x].attacked = w[x].attacked
  <1> DEFINE v == [w EXCEPT ![x].follow = a]
  <1>0. w[x] \in Body /\ DOMAIN w = Creatures
    BY DEF Worlds
  <1>1. v \in Worlds
    BY <1>0 DEF Worlds, Body
  <1>2. v[x].follow = a /\ v[x].attacked = w[x].attacked /\ Same(v[x], w[x], {"attacked", "follow"})
    BY <1>0 DEF Body, Same, Fields
  <1>3. \A y \in Creatures : y # x => v[y] = w[y]
    BY <1>0
  <1> HIDE DEF v
  <1>4. \A y \in Creatures : /\ Same(v[y], w[y], {"attacked", "follow"})
                             /\ Turns(w, y, t, w[y].attacked, v[y].attacked)
                             /\ Turns(w, y, t, w[y].follow, v[y].follow)
    BY <1>2, <1>3 DEF Turns, Same
  <1>5. Aimed(w, v, t)
    BY <1>1, <1>4 DEF Aimed
  <1> QED
    BY <1>2, <1>5 DEF v

LEMMA SetAttackedAimed ==
  ASSUME NEW w \in Worlds, NEW c \in Creatures, NEW t \in Creatures \cup {Null}
  PROVE  /\ Aimed(w, SetAttacked(w, c, t), t)
         /\ SetAttacked(w, c, t)[c].attacked \in {t, Null}
         /\ SetAttacked(w, c, t)[c].follow \in {w[c].follow, Null}
  <1> DEFINE sees(v, x) == t = Null \/ Sees(v, x, t)
             order(x, v) == [v EXCEPT ![x].attacked = IF sees(v, x) THEN t ELSE Null]
             S == w[c].summons
             R == [s \in SUBSET S |-> {v \in Worlds : /\ Aimed(w, v, t) /\ v[c].attacked \in {t, Null}
                                                      /\ v[c].follow = w[c].follow}]
             F == [p \in S \X Worlds |-> order(p[1], p[2])]
  <1>0. ASSUME NEW v \in Worlds, NEW x \in Creatures
        PROVE  /\ Aimed(v, order(x, v), t) /\ order(x, v) \in Worlds
               /\ order(x, v)[x].attacked \in {t, Null} /\ order(x, v)[x].follow = v[x].follow
               /\ \A y \in Creatures : y # x => order(x, v)[y] = v[y]
    <2> DEFINE a == IF sees(v, x) THEN t ELSE Null
    <2>1. a \in Creatures \cup {Null} /\ Turns(v, x, t, v[x].attacked, a) /\ a \in {t, Null}
      BY DEF Turns
    <2>2. order(x, v) = [v EXCEPT ![x].attacked = a]
      OBVIOUS
    <2> HIDE DEF a, order
    <2>3. /\ Aimed(v, [v EXCEPT ![x].attacked = a], t)
          /\ [v EXCEPT ![x].attacked = a][x].attacked = a
          /\ [v EXCEPT ![x].attacked = a][x].follow = v[x].follow
          /\ \A y \in Creatures : y # x => [v EXCEPT ![x].attacked = a][y] = v[y]
      BY <2>1, AttackAimed
    <2>4. \A u : Aimed(v, u, t) => u \in Worlds
      BY DEF Aimed
    <2> QED
      BY <2>1, <2>2, <2>3, <2>4
  <1>1. IsFiniteSet(S) /\ S \subseteq Creatures
    <2>1. S \subseteq Creatures
      BY DEF Worlds, Body, Creatures
    <2> QED
      BY <2>1, FiniteCreatures, FS_Subset
  <1>2. order(c, w) \in R[{}]
    <2> HIDE DEF order
    <2> QED
      BY <1>0
  <1>3. ASSUME NEW s \in SUBSET S, NEW v \in Worlds, NEW x \in S, v \in R[s \ {x}]
        PROVE  order(x, v) \in R[s]
    <2>1. Aimed(w, v, t) /\ v[c].attacked \in {t, Null} /\ v[c].follow = w[c].follow /\ x \in Creatures
      BY <1>1, <1>3
    <2> HIDE DEF order
    <2>2. Aimed(v, order(x, v), t) /\ order(x, v) \in Worlds
      BY <1>0, <2>1
    <2>3. Aimed(w, order(x, v), t)
      BY <2>1, <2>2, AimedTwice
    <2>4. order(x, v)[c].attacked \in {t, Null} /\ order(x, v)[c].follow = w[c].follow
      <3>1. CASE x = c
        BY <1>0, <2>1, <3>1
      <3>2. CASE x # c
        <4>1. order(x, v)[c] = v[c]
          BY <1>0, <2>1, <3>2
        <4> QED
          BY <2>1, <4>1
      <3> QED
        BY <3>1, <3>2
    <2> QED
      BY <2>2, <2>3, <2>4
  <1>10. Stays(S, Worlds, R, F, order(c, w))
    <2>1. R \in [SUBSET S -> SUBSET Worlds]
      OBVIOUS
    <2>2. ASSUME NEW s \in SUBSET S, NEW v \in Worlds, s # {}, v \in R[s \ {Some(s)}]
          PROVE  F[<<Some(s), v>>] \in R[s]
      <3>1. Some(s) \in S /\ F[<<Some(s), v>>] = order(Some(s), v)
        BY <2>2, SomeOf
      <3> HIDE DEF S, R, F, order
      <3> QED
        BY <1>3, <2>2, <3>1
    <2> HIDE DEF S, R, F, order
    <2> QED
      BY <1>2, <2>1, <2>2 DEF Stays
  <1>11. PICK g \in [SUBSET S -> Worlds] : Folding(S, R, F, order(c, w), g)
    <2> HIDE DEF S, R, F, order
    <2> QED
      BY <1>1, <1>10, FoldExists
  <1> DEFINE next(h, s) == IF s = {} THEN order(c, w) ELSE order(Some(s), h[s \ {Some(s)}])
             fold == CHOOSE h : h = [s \in SUBSET S |-> next(h, s)]
  <1>12. ASSUME NEW s \in SUBSET S, NEW v \in Worlds, s # {}
         PROVE  F[<<Some(s), v>>] = order(Some(s), v)
    BY <1>12, SomeOf
  <1>13. fold = [s \in SUBSET S |-> next(fold, s)]
    <2>1. g = [s \in SUBSET S |-> next(g, s)]
      <3> HIDE DEF S, R, F, order
      <3> QED
        BY <1>11, <1>12 DEF Folding
    <2> HIDE DEF next, order
    <2> QED
      BY <2>1
  <1>14. FoldSet(order, order(c, w), S) = fold[S]
    BY DEF FoldSet, MapThenFoldSet, Some
  <1>15. fold[S] \in R[S]
    <2> HIDE DEF S, R, F, order, fold
    <2>1. Unfolds(S, Worlds, F, order(c, w), fold)
      BY <1>12, <1>13 DEF Unfolds
    <2> QED
      BY <1>1, <1>10, <2>1, FoldIn
  <1>20. FoldSet(order, order(c, w), S) \in R[S]
    <2> HIDE DEF S, R, F, order, fold
    <2> QED
      BY <1>14, <1>15
  <1> DEFINE obeyed == FoldSet(order, order(c, w), S)
  <1>21. SetAttacked(w, c, t) =
            IF ~sees(w, c) THEN order(c, w)
            ELSE IF c \in Players THEN [obeyed EXCEPT ![c].follow = Null] ELSE obeyed
    BY DEF SetAttacked
  <1>22. /\ obeyed \in Worlds /\ Aimed(w, obeyed, t) /\ obeyed[c].attacked \in {t, Null}
         /\ obeyed[c].follow = w[c].follow
    <2> HIDE DEF obeyed, order
    <2>1. obeyed \in R[S]
      BY <1>20 DEF obeyed
    <2> QED
      BY <2>1
  <1> HIDE DEF obeyed
  <1>23. /\ Aimed(obeyed, [obeyed EXCEPT ![c].follow = Null], t)
         /\ [obeyed EXCEPT ![c].follow = Null][c].follow = Null
         /\ [obeyed EXCEPT ![c].follow = Null][c].attacked = obeyed[c].attacked
    <2>1. Turns(obeyed, c, t, obeyed[c].follow, Null)
      BY DEF Turns
    <2> QED
      BY <1>22, <2>1, FollowAimed
  <1>24. Aimed(w, [obeyed EXCEPT ![c].follow = Null], t)
    BY <1>22, <1>23, AimedTwice
  <1>25. /\ Aimed(w, order(c, w), t) /\ order(c, w)[c].attacked \in {t, Null}
         /\ order(c, w)[c].follow = w[c].follow
    <2> HIDE DEF order
    <2> QED
      BY <1>0
  <1> HIDE DEF order, sees
  <1> QED
    BY <1>21, <1>22, <1>23, <1>24, <1>25

LEMMA SetFollowAimed ==
  ASSUME NEW w \in Worlds, NEW c \in Creatures, NEW t \in Creatures \cup {Null}
  PROVE  /\ Aimed(w, SetFollow(w, c, t), t)
         /\ SetFollow(w, c, t)[c].follow \in {t, Null}
         /\ SetFollow(w, c, t)[c].attacked \in {w[c].attacked, Null}
  <1>1. CASE t = Null \/ t = w[c].follow \/ Sees(w, c, t)
    <2>1. Turns(w, c, t, w[c].follow, t)
      BY <1>1 DEF Turns
    <2>2. SetFollow(w, c, t) = [w EXCEPT ![c].follow = t]
      BY <1>1 DEF SetFollow
    <2>3. /\ Aimed(w, [w EXCEPT ![c].follow = t], t)
          /\ [w EXCEPT ![c].follow = t][c].follow = t
          /\ [w EXCEPT ![c].follow = t][c].attacked = w[c].attacked
      BY <2>1, FollowAimed
    <2> QED
      BY <2>2, <2>3
  <1>2. CASE ~(t = Null \/ t = w[c].follow \/ Sees(w, c, t))
    <2> DEFINE v == [w EXCEPT ![c].follow = Null]
    <2>1. Turns(w, c, t, w[c].follow, Null) /\ Turns(w, c, Null, w[c].follow, Null)
      BY DEF Turns
    <2>2. /\ Aimed(w, v, t) /\ Aimed(w, v, Null) /\ v[c].follow = Null
          /\ v[c].attacked = w[c].attacked
      BY <2>1, FollowAimed
    <2> HIDE DEF v
    <2>3. v \in Worlds
      BY <2>2 DEF Aimed
    <2>4. /\ Aimed(v, SetAttacked(v, c, Null), Null)
          /\ SetAttacked(v, c, Null)[c].attacked \in {Null}
          /\ SetAttacked(v, c, Null)[c].follow \in {v[c].follow, Null}
      BY <2>3, SetAttackedAimed
    <2>5. Aimed(v, SetAttacked(v, c, Null), t)
      BY <2>4 DEF Aimed, Turns
    <2>6. Aimed(w, SetAttacked(v, c, Null), t)
      BY <2>2, <2>5, AimedTwice
    <2>7. SetFollow(w, c, t) = IF c \in Players THEN SetAttacked(v, c, Null) ELSE v
      BY <1>2 DEF SetFollow, v
    <2> QED
      BY <2>2, <2>4, <2>6, <2>7
  <1> QED
    BY <1>1, <1>2

LEMMA DisappearAimed ==
  ASSUME NEW w \in Worlds, NEW c \in Creatures, NEW t \in Creatures
  PROVE  Aimed(w, Disappear(w, c, t), Null) /\ t \notin Aims(Disappear(w, c, t), c)
  <1> DEFINE u == IF w[c].attacked = t THEN SetAttacked(w, c, Null) ELSE w
             v == Unfollow(u, c, t)
  <1>0. t # Null
    BY FiniteCreatures
  <1>1. Aimed(w, u, Null) /\ u[c].attacked # t /\ u \in Worlds
    <2>1. CASE w[c].attacked = t
      <3>1. /\ Aimed(w, SetAttacked(w, c, Null), Null)
            /\ SetAttacked(w, c, Null)[c].attacked \in {Null}
        BY SetAttackedAimed
      <3> QED
        BY <1>0, <2>1, <3>1 DEF Aimed
    <2>2. CASE w[c].attacked # t
      BY <2>2, AimedAlone
    <2> QED
      BY <2>1, <2>2
  <1> HIDE DEF u
  <1>2. Aimed(u, v, Null) /\ v[c].attacked # t /\ v[c].follow # t
    <2>1. CASE u[c].follow = t
      <3>1. /\ Aimed(u, SetFollow(u, c, Null), Null)
            /\ SetFollow(u, c, Null)[c].follow \in {Null}
            /\ SetFollow(u, c, Null)[c].attacked \in {u[c].attacked, Null}
        BY <1>1, SetFollowAimed
      <3> QED
        BY <1>0, <1>1, <2>1, <3>1 DEF Unfollow
    <2>2. CASE u[c].follow # t
      BY <1>1, <2>2, AimedAlone DEF Unfollow
    <2> QED
      BY <2>1, <2>2
  <1> HIDE DEF v
  <1>3. Aimed(w, v, Null)
    BY <1>1, <1>2, AimedTwice
  <1>4. Disappear(w, c, t) = v
    BY DEF Disappear, v, u
  <1> QED
    BY <1>2, <1>3, <1>4 DEF Aims

LEMMA DisappearGood ==
  ASSUME NEW w, NEW e, NEW P, Good(w, e, P), NEW c \in Creatures, NEW t \in Creatures
  PROVE  /\ Good(Disappear(w, c, t), e, P) /\ Tame(w, Disappear(w, c, t))
         /\ t \notin Aims(Disappear(w, c, t), c)
  <1>1. w \in Worlds
    BY DEF Good, Sound, Shape
  <1> QED
    BY <1>1, DisappearAimed, AimedGood

\* A monster turns to somebody of the world who is no player without a client.
LEMMA SelectAimed ==
  ASSUME NEW w \in Worlds, NEW m \in Monsters, NEW t
  PROVE  \/ Select(w, m, t) = w
         \/ t \in World(w) /\ ~Clientless(w, t) /\ Aimed(w, Select(w, m, t), t)
  <1>1. CASE ~(t \in w[m].targets /\ t \in World(w) /\ ~Clientless(w, t))
    BY <1>1 DEF Select
  <1>2. CASE t \in w[m].targets /\ t \in World(w) /\ ~Clientless(w, t)
    <2> DEFINE u == SetAttacked(w, m, t)
               v == SetFollow(u, m, t)
    <2>0. t \in Creatures /\ m \in Creatures
      BY <1>2 DEF World, Creatures
    <2>1. Aimed(w, u, t) /\ u \in Worlds
      BY <2>0, SetAttackedAimed DEF Aimed
    <2> HIDE DEF u
    <2>2. Aimed(u, v, t)
      BY <2>0, <2>1, SetFollowAimed
    <2> HIDE DEF v
    <2>3. Aimed(w, v, t)
      BY <2>0, <2>1, <2>2, AimedTwice
    <2>4. Select(w, m, t) = v
      BY <1>2 DEF Select, v, u
    <2> QED
      BY <1>2, <2>3, <2>4
  <1> QED
    BY <1>1, <1>2

LEMMA SelectGood ==
  ASSUME NEW w, NEW e, NEW P, Good(w, e, P), NEW m \in Monsters, NEW t
  PROVE  /\ Good(Select(w, m, t), e, P) /\ Quiet(w, Select(w, m, t))
         /\ Aims(Select(w, m, t), m) \subseteq
               Aims(w, m) \cup {a \in World(w) : InReach(w, m, w[a].at)}
  <1>0. w \in Worlds /\ m \in Creatures
    BY DEF Good, Sound, Shape, Creatures
  <1>1. CASE Select(w, m, t) = w
    BY <1>1, QuietAlone DEF Tame
  <1>2. CASE t \in World(w) /\ Aimed(w, Select(w, m, t), t)
    BY <1>0, <1>2, AimedGood DEF Aims, Aimed, Turns, Sees
  <1> QED
    BY <1>0, <1>1, <1>2, SelectAimed

-----------------------------------------------------------------------------
(* The spectators of a move. *)

\* x aims at nobody out of reach because of c.
Told(w, x, c) == \A t \in Aims(w, x) : c \in {x, t} => InReach(w, x, w[t].at)

\* x aims at nobody new but creatures in reach.
Bold(w, v, x) == Aims(v, x) \subseteq Aims(w, x) \cup {t \in World(w) : InReach(w, x, w[t].at)}

LEMMA ToldIsGood ==
  ASSUME NEW w, NEW c, NEW P, Good(w, c, P), NEW x \in Creatures, x \in World(w) => Told(w, x, c)
  PROVE  Good(w, c, P \ {x})
  <1>1. Watch(w, c, P \ {x})
    BY DEF Good, Sound, Watch, Told
  <1>2. Checked(w, c, P \ {x})
    BY FiniteCreatures DEF Good, Sound, Checked
  <1> QED
    BY <1>1, <1>2 DEF Good, Sound

LEMMA ToldStill ==
  ASSUME NEW w, NEW c, NEW P, Good(w, c, P), NEW x \in World(w), Told(w, x, c),
         NEW v, Quiet(w, v), Bold(w, v, x)
  PROVE  Told(v, x, c)
  <1> SUFFICES ASSUME NEW t \in Aims(v, x), c \in {x, t} PROVE InReach(v, x, v[t].at)
    BY DEF Told
  <1>1. InReach(w, x, w[t].at)
    BY DEF Bold, Told
  <1>2. t \in World(w)
    <2>1. CASE t \in Aims(w, x)
      BY <1>1, <2>1 DEF Good, Sound, Watch
    <2>2. CASE t \notin Aims(w, x)
      BY <2>2 DEF Bold
    <2> QED
      BY <2>1, <2>2
  <1>3. v[x].at = w[x].at /\ v[t].at = w[t].at
    BY <1>2 DEF Quiet, Kept, World
  <1> QED
    BY <1>1, <1>3 DEF InReach

LEMMA TameIsBold ==
  ASSUME NEW w, NEW v, Tame(w, v), NEW x \in World(w)
  PROVE  Bold(w, v, x)
  BY DEF Tame, Eased, Bold

LEMMA BoldTwice ==
  ASSUME NEW w, NEW u, NEW v, NEW x \in World(w), Quiet(w, u), Bold(w, u, x), Bold(u, v, x)
  PROVE  Bold(w, v, x)
  <1>1. World(u) = World(w)
    BY QuietWorld
  <1>2. \A t \in World(w) : u[t].at = w[t].at
    BY DEF Quiet, Kept, World
  <1>3. \A t \in World(u) : InReach(u, x, u[t].at) => InReach(w, x, w[t].at)
    BY <1>1, <1>2 DEF InReach
  <1> QED
    BY <1>1, <1>3 DEF Bold

LEMMA LoseAimed ==
  ASSUME NEW w \in Worlds, NEW x \in Creatures, NEW c, NEW t \in Creatures \cup {Null}
  PROVE  /\ Aimed(w, Lose(w, x, c, t), Null)
         /\ t \in Aims(Lose(w, x, c, t), x) /\ c \in {x, t} => InReach(w, x, w[t].at)
  <1>1. CASE t # Null /\ c \in {x, t} /\ ~Sees(w, x, t)
    BY <1>1, DisappearAimed DEF Lose
  <1>2. CASE ~(t # Null /\ c \in {x, t} /\ ~Sees(w, x, t))
    <2>1. Lose(w, x, c, t) = w
      BY <1>2 DEF Lose
    <2> QED
      BY <1>2, <2>1, AimedAlone DEF Aims, Sees
  <1> QED
    BY <1>1, <1>2

LEMMA LoseSightGood ==
  ASSUME NEW w, NEW e, NEW P, Good(w, e, P), NEW x \in Creatures, NEW c
  PROVE  /\ Good(LoseSight(w, x, c), e, P) /\ Tame(w, LoseSight(w, x, c))
         /\ Told(LoseSight(w, x, c), x, c)
  <1> DEFINE u == Lose(w, x, c, w[x].follow)
             v == Lose(u, x, c, u[x].attacked)
  <1>0. w \in Worlds /\ w[x].follow \in Creatures \cup {Null}
    BY DEF Good, Sound, Shape, Worlds, Body
  <1>1. /\ Aimed(w, u, Null)
        /\ w[x].follow \in Aims(u, x) /\ c \in {x, w[x].follow} => InReach(w, x, w[w[x].follow].at)
    BY <1>0, LoseAimed
  <1>2. u \in Worlds /\ u[x].attacked \in Creatures \cup {Null}
    BY <1>1 DEF Aimed, Worlds, Body
  <1> HIDE DEF u
  <1>3. /\ Aimed(u, v, Null)
        /\ u[x].attacked \in Aims(v, x) /\ c \in {x, u[x].attacked}
              => InReach(u, x, u[u[x].attacked].at)
    BY <1>2, LoseAimed
  <1> HIDE DEF v
  <1>4. Aimed(w, v, Null)
    BY <1>1, <1>3, AimedTwice
  <1>5. Good(v, e, P) /\ Tame(w, v)
    BY <1>4, AimedGood
  <1>6. \A y \in Creatures : u[y].at = w[y].at /\ v[y].at = w[y].at
    BY <1>1, <1>4 DEF Aimed, Same, Fields
  <1>7. Told(v, x, c)
    <2> SUFFICES ASSUME NEW t \in Aims(v, x), c \in {x, t} PROVE InReach(v, x, v[t].at)
      BY DEF Told
    <2>1. t # Null /\ t \in {v[x].attacked, v[x].follow}
      BY DEF Aims
    <2>2. v[x].attacked \in {u[x].attacked, Null} /\ v[x].follow \in {u[x].follow, Null}
          /\ u[x].follow \in {w[x].follow, Null}
      BY <1>1, <1>3 DEF Aimed, Turns
    <2>3. t \in Creatures
      BY <1>0, <1>2, <2>1, <2>2
    <2>4. CASE t = u[x].attacked
      BY <1>3, <1>6, <2>3, <2>4 DEF InReach
    <2>5. CASE t = w[x].follow
      <3>1. t \in Aims(u, x)
        BY <2>1, <2>2, <2>5 DEF Aims
      <3> QED
        BY <1>1, <1>6, <2>3, <2>5, <3>1 DEF InReach
    <2> QED
      BY <2>1, <2>2, <2>4, <2>5
  <1>8. LoseSight(w, x, c) = v
    BY DEF LoseSight, LoseAttacked, v, u
  <1> QED
    BY <1>5, <1>7, <1>8

LEMMA MeetGood ==
  ASSUME NEW w, NEW e, NEW P, Good(w, e, P), NEW x \in Monsters, NEW c \in Creatures, NEW from,
         Kept(w, x), Kept(w, c)
  PROVE  Good(Meet(w, x, c, from), e, P) /\ Tame(w, Meet(w, x, c, from))
  BY FoundGood, LeaveGood, QuietAlone DEF Meet

\* When v comes of w, no player has come or lost or found a client, and who attacks a
\* player without a client did so before.
Meek(w, v) ==
    \A p \in Players : p \in World(v) =>
        /\ p \in World(w) /\ v[p].client = w[p].client
        /\ \A m \in World(v) :
              v[m].attacked = p /\ ~v[p].client => m \in World(w) /\ w[m].attacked = p

LEMMA MeekAlone == ASSUME NEW w PROVE Meek(w, w)
  BY DEF Meek

LEMMA MeekTwice ==
  ASSUME NEW u, NEW v, NEW w, Meek(u, v), Meek(v, w)
  PROVE  Meek(u, w)
  BY DEF Meek

LEMMA TameIsMeek ==
  ASSUME NEW w, NEW v, Tame(w, v)
  PROVE  Meek(w, v)
  <1>1. World(v) = World(w) /\ \A m \in World(w) : v[m].attacked \in {w[m].attacked, Null}
    BY QuietWorld DEF Tame, Eased
  <1>2. \A p \in Players : p \in World(w) => p \in Creatures /\ Kept(w, p)
    BY DEF Kept, World
  <1>3. \A p \in Players : p # Null
    BY KindAssumption
  <1>4. \A p \in Players : p \in World(w) => v[p].client = w[p].client
    BY <1>2 DEF Tame, Quiet
  <1> QED
    BY <1>1, <1>3, <1>4 DEF Meek

\* Nobody is told to attack t unless t has a client.
LEMMA AimedIsMeek ==
  ASSUME NEW w, NEW v, NEW t, Aimed(w, v, t), t \in Players => w[t].client
  PROVE  Meek(w, v)
  <1>1. World(v) = World(w) /\ World(w) \subseteq Creatures
    BY DEF Aimed, Same, Fields, World
  <1>2. \A m \in World(v) : v[m].attacked \in {w[m].attacked, Null, t}
    BY <1>1 DEF Aimed, Turns
  <1>3. \A p \in Players : p # Null /\ p \in Creatures
    BY KindAssumption DEF Creatures
  <1>4. \A p \in Players : v[p].client = w[p].client
    BY <1>3 DEF Aimed, Same, Fields
  <1> QED
    BY <1>1, <1>2, <1>3, <1>4 DEF Meek

LEMMA SelectMeek ==
  ASSUME NEW w \in Worlds, NEW m \in Monsters, NEW t
  PROVE  Meek(w, Select(w, m, t))
  BY SelectAimed, AimedIsMeek, MeekAlone DEF Clientless

LEMMA TurnToGood ==
  ASSUME NEW w, NEW e, NEW P, Good(w, e, P), NEW x \in Monsters, NEW c, NEW pick
  PROVE  /\ Good(TurnTo(w, x, c, pick), e, P) /\ Quiet(w, TurnTo(w, x, c, pick))
         /\ Bold(w, TurnTo(w, x, c, pick), x) /\ Meek(w, TurnTo(w, x, c, pick))
  <1>1. w \in Worlds
    BY DEF Good, Sound, Shape
  <1> QED
    BY <1>1, SelectGood, SelectMeek, QuietAlone, MeekAlone DEF TurnTo, Tame, Bold

\* A monster that looks around, as it does when it comes into the world or moves.
LEMMA LookGood ==
  ASSUME NEW w, NEW e, NEW P, Good(w, e, P), NEW m \in Monsters, Kept(w, m)
  PROVE  /\ Good(UpdateIdle(UpdateTargets(w, m), m), e, P)
         /\ Tame(w, UpdateIdle(UpdateTargets(w, m), m))
  <1> DEFINE u == UpdateTargets(w, m)
  <1>0. m \in Creatures /\ Shape(w)
    BY DEF Creatures, Good, Sound
  <1>1. Good(u, e, P) /\ Tame(w, u)
    BY UpdateTargetsGood
  <1> HIDE DEF u
  <1>2. u[m].body # "none"
    BY <1>0, <1>1, StaysBorn
  <1>3. Good(UpdateIdle(u, m), e, P) /\ Tame(u, UpdateIdle(u, m))
    BY <1>1, <1>2, UpdateIdleGood
  <1>4. Tame(w, UpdateIdle(u, m))
    BY <1>1, <1>3, TameTwice
  <1> QED
    BY <1>3, <1>4 DEF u

LEMMA NoticeGood ==
  ASSUME NEW w, NEW e, NEW P, Good(w, e, P), NEW x \in Creatures, NEW c \in Creatures, NEW from,
         NEW picks, Kept(w, x), Kept(w, c)
  PROVE  /\ Good(Notice(w, x, c, from, picks), e, P) /\ Quiet(w, Notice(w, x, c, from, picks))
         /\ x \in World(w) => Bold(w, Notice(w, x, c, from, picks), x)
         /\ Meek(w, Notice(w, x, c, from, picks))
  <1>1. CASE x \in Players
    BY <1>1, QuietAlone, TameIsBold, MeekAlone DEF Notice, Tame
  <1>2. CASE x \notin Players /\ x = c
    <2>1. x \in Monsters
      BY <1>2 DEF Creatures
    <2>2. Notice(w, x, c, from, picks) = UpdateIdle(UpdateTargets(w, x), x)
      BY <1>2 DEF Notice
    <2>3. /\ Good(UpdateIdle(UpdateTargets(w, x), x), e, P)
          /\ Tame(w, UpdateIdle(UpdateTargets(w, x), x))
      BY <2>1, LookGood
    <2> QED
      BY <2>2, <2>3, TameIsBold, TameIsMeek DEF Tame
  <1>3. CASE x \notin Players /\ x # c
    <2> DEFINE t == Meet(w, x, c, from)
               u == UpdateIdle(t, x)
               v == TurnTo(u, x, c, picks[x])
    <2>0. x \in Monsters /\ Shape(w)
      BY <1>3 DEF Creatures, Good, Sound
    <2>1. Good(t, e, P) /\ Tame(w, t)
      BY <2>0, MeetGood
    <2> HIDE DEF t
    <2>2. t[x].body # "none"
      BY <2>0, <2>1, StaysBorn
    <2>3. Good(u, e, P) /\ Tame(t, u)
      BY <2>0, <2>1, <2>2, UpdateIdleGood
    <2> HIDE DEF u
    <2>4. Tame(w, u)
      BY <2>1, <2>3, TameTwice
    <2>5. Good(v, e, P) /\ Quiet(u, v) /\ Bold(u, v, x) /\ Meek(u, v)
      BY <2>0, <2>3, TurnToGood
    <2> HIDE DEF v
    <2>6. Quiet(w, v)
      BY <2>4, <2>5, QuietTwice DEF Tame
    <2>7. x \in World(w) => Bold(w, v, x)
      BY <2>4, <2>5, TameIsBold, BoldTwice DEF Tame
    <2>8. Notice(w, x, c, from, picks) = v
      BY <1>3 DEF Notice, v, u, t
    <2>9. Meek(w, v)
      BY <2>4, <2>5, TameIsMeek, MeekTwice
    <2> QED
      BY <2>5, <2>6, <2>7, <2>8, <2>9
  <1> QED
    BY <1>1, <1>2, <1>3

LEMMA OnMoveGood ==
  ASSUME NEW w, NEW c \in Creatures, NEW P, Good(w, c, P), NEW x \in Creatures, NEW from, NEW picks,
         Kept(w, x), Kept(w, c)
  PROVE  /\ Good(OnMove(w, x, c, from, picks), c, P \ {x}) /\ Quiet(w, OnMove(w, x, c, from, picks))
         /\ Meek(w, OnMove(w, x, c, from, picks))
  <1> DEFINE u == LoseSight(w, x, c)
             v == Notice(u, x, c, from, picks)
  <1>0. Shape(w)
    BY DEF Good, Sound
  <1>1. Good(u, c, P) /\ Tame(w, u) /\ Told(u, x, c)
    BY LoseSightGood
  <1> HIDE DEF u
  <1>2. Kept(u, x) /\ Kept(u, c)
    BY <1>0, <1>1, StaysBorn
  <1>3. Good(v, c, P) /\ Quiet(u, v) /\ (x \in World(u) => Bold(u, v, x)) /\ Meek(u, v)
    BY <1>1, <1>2, NoticeGood
  <1>4. OnMove(w, x, c, from, picks) = v
    BY DEF OnMove, v, u
  <1> HIDE DEF v
  <1>5. x \in World(v) => Told(v, x, c)
    <2>1. World(v) = World(u)
      BY <1>3, QuietWorld
    <2> QED
      BY <1>1, <1>3, <2>1, ToldStill
  <1>6. Good(v, c, P \ {x})
    BY <1>3, <1>5, ToldIsGood
  <1>7. Quiet(w, v) /\ Meek(w, v)
    BY <1>1, <1>3, QuietTwice, TameIsMeek, MeekTwice DEF Tame
  <1> QED
    BY <1>4, <1>6, <1>7

-----------------------------------------------------------------------------
(* Masters. *)

\* c, and nobody else, may have found another master, new.
Joined(w, v, c, new) ==
    /\ \A x \in Creatures :
          /\ (v[x].body = w[x].body /\ v[x].at = w[x].at) \/ v[x].body = "none"
          /\ v[x].summons \subseteq w[x].summons \cup (IF x = new THEN {c} ELSE {})
          /\ Kept(w, x) =>
                /\ v[x].body = w[x].body /\ v[x].at = w[x].at /\ v[x].alive = w[x].alive
                /\ v[x].client = w[x].client /\ v[x].due = w[x].due
          /\ w[x].body = "world" => v[x].master = IF x = c THEN new ELSE w[x].master
    /\ Eased(w, v)

LEMMA SetMasterGood ==
  ASSUME NEW w, NEW e, NEW P, Good(w, e, P), NEW c \in World(w), c \in Monsters,
         NEW new \in World(w) \cup {Null}, w[c].master # new
  PROVE  Good(SetMaster(w, c, new), e, P) /\ Joined(w, SetMaster(w, c, new), c, new)
  <1> DEFINE old == w[c].master
             joined == IF new = Null THEN w
                       ELSE [w EXCEPT ![new].summons = @ \cup {c}, ![c].refs = @ + 1]
             owned == [joined EXCEPT ![c].master = new]
             u == IF old = Null THEN owned ELSE [owned EXCEPT ![old].summons = @ \ {c}]
             S == IF old = Null THEN {} ELSE {c}
  <1>0. /\ w \in Worlds /\ c \in Creatures /\ new \in Creatures \cup {Null}
        /\ old \in Creatures \cup {Null} /\ Null \notin Creatures
    BY FiniteCreatures DEF Good, Sound, Shape, Worlds, Body, World
  <1>1. old # Null => c \in w[old].summons
    BY DEF Good, Sound, Linked
  <1>2. \A d \in Creatures : c \in w[d].summons => d = old
    BY DEF Good, Sound, Linked, World
  <1>3. /\ joined \in Worlds
        /\ \A x \in Creatures :
              /\ Same(joined[x], w[x], {"summons", "refs"})
              /\ joined[x].summons = w[x].summons \cup (IF x = new THEN {c} ELSE {})
              /\ joined[x].refs = w[x].refs + One(x = c /\ new # Null)
    <2>1. CASE new = Null
      <3>1. \A x \in Creatures : w[x].refs \in Nat
        BY <1>0 DEF Worlds, Body
      <3> QED
        BY <1>0, <2>1, <3>1 DEF Same, One
    <2>2. CASE new # Null
      <3> DEFINE j == [w EXCEPT ![new].summons = @ \cup {c}, ![c].refs = @ + 1]
      <3>1. new \in Creatures /\ w[new] \in Body /\ w[c] \in Body /\ DOMAIN w = Creatures
        BY <1>0, <2>2 DEF Worlds
      <3>2. j \in Worlds
        <4> DEFINE k == [w EXCEPT ![new].summons = @ \cup {c}]
        <4>1. k \in Worlds
          BY <1>0, <3>1 DEF Worlds, Body
        <4>2. j = [k EXCEPT ![c].refs = @ + 1]
          OBVIOUS
        <4> HIDE DEF k, j
        <4> QED
          BY <1>0, <4>1, <4>2 DEF Worlds, Body
      <3>3. ASSUME NEW x \in Creatures
            PROVE  /\ Same(j[x], w[x], {"summons", "refs"})
                   /\ j[x].summons = w[x].summons \cup (IF x = new THEN {c} ELSE {})
                   /\ j[x].refs = w[x].refs + One(x = c)
        <4>1. w[x] \in Body
          BY <1>0 DEF Worlds
        <4>2. CASE x = c /\ x = new
          BY <3>1, <4>1, <4>2 DEF Same, Fields, Body, One
        <4>3. CASE x # c /\ x = new
          BY <3>1, <4>1, <4>3 DEF Same, Fields, Body, One
        <4>4. CASE x = c /\ x # new
          BY <3>1, <4>1, <4>4 DEF Same, Fields, Body, One
        <4>5. CASE x # c /\ x # new
          BY <3>1, <4>1, <4>5 DEF Same, Fields, Body, One
        <4> QED
          BY <4>2, <4>3, <4>4, <4>5
      <3>4. joined = j
        BY <2>2
      <3> HIDE DEF j, joined
      <3> QED
        BY <2>2, <3>2, <3>3, <3>4
    <2> QED
      BY <2>1, <2>2
  <1> HIDE DEF joined
  <1>4. /\ owned \in Worlds
        /\ \A x \in Creatures :
              /\ Same(owned[x], joined[x], {"master"})
              /\ owned[x].master = IF x = c THEN new ELSE joined[x].master
    <2>1. joined[c] \in Body /\ DOMAIN joined = Creatures
      BY <1>0, <1>3 DEF Worlds
    <2>2. owned \in Worlds
      <3>1. owned = Mastered(joined, c, new)
        BY DEF Mastered
      <3> HIDE DEF owned
      <3> QED
        BY <1>0, <1>3, <3>1, MasteredWorld
    <2>3. ASSUME NEW x \in Creatures
          PROVE  /\ Same(owned[x], joined[x], {"master"})
                 /\ owned[x].master = IF x = c THEN new ELSE joined[x].master
      <3>1. CASE x = c
        BY <2>1, <3>1 DEF Same, Fields, Body
      <3>2. CASE x # c
        BY <2>1, <3>2 DEF Same
      <3> QED
        BY <3>1, <3>2
    <2> QED
      BY <2>2, <2>3
  <1> HIDE DEF owned
  <1>5. /\ u \in Worlds
        /\ \A x \in Creatures :
              /\ Same(u[x], owned[x], {"summons"})
              /\ u[x].summons = owned[x].summons \ (IF x = old THEN {c} ELSE {})
    <2>1. CASE old = Null
      BY <1>0, <1>4, <2>1 DEF Same
    <2>2. CASE old # Null
      <3> DEFINE r == [owned EXCEPT ![old].summons = @ \ {c}]
      <3>1. old \in Creatures /\ owned[old] \in Body /\ DOMAIN owned = Creatures
        BY <1>0, <1>4, <2>2 DEF Worlds
      <3> HIDE DEF old
      <3>2. r \in Worlds
        BY <1>4, <3>1 DEF Worlds, Body
      <3>3. ASSUME NEW x \in Creatures
            PROVE  /\ Same(r[x], owned[x], {"summons"})
                   /\ r[x].summons = owned[x].summons \ (IF x = old THEN {c} ELSE {})
        <4>1. CASE x = old
          BY <3>1, <4>1 DEF Same, Fields, Body
        <4>2. CASE x # old
          BY <3>1, <4>2 DEF Same
        <4> QED
          BY <4>1, <4>2
      <3>4. u = r
        BY <2>2
      <3> HIDE DEF r, u
      <3> QED
        BY <3>2, <3>3, <3>4
    <2> QED
      BY <2>1, <2>2
  <1> HIDE DEF u
  <1>6. \A x \in Creatures :
           /\ u[x].targets = w[x].targets /\ u[x].friends = w[x].friends
           /\ u[x].body = w[x].body /\ u[x].at = w[x].at /\ u[x].alive = w[x].alive
           /\ u[x].client = w[x].client /\ u[x].attacked = w[x].attacked
           /\ u[x].follow = w[x].follow /\ u[x].listed = w[x].listed
           /\ u[x].check = w[x].check /\ u[x].due = w[x].due
    BY <1>3, <1>4, <1>5 DEF Same, Fields
  <1>7. \A x \in Creatures :
           /\ u[x].summons = (w[x].summons \cup (IF x = new THEN {c} ELSE {}))
                                \ (IF x = old THEN {c} ELSE {})
           /\ u[x].master = IF x = c THEN new ELSE w[x].master
           /\ u[x].refs = w[x].refs + One(x = c /\ new # Null)
    BY <1>3, <1>4, <1>5 DEF Same, Fields
  <1>8. World(u) = World(w) /\ \A x \in Creatures : Kept(u, x) <=> Kept(w, x)
    BY <1>6 DEF World, Kept
  <1>9. Shape(u)
    <2>1. ASSUME NEW x \in Creatures, u[x].body = "none" PROVE u[x] = Unborn
      <3>1. w[x] = Unborn
        BY <1>6, <2>1 DEF Good, Sound, Shape
      <3>2. x # c /\ x # new
        <4>1. w[x].body = "none" /\ \A y \in World(w) : w[y].body = "world"
          BY <1>6, <2>1 DEF World
        <4> QED
          BY <1>0, <4>1
      <3>3. x # old
        BY <1>1, <3>1, UnbornIs, <1>0
      <3>4. u[x].summons = w[x].summons /\ u[x].master = w[x].master /\ u[x].refs = w[x].refs
        <4>1. w[x].refs \in Nat
          BY <1>0 DEF Worlds, Body
        <4>2. One(x = c /\ new # Null) = 0
          BY <3>2 DEF One
        <4>3. u[x].refs = w[x].refs + One(x = c /\ new # Null) /\ u[x].master = w[x].master
          BY <1>7, <3>2
        <4>4. u[x].summons = (w[x].summons \cup {}) \ {}
          BY <1>7, <3>2, <3>3
        <4> QED
          BY <4>1, <4>2, <4>3, <4>4
      <3>5. u[x] \in Body /\ w[x] \in Body
        BY <1>0, <1>5 DEF Worlds
      <3>6. u[x] = w[x]
        BY <1>6, <3>4, <3>5 DEF Body
      <3> QED
        BY <3>1, <3>6
    <2> QED
      BY <1>5, <1>6, <2>1 DEF Good, Sound, Shape, Creatures
  <1>10. ASSUME NEW x \in Creatures PROVE u[x].refs = Own(u[x]) + Held(u, x) + One(x \in S)
    <2>1. Own(u[x]) = Own(w[x])
      BY <1>6 DEF Own
    <2>2. Targeting(u, x) = Targeting(w, x) /\ Befriending(u, x) = Befriending(w, x)
      BY <1>6 DEF Targeting, Befriending
    <2>3. w[x].refs = Own(w[x]) + Held(w, x) /\ Own(w[x]) \in Nat
      BY <1>0, OwnCounted DEF Good, Sound, Counted
    <2>4. CASE x # c
      <3>1. Mastering(u, x) = Mastering(w, x)
        BY <1>7, <2>4 DEF Mastering
      <3>2. Held(u, x) = Held(w, x) /\ One(x = c /\ new # Null) = 0 /\ One(x \in S) = 0
        BY <2>2, <2>4, <3>1 DEF Held, One
      <3>3. Held(w, x) \in Nat
        BY <1>0, OwnCounted
      <3> QED
        BY <1>7, <2>1, <2>3, <3>2, <3>3
    <2>5. CASE x = c
      <3>1. Mastering(w, c) = IF old = Null THEN {} ELSE {old}
        BY <1>0, <1>1, <1>2 DEF Mastering
      <3>2. Mastering(u, c) = IF new = Null THEN {} ELSE {new}
        BY <1>0, <1>1, <1>2, <1>7 DEF Mastering
      <3>3. Cardinality({}) = 0 /\ \A y : Cardinality({y}) = 1
        BY FS_EmptySet, FS_Singleton
      <3>4. Cardinality(Mastering(w, c)) = One(old # Null)
            /\ Cardinality(Mastering(u, c)) = One(new # Null)
        <4> HIDE DEF old
        <4> QED
          BY <3>1, <3>2, <3>3 DEF One
      <3>5. One(x \in S) = One(old # Null) /\ One(x = c /\ new # Null) = One(new # Null)
        BY <2>5 DEF One
      <3> HIDE DEF old, S
      <3> QED
        BY <1>7, <2>1, <2>2, <2>3, <2>5, <3>4, <3>5, ListsCounted DEF Held, One
    <2> QED
      BY <2>4, <2>5
  <1>11. Linked(u)
    <2>1. ASSUME NEW x \in World(u), u[x].master # Null
          PROVE  x \in u[u[x].master].summons /\ Kept(u, u[x].master)
      <3>0. x \in World(w) /\ x \in Creatures
        BY <1>8 DEF World
      <3>1. CASE x = c
        <4>1. u[x].master = new /\ new \in World(w) /\ new \in Creatures
          BY <1>0, <1>7, <2>1, <3>1
        <4>2. c \in u[new].summons
          BY <1>7, <4>1
        <4> QED
          BY <1>8, <3>1, <4>1, <4>2 DEF World, Kept
      <3>2. CASE x # c
        <4>1. u[x].master = w[x].master /\ w[x].master \in Creatures
          BY <1>0, <1>7, <2>1, <3>0, <3>2 DEF Worlds, Body
        <4>2. x \in w[w[x].master].summons /\ Kept(w, w[x].master)
          BY <2>1, <3>0, <4>1 DEF Good, Sound, Linked
        <4> QED
          BY <1>7, <1>8, <3>2, <4>1, <4>2
      <3> QED
        BY <3>1, <3>2
    <2>2. ASSUME NEW d \in Creatures, NEW s \in u[d].summons
          PROVE  /\ u[s].body = "world" => u[s].master = d
                 /\ u[d].body = "world" => u[s].body = "world"
      <3>0. s \in Creatures
        BY <1>5 DEF Worlds, Body, Creatures
      <3>1. CASE s = c
        <4>1. d = new
          BY <1>2, <1>7, <2>2, <3>1
        <4> QED
          BY <1>6, <1>7, <1>0, <3>1, <4>1 DEF World
      <3>2. CASE s # c
        <4>1. s \in w[d].summons
          BY <1>7, <2>2, <3>2
        <4> QED
          BY <1>6, <1>7, <3>0, <3>2, <4>1 DEF Good, Sound, Linked
      <3> QED
        BY <3>1, <3>2
    <2> QED
      BY <2>1, <2>2 DEF Linked
  <1>12. Watch(u, e, P) /\ Eased(w, u)
    <2>1. \A x \in Creatures : /\ Aims(u, x) = Aims(w, x) /\ Aims(w, x) \subseteq Creatures
                               /\ u[x].attacked = w[x].attacked
      BY <1>0, <1>6 DEF Aims, Worlds, Body
    <2>2. World(w) \subseteq Creatures
      BY DEF World
    <2>3. Eased(w, u)
      BY <2>1, <2>2 DEF Eased
    <2>4. \A x, t \in Creatures : InReach(u, x, u[t].at) <=> InReach(w, x, w[t].at)
      BY <1>6 DEF InReach
    <2> QED
      BY <1>8, <2>1, <2>2, <2>3, <2>4 DEF Good, Sound, Watch
  <1>13. Checked(u, e, P)
    BY <1>6 DEF Good, Sound, Checked
  <1>14. Unheld(u) = {}
    <2>1. \A x \in Creatures : w[x].refs # 0 /\ w[x].refs \in Nat => u[x].refs # 0
      BY <1>7 DEF One
    <2>2. \A x \in Creatures : w[x].refs \in Nat
      BY <1>0 DEF Worlds, Body
    <2> QED
      BY <1>6, <2>1, <2>2 DEF Good, Unheld
  <1>15. Good(Unref(u, S), e, P) /\ Tame(u, Unref(u, S))
    <2>1. Owing(u, S)
      BY <1>10 DEF Owing
    <2>2. S \in SUBSET Creatures
      BY <1>0
    <2> HIDE DEF S
    <2> QED
      BY <1>9, <1>11, <1>12, <1>13, <1>14, <2>1, <2>2, UnrefGood
  <1>16. SetMaster(w, c, new) = Unref(u, S)
    <2>1. SetMaster(w, c, new) = IF old = Null \/ c \notin owned[old].summons THEN owned
                                 ELSE Unref([owned EXCEPT ![old].summons = @ \ {c}], {c})
      BY DEF SetMaster, owned, joined
    <2>2. old # Null => c \in owned[old].summons
      BY <1>0, <1>1, <1>3, <1>4 DEF Same, Fields
    <2>3. Unref(owned, {}) = owned
      BY <1>4, UnrefNobody
    <2> HIDE DEF old
    <2> QED
      BY <2>1, <2>2, <2>3 DEF u
  <1> DEFINE v == Unref(u, S)
  <1> HIDE DEF v, S
  <1>17. Joined(w, v, c, new)
    <2>1. Tame(u, v)
      BY <1>15 DEF v
    <2>2. ASSUME NEW x \in Creatures
          PROVE  /\ (v[x].body = w[x].body /\ v[x].at = w[x].at) \/ v[x].body = "none"
                 /\ v[x].summons \subseteq w[x].summons \cup (IF x = new THEN {c} ELSE {})
                 /\ Kept(w, x) =>
                       /\ v[x].body = w[x].body /\ v[x].at = w[x].at /\ v[x].alive = w[x].alive
                       /\ v[x].client = w[x].client /\ v[x].due = w[x].due
                 /\ w[x].body = "world" => v[x].master = IF x = c THEN new ELSE w[x].master
      BY <1>6, <1>7, <1>8, <2>1 DEF Tame, Quiet
    <2>3. Eased(w, v)
      BY <1>8, <1>12, <2>1 DEF Tame, Eased
    <2> QED
      BY <2>2, <2>3 DEF Joined
  <1> QED
    BY <1>15, <1>16, <1>17 DEF v

-----------------------------------------------------------------------------
(* Removing creatures. *)

\* The creatures in G leave the world; nobody else does, finds another master, gets
\* another summon or aims at somebody new.
Left(w, v, G) ==
    \A x \in Creatures :
        /\ v[x].at = w[x].at \/ v[x].body = "none"
        /\ w[x].body = "none" => v[x].body = "none"
        /\ v[x].body = "world" <=> w[x].body = "world" /\ x \notin G
        /\ Kept(w, x) => /\ Kept(v, x) /\ v[x].at = w[x].at
                         /\ v[x].alive = w[x].alive /\ v[x].client = w[x].client
        /\ v[x].summons \subseteq w[x].summons
        /\ v[x].body = "world" => /\ v[x].master \in {w[x].master, Null}
                                 /\ Aims(v, x) \subseteq Aims(w, x)
                                 /\ v[x].attacked \in {w[x].attacked, Null}

LEMMA LeftTwice ==
  ASSUME NEW u, NEW v, NEW w, NEW G, NEW H, Left(u, v, G), Left(v, w, H)
  PROVE  Left(u, w, G \cup H)
  <1> SUFFICES ASSUME NEW x \in Creatures
               PROVE
        /\ w[x].at = u[x].at \/ w[x].body = "none"
        /\ u[x].body = "none" => w[x].body = "none"
        /\ w[x].body = "world" <=> u[x].body = "world" /\ x \notin G \cup H
        /\ Kept(u, x) => /\ Kept(w, x) /\ w[x].at = u[x].at
                         /\ w[x].alive = u[x].alive /\ w[x].client = u[x].client
        /\ w[x].summons \subseteq u[x].summons
        /\ w[x].body = "world" => /\ w[x].master \in {u[x].master, Null}
                                 /\ Aims(w, x) \subseteq Aims(u, x)
                                 /\ w[x].attacked \in {u[x].attacked, Null}
    BY DEF Left
  <1>1. w[x].body # "none" => w[x].at = u[x].at
    BY DEF Left
  <1> QED
    BY <1>1 DEF Left

LEMMA TameIsLeft ==
  ASSUME NEW w, NEW v, Tame(w, v)
  PROVE  Left(w, v, {})
  <1>1. Quiet(w, v) /\ \A x \in World(w) : /\ Aims(v, x) \subseteq Aims(w, x)
                                           /\ v[x].attacked \in {w[x].attacked, Null}
    BY DEF Tame, Eased
  <1>2. World(v) = World(w) /\ \A c \in Creatures : Kept(w, c) => Kept(v, c)
    BY <1>1, QuietWorld
  <1> QED
    BY <1>1, <1>2 DEF Left, Quiet, World

LEMMA JoinedIsLeft ==
  ASSUME NEW w, NEW v, NEW c, Joined(w, v, c, Null)
  PROVE  Left(w, v, {})
  <1>1. \A x \in Creatures : v[x].body = "world" <=> w[x].body = "world"
    BY DEF Joined, Kept
  <1>2. \A x \in Creatures : v[x].summons \subseteq w[x].summons
    BY FiniteCreatures DEF Joined
  <1> QED
    BY <1>1, <1>2 DEF Joined, Left, Kept, Eased, World

LEMMA LeftIsMeek ==
  ASSUME NEW w, NEW v, NEW G, Left(w, v, G)
  PROVE  Meek(w, v)
  <1>1. World(v) \subseteq World(w) /\ World(v) \subseteq Creatures
    BY DEF Left, World
  <1>2. \A m \in World(v) : v[m].attacked \in {w[m].attacked, Null}
    BY DEF Left, World
  <1>3. \A p \in Players : p \in World(v) => v[p].client = w[p].client
    BY <1>1 DEF Left, Kept, World
  <1>4. \A p \in Players : p # Null
    BY KindAssumption
  <1> QED
    BY <1>1, <1>2, <1>3, <1>4 DEF Meek

\* c is in no list of a master who stays.
Freed(w, c) == \A d \in World(w) : c \notin w[d].summons

LEMMA StaysFreed ==
  ASSUME NEW w, NEW v, NEW G, Left(w, v, G), NEW c, Freed(w, c)
  PROVE  Freed(v, c)
  BY DEF Freed, Left, World

LEMMA DesertGood ==
  ASSUME NEW w, NEW e, NEW P, Good(w, e, P), NEW m \in Monsters, m \in World(w)
  PROVE  Good(Desert(w, m), e, P) /\ Left(w, Desert(w, m), {}) /\ Freed(Desert(w, m), m)
  <1>0. w[m].master \in Creatures \cup {Null} /\ m \in Creatures
    BY DEF Good, Sound, Shape, Worlds, Body, World
  <1>1. CASE w[m].master # Null /\ w[w[m].master].body = "world"
    <2> DEFINE v == SetMaster(w, m, Null)
    <2>1. Good(v, e, P) /\ Joined(w, v, m, Null)
      BY <1>1, SetMasterGood
    <2> HIDE DEF v
    <2>2. Left(w, v, {})
      BY <2>1, JoinedIsLeft
    <2>3. v[m].master = Null /\ v[m].body = "world"
      BY <1>0, <2>1 DEF Joined, Kept, World
    <2>4. Freed(v, m)
      <3> SUFFICES ASSUME NEW d \in World(v), m \in v[d].summons PROVE FALSE
        BY DEF Freed
      <3>1. d \in Creatures /\ v[m].master = d
        BY <2>1, <2>3 DEF Good, Sound, Linked, World
      <3> QED
        BY <2>3, <3>1, FiniteCreatures
    <2> QED
      BY <1>1, <2>1, <2>2, <2>4 DEF Desert, v
  <1>2. CASE ~(w[m].master # Null /\ w[w[m].master].body = "world")
    <2>1. Freed(w, m)
      <3> SUFFICES ASSUME NEW d \in World(w), m \in w[d].summons PROVE FALSE
        BY DEF Freed
      <3>1. d \in Creatures /\ w[m].master = d /\ w[d].body = "world"
        BY DEF Good, Sound, Linked, World
      <3> QED
        BY <1>2, <3>1, FiniteCreatures
    <2> QED
      BY <1>2, <2>1, QuietAlone, TameIsLeft DEF Desert
  <1> QED
    BY <1>1, <1>2

LEMMA PartGood ==
  ASSUME NEW w, NEW e, NEW P, Good(w, e, P), NEW c \in World(w), NEW x \in World(w)
  PROVE  /\ Good(Part(w, x, c), e, P) /\ Left(w, Part(w, x, c), {})
         /\ x = c => Freed(Part(w, x, c), c)
  <1>0. c \in Creatures /\ x \in Creatures /\ Kept(w, x) /\ Shape(w)
    BY DEF World, Kept, Good, Sound
  <1>1. CASE x \in Players
    <2>1. Freed(w, x)
      <3>1. \A d \in Creatures : w[d].summons \subseteq Monsters
        BY <1>0 DEF Shape, Worlds, Body
      <3> QED
        BY <1>1, <3>1, KindAssumption DEF Freed, World
    <2> QED
      BY <1>1, <2>1, QuietAlone, TameIsLeft DEF Part
  <1>2. CASE x \notin Players /\ x = c
    <2> DEFINE u == Desert(w, x)
    <2>1. x \in Monsters
      BY <1>0, <1>2 DEF Creatures
    <2>2. Good(u, e, P) /\ Left(w, u, {}) /\ Freed(u, x)
      BY <2>1, DesertGood
    <2> HIDE DEF u
    <2>3. u[x].body # "none"
      BY <1>0, <2>2, KeptIsBorn DEF Left, Good, Sound
    <2>4. Good(SetIdle(u, x, TRUE), e, P) /\ Tame(u, SetIdle(u, x, TRUE))
      BY <2>1, <2>2, <2>3, SetIdleGood
    <2>5. Left(u, SetIdle(u, x, TRUE), {})
      BY <2>4, TameIsLeft
    <2>6. Left(w, SetIdle(u, x, TRUE), {} \cup {})
      BY <2>2, <2>5, LeftTwice
    <2>7. Freed(SetIdle(u, x, TRUE), x)
      BY <2>2, <2>5, StaysFreed
    <2> QED
      BY <1>2, <2>4, <2>6, <2>7 DEF Part, u
  <1>3. CASE x \notin Players /\ x # c
    <2>1. x \in Monsters
      BY <1>0, <1>3 DEF Creatures
    <2>2. Good(Leave(w, x, c), e, P) /\ Tame(w, Leave(w, x, c))
      BY <1>0, <2>1, LeaveGood
    <2> QED
      BY <1>3, <2>2, TameIsLeft DEF Part
  <1> QED
    BY <1>1, <1>2, <1>3

LEMMA OnRemoveGood ==
  ASSUME NEW w, NEW e, NEW P, Good(w, e, P), NEW c \in World(w), NEW x \in World(w)
  PROVE  /\ Good(OnRemove(w, x, c), e, P) /\ Left(w, OnRemove(w, x, c), {})
         /\ c \notin Aims(OnRemove(w, x, c), x)
         /\ x = c => Freed(OnRemove(w, x, c), c)
  <1> DEFINE u == Disappear(w, x, c)
             v == Part(u, x, c)
  <1>0. c \in Creatures /\ x \in Creatures
    BY DEF World
  <1>1. Good(u, e, P) /\ Tame(w, u) /\ c \notin Aims(u, x)
    BY <1>0, DisappearGood
  <1> HIDE DEF u
  <1>2. World(u) = World(w)
    BY <1>1, QuietWorld DEF Tame
  <1>3. Good(v, e, P) /\ Left(u, v, {}) /\ (x = c => Freed(v, c))
    BY <1>1, <1>2, PartGood
  <1>4. OnRemove(w, x, c) = v
    BY DEF OnRemove, v, u
  <1> HIDE DEF v
  <1>5. Left(w, v, {} \cup {})
    BY <1>1, <1>3, TameIsLeft, LeftTwice
  <1>6. x \in World(u) => Aims(v, x) \subseteq Aims(u, x)
    BY <1>0, <1>3 DEF Left, World
  <1> QED
    BY <1>1, <1>2, <1>3, <1>4, <1>5, <1>6

LEMMA OnRemoveAllGood ==
  ASSUME NEW w, NEW e, NEW P, Good(w, e, P), NEW c \in World(w), NEW S \in SUBSET World(w)
  PROVE  /\ Good(OnRemoveAll(w, S, c), e, P) /\ Left(w, OnRemoveAll(w, S, c), {})
         /\ \A x \in S : c \notin Aims(OnRemoveAll(w, S, c), x)
         /\ c \in S => Freed(OnRemoveAll(w, S, c), c)
  <1> DEFINE R == [s \in SUBSET S |->
                     {v \in Worlds : /\ Good(v, e, P) /\ Left(w, v, {})
                                     /\ \A x \in s : c \notin Aims(v, x)
                                     /\ c \in s => Freed(v, c)}]
             F == [p \in S \X Worlds |-> OnRemove(p[2], p[1], c)]
  <1>1. IsFiniteSet(S) /\ S \subseteq World(w) /\ World(w) \subseteq Creatures
    <2>1. World(w) \subseteq Creatures
      BY DEF World
    <2> QED
      BY <2>1, FiniteCreatures, FS_Subset
  <1>2. w \in R[{}]
    BY QuietAlone, TameIsLeft DEF Good, Sound, Shape
  <1>3. ASSUME NEW s \in SUBSET S, NEW v \in Worlds, NEW x \in S, v \in R[s \ {x}]
        PROVE  OnRemove(v, x, c) \in R[s]
    <2> DEFINE u == OnRemove(v, x, c)
    <2>1. /\ Good(v, e, P) /\ Left(w, v, {}) /\ (c \in s \ {x} => Freed(v, c))
          /\ \A y \in s \ {x} : c \notin Aims(v, y)
      BY <1>3
    <2>2. World(v) = World(w)
      BY <2>1 DEF Left, World
    <2>3. Good(u, e, P) /\ Left(v, u, {}) /\ c \notin Aims(u, x) /\ (x = c => Freed(u, c))
      BY <1>1, <2>1, <2>2, OnRemoveGood
    <2> HIDE DEF u
    <2>4. Left(w, u, {} \cup {})
      BY <2>1, <2>3, LeftTwice
    <2>5. \A y \in S : Aims(u, y) \subseteq Aims(v, y)
      BY <1>1, <2>2, <2>3 DEF Left, World
    <2>6. \A y \in s : c \notin Aims(u, y)
      BY <2>1, <2>3, <2>5
    <2>7. c \in s => Freed(u, c)
      BY <2>1, <2>3, StaysFreed
    <2>8. u \in Worlds
      BY <2>3 DEF Good, Sound, Shape
    <2> QED
      BY <2>3, <2>4, <2>6, <2>7, <2>8 DEF u
  <1>10. Stays(S, Worlds, R, F, w)
    <2>1. R \in [SUBSET S -> SUBSET Worlds]
      OBVIOUS
    <2>2. ASSUME NEW s \in SUBSET S, NEW v \in Worlds, s # {}, v \in R[s \ {Some(s)}]
          PROVE  F[<<Some(s), v>>] \in R[s]
      <3>1. Some(s) \in S /\ F[<<Some(s), v>>] = OnRemove(v, Some(s), c)
        BY <2>2, SomeOf
      <3> HIDE DEF R, F
      <3> QED
        BY <1>3, <2>2, <3>1
    <2> HIDE DEF R, F
    <2> QED
      BY <1>2, <2>1, <2>2 DEF Stays
  <1>11. PICK g \in [SUBSET S -> Worlds] : Folding(S, R, F, w, g)
    <2> HIDE DEF R, F
    <2> QED
      BY <1>1, <1>10, FoldExists
  <1> DEFINE next(h, s) == IF s = {} THEN w ELSE OnRemove(h[s \ {Some(s)}], Some(s), c)
             fold == CHOOSE h : h = [s \in SUBSET S |-> next(h, s)]
  <1>12. ASSUME NEW s \in SUBSET S, NEW v \in Worlds, s # {}
         PROVE  F[<<Some(s), v>>] = OnRemove(v, Some(s), c)
    BY <1>12, SomeOf
  <1>13. fold = [s \in SUBSET S |-> next(fold, s)]
    <2>1. g = [s \in SUBSET S |-> next(g, s)]
      <3> HIDE DEF R, F
      <3> QED
        BY <1>11, <1>12 DEF Folding
    <2> HIDE DEF next
    <2> QED
      BY <2>1
  <1>14. FoldSet(LAMBDA x, v : OnRemove(v, x, c), w, S) = fold[S]
    BY DEF FoldSet, MapThenFoldSet, Some
  <1>15. fold[S] \in R[S]
    <2> HIDE DEF R, F, fold
    <2>1. Unfolds(S, Worlds, F, w, fold)
      BY <1>12, <1>13 DEF Unfolds
    <2> QED
      BY <1>1, <1>10, <2>1, FoldIn
  <1>20. FoldSet(LAMBDA x, v : OnRemove(v, x, c), w, S) \in R[S]
    <2> HIDE DEF R, F, fold
    <2> QED
      BY <1>14, <1>15
  <1>21. OnRemoveAll(w, S, c) \in R[S]
    <2> HIDE DEF R
    <2> QED
      BY <1>20 DEF OnRemoveAll
  <1> QED
    BY <1>21

\* c is taken out of the world and is to be released.
LEMMA GoneGood ==
  ASSUME NEW w, NEW e, NEW P, Good(w, e, P), NEW v \in Worlds, NEW c \in World(w), Freed(w, c),
         \A x \in World(w) : c \in Aims(w, x) => ~InReach(w, x, w[c].at) /\ x # c,
         \A x \in Creatures : x # c => v[x] = w[x],
         Same(v[c], w[c], {"body", "attacked", "follow", "due", "check"}),
         v[c].body = "removed", v[c].due = w[c].due + 1, ~v[c].check
  PROVE  Good(v, e, P) /\ Left(w, v, {c})
  <1>0. c \in Creatures /\ w \in Worlds /\ w[c] \in Body /\ w[c].body = "world" /\ w[c].due \in Nat
    BY DEF World, Good, Sound, Shape, Worlds, Body
  <1>1. \A x \in Creatures :
           /\ v[x].targets = w[x].targets /\ v[x].friends = w[x].friends
           /\ v[x].summons = w[x].summons /\ v[x].at = w[x].at /\ v[x].alive = w[x].alive
           /\ v[x].client = w[x].client /\ v[x].master = w[x].master
           /\ v[x].listed = w[x].listed /\ v[x].refs = w[x].refs
    BY DEF Same, Fields
  <1>2. World(v) = World(w) \ {c} /\ World(w) \subseteq Creatures
    BY <1>0 DEF World
  <1>3. \A x \in Creatures : Kept(w, x) => Kept(v, x)
    <2>1. Kept(v, c)
      BY <1>0 DEF Kept
    <2> QED
      BY <2>1 DEF Kept
  <1>4. Shape(v)
    <2>1. \A p \in Players : v[p].targets = {} /\ v[p].friends = {}
      BY <1>1 DEF Good, Sound, Shape, Creatures
    <2>2. \A x \in Creatures : v[x].body = "none" => v[x] = Unborn
      BY DEF Good, Sound, Shape
    <2> QED
      BY <2>1, <2>2 DEF Shape
  <1>5. Counted(v)
    <2> SUFFICES ASSUME NEW x \in Creatures PROVE v[x].refs = Own(v[x]) + Held(v, x)
      BY DEF Counted
    <2>1. Held(v, x) = Held(w, x)
      BY <1>1, HeldSame
    <2>2. w[x].refs = Own(w[x]) + Held(w, x)
      BY DEF Good, Sound, Counted
    <2>3. Own(v[x]) = Own(w[x])
      <3>1. CASE x = c
        <4>1. /\ One(v[c].body = "world") = 0 /\ One(w[c].body = "world") = 1
              /\ One(v[c].listed) = One(w[c].listed) /\ One(v[c].client) = One(w[c].client)
              /\ One(w[c].listed) \in Nat /\ One(w[c].client) \in Nat
          BY <1>0, <1>1 DEF One
        <4> QED
          BY <1>0, <3>1, <4>1 DEF Own
      <3>2. CASE x # c
        BY <3>2
      <3> QED
        BY <3>1, <3>2
    <2> QED
      BY <1>1, <2>1, <2>2, <2>3
  <1>6. Linked(v)
    <2>1. ASSUME NEW x \in World(v), v[x].master # Null
          PROVE  x \in v[v[x].master].summons /\ Kept(v, v[x].master)
      <3>1. x \in World(w) /\ v[x].master = w[x].master /\ w[x].master \in Creatures
        BY <1>0, <1>1, <1>2, <2>1 DEF Worlds, Body
      <3>2. x \in w[w[x].master].summons /\ Kept(w, w[x].master)
        BY <2>1, <3>1 DEF Good, Sound, Linked
      <3> QED
        BY <1>1, <1>3, <3>1, <3>2
    <2>2. ASSUME NEW d \in Creatures, NEW s \in v[d].summons
          PROVE  /\ v[s].body = "world" => v[s].master = d
                 /\ v[d].body = "world" => v[s].body = "world"
      <3>1. s \in w[d].summons /\ s \in Creatures
        BY <1>0, <1>1 DEF Worlds, Body, Creatures
      <3>2. /\ w[s].body = "world" => w[s].master = d
            /\ w[d].body = "world" => w[s].body = "world"
        BY <3>1 DEF Good, Sound, Linked
      <3>3. v[d].body = "world" => s # c /\ w[d].body = "world"
        BY <1>0, <1>2, <3>1 DEF Freed, World
      <3> QED
        BY <1>1, <3>1, <3>2, <3>3
    <2> QED
      BY <2>1, <2>2 DEF Linked
  <1>7. Watch(v, e, P)
    <2> SUFFICES ASSUME NEW x \in World(v), NEW t \in Aims(v, x)
                 PROVE  IF InReach(v, x, v[t].at) THEN t \in World(v) ELSE x \in P /\ e \in {x, t}
      BY DEF Watch
    <2>1. x \in World(w) /\ x # c /\ x \in Creatures /\ v[x] = w[x]
      BY <1>2
    <2>2. t \in Aims(w, x) /\ t \in Creatures
      BY <1>0, <2>1 DEF Aims, Worlds, Body
    <2>3. InReach(v, x, v[t].at) <=> InReach(w, x, w[t].at)
      BY <1>1, <2>1, <2>2 DEF InReach
    <2>4. IF InReach(w, x, w[t].at) THEN t \in World(w) ELSE x \in P /\ e \in {x, t}
      BY <2>1, <2>2 DEF Good, Sound, Watch
    <2> QED
      BY <1>2, <2>1, <2>2, <2>3, <2>4
  <1>8. Checked(v, e, P)
    <2>1. \A x \in Creatures :
             /\ v[x].check => v[x].listed /\ v[x].body = "world"
             /\ v[x].body = "world" /\ (x \in Players \/ (~v[x].alive /\ x \notin Excused))
                   => v[x].check \/ (x = e /\ Null \in P)
      BY DEF Good, Sound, Checked
    <2> QED
      BY <2>1 DEF Checked
  <1>9. Unheld(v) = {}
    <2>1. \A x \in Creatures : v[x].body # "none" => w[x].body # "none"
      BY <1>0
    <2> QED
      BY <1>1, <2>1 DEF Good, Unheld
  <1>10. Left(w, v, {c})
    <2> SUFFICES ASSUME NEW x \in Creatures
                 PROVE
           /\ v[x].at = w[x].at \/ v[x].body = "none"
           /\ w[x].body = "none" => v[x].body = "none"
           /\ v[x].body = "world" <=> w[x].body = "world" /\ x \notin {c}
           /\ Kept(w, x) => /\ Kept(v, x) /\ v[x].at = w[x].at
                            /\ v[x].alive = w[x].alive /\ v[x].client = w[x].client
           /\ v[x].summons \subseteq w[x].summons
           /\ v[x].body = "world" => v[x].master \in {w[x].master, Null}
                                     /\ Aims(v, x) \subseteq Aims(w, x)
      BY DEF Left
    <2>1. x # c => v[x] = w[x] /\ Aims(v, x) = Aims(w, x)
      BY DEF Aims
    <2> QED
      BY <1>0, <1>1, <1>3, <2>1
  <1> QED
    BY <1>4, <1>5, <1>6, <1>7, <1>8, <1>9, <1>10 DEF Good, Sound

LEMMA RemoveOneGood ==
  ASSUME NEW w, NEW e, NEW P, Good(w, e, P), NEW c \in Creatures, NEW early
  PROVE  Good(RemoveOne(w, c, early), e, P) /\ Left(w, RemoveOne(w, c, early), {c})
  <1>1. CASE c \notin World(w)
    <2>1. Left(w, w, {c})
      BY <1>1, QuietAlone, TameIsLeft DEF Left, World
    <2> QED
      BY <1>1, <2>1 DEF RemoveOne
  <1>2. CASE c \in World(w)
    <2> DEFINE watching == {x \in World(w) : InReach(w, x, w[c].at)} \ {c}
               first == IF early THEN {c} ELSE watching
               last == IF early THEN watching ELSE {c}
               t == OnRemoveAll(w, first, c)
               u == OnRemoveAll(t, last, c)
               gone == TakenOut(u, c)
               freed == Release(gone, c)
               v == RemoveCheck(freed, c)
    <2>1. first \in SUBSET World(w) /\ last \in SUBSET World(w) /\ first \cup last = watching \cup {c}
      BY <1>2
    <2> HIDE DEF first, last
    <2>2. /\ Good(t, e, P) /\ Left(w, t, {}) /\ \A x \in first : c \notin Aims(t, x)
          /\ c \in first => Freed(t, c)
      BY <1>2, <2>1, OnRemoveAllGood
    <2> HIDE DEF t
    <2>3. World(t) = World(w)
      BY <2>2 DEF Left, World
    <2>4. /\ Good(u, e, P) /\ Left(t, u, {}) /\ \A x \in last : c \notin Aims(u, x)
          /\ c \in last => Freed(u, c)
      BY <1>2, <2>1, <2>2, <2>3, OnRemoveAllGood
    <2> HIDE DEF u
    <2>5. World(u) = World(w) /\ Freed(u, c)
      <3>1. Freed(u, c)
        BY <2>1, <2>2, <2>4, StaysFreed
      <3> QED
        BY <2>3, <2>4, <3>1 DEF Left, World
    <2>6. Left(w, u, {})
      <3>1. Left(w, u, {} \cup {})
        BY <2>2, <2>4, LeftTwice
      <3> QED
        BY <3>1
    <2>7. ASSUME NEW x \in World(u), c \in Aims(u, x) PROVE ~InReach(u, x, u[c].at) /\ x # c
      <3>1. x \notin last
        BY <2>4, <2>7
      <3>2. x \notin first
        <4>1. Aims(u, x) \subseteq Aims(t, x)
          BY <2>4 DEF Left, World
        <4> QED
          BY <2>2, <2>7, <4>1
      <3>3. x \notin watching \cup {c} /\ x \in World(w)
        BY <2>1, <2>5, <3>1, <3>2
      <3>4. u[x].at = w[x].at /\ u[c].at = w[c].at
        BY <1>2, <2>6, <3>3 DEF Left, World, Kept
      <3> QED
        BY <3>3, <3>4 DEF InReach
    <2>8. u \in Worlds
      BY <2>4 DEF Good, Sound, Shape, Worlds
    <2>9. OneDiffers(u, gone, c, {"body", "attacked", "follow"}) /\ gone[c].body = "removed"
      BY <2>8, TakenOutDiffers
    <2> HIDE DEF gone
    <2>10. gone \in Worlds /\ Same(gone[c], u[c], {"body", "attacked", "follow"})
      BY <2>9 DEF OneDiffers
    <2>11. OneDiffers(gone, freed, c, {"due"}) /\ freed[c].due = gone[c].due + 1
      BY <2>10, ReleaseDiffers
    <2> HIDE DEF freed
    <2>12. freed \in Worlds /\ Same(freed[c], gone[c], {"due"})
      BY <2>11 DEF OneDiffers
    <2>13. OneDiffers(freed, v, c, {"check"}) /\ (freed[c].listed => ~v[c].check)
      BY <2>12, UncheckedDiffers
    <2>14. RemoveCheck(freed, c) = freed \/ freed[c].listed
      BY DEF RemoveCheck
    <2> HIDE DEF v
    <2>15. v \in Worlds /\ Same(v[c], freed[c], {"check"})
      BY <2>13 DEF OneDiffers
    <2>16. ~v[c].check
      <3>1. CASE ~freed[c].listed
        <4>1. freed[c].listed = u[c].listed /\ freed[c].check = u[c].check
          BY <2>10, <2>12 DEF Same, Fields
        <4>2. u[c].check => u[c].listed
          BY <2>4 DEF Good, Sound, Checked
        <4>3. v = freed
          BY <2>14, <3>1 DEF v
        <4> QED
          BY <3>1, <4>1, <4>2, <4>3
      <3> QED
        BY <2>13, <3>1
    <2>17. /\ \A x \in Creatures : x # c => v[x] = u[x]
           /\ Same(v[c], u[c], {"body", "attacked", "follow", "due", "check"})
           /\ v[c].body = "removed" /\ v[c].due = u[c].due + 1
      <3>1. \A x \in Creatures : x # c => v[x] = u[x]
        BY <2>9, <2>11, <2>13 DEF OneDiffers
      <3>2. Same(v[c], u[c], {"body", "attacked", "follow", "due", "check"})
        BY <2>10, <2>12, <2>15 DEF Same
      <3>3. v[c].body = gone[c].body /\ v[c].due = freed[c].due /\ gone[c].due = u[c].due
        BY <2>10, <2>12, <2>15 DEF Same, Fields
      <3> QED
        BY <2>9, <2>11, <3>1, <3>2, <3>3
    <2>18. Good(v, e, P) /\ Left(u, v, {c})
      <3>1. c \in World(u)
        BY <1>2, <2>5
      <3>2. \A x \in World(u) : c \in Aims(u, x) => ~InReach(u, x, u[c].at) /\ x # c
        BY <2>7
      <3>3. v \in Worlds
        BY <2>15
      <3> QED
        BY <2>4, <2>5, <2>16, <2>17, <3>1, <3>2, <3>3, GoneGood
    <2>19. Left(w, v, {} \cup {c})
      BY <2>6, <2>18, LeftTwice
    <2>20. RemoveOne(w, c, early) = v
      BY <1>2 DEF RemoveOne, TakenOut, v, freed, gone, u, t, first, last
    <2> QED
      BY <2>18, <2>19, <2>20
  <1> QED
    BY <1>1, <1>2

LEMMA RemoveSummonsGood ==
  ASSUME NEW w, NEW e, NEW P, Good(w, e, P), NEW c \in Creatures
  PROVE  Good(RemoveSummons(w, c), e, P) /\ Left(w, RemoveSummons(w, c), w[c].summons)
  <1> DEFINE S == w[c].summons
             R == [s \in SUBSET S |-> {v \in Worlds : Good(v, e, P) /\ Left(w, v, s)}]
             F == [p \in S \X Worlds |-> RemoveOne(p[2], p[1], TRUE)]
  <1>1. IsFiniteSet(S) /\ S \subseteq Creatures
    <2>1. S \subseteq Creatures
      BY DEF Good, Sound, Shape, Worlds, Body, Creatures
    <2> QED
      BY <2>1, FiniteCreatures, FS_Subset
  <1>2. w \in R[{}]
    BY QuietAlone, TameIsLeft DEF Good, Sound, Shape
  <1>3. ASSUME NEW s \in SUBSET S, NEW v \in Worlds, NEW x \in S, v \in R[s \ {x}], x \in s
        PROVE  RemoveOne(v, x, TRUE) \in R[s]
    <2> DEFINE u == RemoveOne(v, x, TRUE)
    <2>1. Good(v, e, P) /\ Left(w, v, s \ {x}) /\ x \in Creatures
      BY <1>1, <1>3
    <2>2. Good(u, e, P) /\ Left(v, u, {x})
      BY <2>1, RemoveOneGood
    <2> HIDE DEF u
    <2>3. Left(w, u, (s \ {x}) \cup {x})
      BY <2>1, <2>2, LeftTwice
    <2>4. (s \ {x}) \cup {x} = s
      BY <1>3
    <2>5. u \in Worlds
      BY <2>2 DEF Good, Sound, Shape
    <2> QED
      BY <2>2, <2>3, <2>4, <2>5 DEF u
  <1>10. Stays(S, Worlds, R, F, w)
    <2>1. R \in [SUBSET S -> SUBSET Worlds]
      OBVIOUS
    <2>2. ASSUME NEW s \in SUBSET S, NEW v \in Worlds, s # {}, v \in R[s \ {Some(s)}]
          PROVE  F[<<Some(s), v>>] \in R[s]
      <3>1. Some(s) \in s /\ Some(s) \in S /\ F[<<Some(s), v>>] = RemoveOne(v, Some(s), TRUE)
        BY <2>2, SomeOf
      <3> HIDE DEF S, R, F
      <3> QED
        BY <1>3, <2>2, <3>1
    <2> HIDE DEF S, R, F
    <2> QED
      BY <1>2, <2>1, <2>2 DEF Stays
  <1>11. PICK g \in [SUBSET S -> Worlds] : Folding(S, R, F, w, g)
    <2> HIDE DEF S, R, F
    <2> QED
      BY <1>1, <1>10, FoldExists
  <1> DEFINE next(h, s) == IF s = {} THEN w ELSE RemoveOne(h[s \ {Some(s)}], Some(s), TRUE)
             fold == CHOOSE h : h = [s \in SUBSET S |-> next(h, s)]
  <1>12. ASSUME NEW s \in SUBSET S, NEW v \in Worlds, s # {}
         PROVE  F[<<Some(s), v>>] = RemoveOne(v, Some(s), TRUE)
    BY <1>12, SomeOf
  <1>13. fold = [s \in SUBSET S |-> next(fold, s)]
    <2>1. g = [s \in SUBSET S |-> next(g, s)]
      <3> HIDE DEF S, R, F
      <3> QED
        BY <1>11, <1>12 DEF Folding
    <2> HIDE DEF next
    <2> QED
      BY <2>1
  <1>14. FoldSet(LAMBDA s, v : RemoveOne(v, s, TRUE), w, S) = fold[S]
    BY DEF FoldSet, MapThenFoldSet, Some
  <1>15. fold[S] \in R[S]
    <2> HIDE DEF S, R, F, fold
    <2>1. Unfolds(S, Worlds, F, w, fold)
      BY <1>12, <1>13 DEF Unfolds
    <2> QED
      BY <1>1, <1>10, <2>1, FoldIn
  <1>20. FoldSet(LAMBDA s, v : RemoveOne(v, s, TRUE), w, S) \in R[S]
    <2> HIDE DEF S, R, F, fold
    <2> QED
      BY <1>14, <1>15
  <1>21. RemoveSummons(w, c) \in R[S]
    <2> HIDE DEF R, F
    <2> QED
      BY <1>20 DEF RemoveSummons
  <1> QED
    BY <1>21

LEMMA RemoveCreatureGood ==
  ASSUME NEW w, NEW e, NEW P, Good(w, e, P), NEW c \in Creatures, NEW early
  PROVE  /\ Good(RemoveCreature(w, c, early), e, P)
         /\ Orderly(w) => Orderly(RemoveCreature(w, c, early))
         /\ \E G \in SUBSET ({c} \cup w[c].summons) : Left(w, RemoveCreature(w, c, early), G)
  <1>1. CASE c \notin World(w)
    BY <1>1, QuietAlone, TameIsLeft DEF RemoveCreature
  <1>2. CASE c \in World(w)
    <2> DEFINE u == RemoveOne(w, c, early)
               v == RemoveSummons(u, c)
    <2>1. Good(u, e, P) /\ Left(w, u, {c})
      BY RemoveOneGood
    <2> HIDE DEF u
    <2>2. Good(v, e, P) /\ Left(u, v, u[c].summons)
      BY <2>1, RemoveSummonsGood
    <2>3. RemoveCreature(w, c, early) = v
      BY <1>2 DEF RemoveCreature, v, u
    <2> HIDE DEF v
    <2>4. Left(w, v, {c} \cup u[c].summons) /\ u[c].summons \subseteq w[c].summons
      BY <2>1, <2>2, LeftTwice DEF Left
    <2>5. ASSUME Orderly(w) PROVE Orderly(v)
      <3>1. ASSUME NEW x \in World(v), v[x].master # Null
            PROVE  v[x].master \in World(v) /\ v[x].summons = {}
        <4>0. w \in Worlds /\ x \in World(w) /\ x \in Creatures /\ x \notin u[c].summons
              /\ x \in World(u)
          BY <2>1, <2>2, <2>4 DEF World, Left, Good, Sound, Shape
        <4>1. v[x].master = w[x].master /\ v[x].master = u[x].master
          BY <2>1, <2>2, <2>4, <3>1, <4>0 DEF Left, World
        <4> DEFINE d == w[x].master
        <4>2. d \in World(w) /\ d \in Creatures /\ w[x].summons = {}
          BY <2>5, <3>1, <4>0, <4>1 DEF Orderly, MastersHere, Flat, World
        <4>3. x \in w[d].summons /\ x \in u[d].summons
          BY <2>1, <3>1, <4>0, <4>1 DEF Good, Sound, Linked
        <4>4. d # c
          BY <4>0, <4>3
        <4>5. d \notin u[c].summons
          <5> SUFFICES ASSUME d \in u[c].summons PROVE FALSE
            OBVIOUS
          <5>1. w[d].master = c
            BY <2>4, <4>2 DEF Good, Sound, Linked, World
          <5>2. w[d].summons = {}
            BY <2>5, <4>2, <5>1, FiniteCreatures DEF Orderly, Flat
          <5> QED
            BY <4>3, <5>2
        <4>6. d \in World(v)
          BY <2>4, <4>2, <4>4, <4>5 DEF Left, World
        <4>7. v[x].summons = {}
          BY <2>4, <4>0, <4>2 DEF Left
        <4> QED
          BY <4>1, <4>6, <4>7
      <3> QED
        BY <3>1 DEF Orderly, MastersHere, Flat
    <2> QED
      BY <2>2, <2>3, <2>4, <2>5
  <1> QED
    BY <1>1, <1>2

-----------------------------------------------------------------------------
(* Moving creatures. *)

LEMMA NobodyLate == ASSUME NEW w, NEW e, Good(w, e, {}) PROVE \A c : Good(w, c, {})
  <1>1. ASSUME NEW c PROVE Watch(w, c, {}) /\ Checked(w, c, {})
    BY DEF Good, Sound, Watch, Checked
  <1> QED
    BY <1>1 DEF Good, Sound

LEMMA QuietOrderly ==
  ASSUME NEW w, NEW v, Quiet(w, v), Orderly(w)
  PROVE  Orderly(v)
  <1>1. World(v) = World(w)
    BY QuietWorld
  <1>2. \A c \in World(w) : v[c].master = w[c].master /\ v[c].summons = w[c].summons
    BY DEF Quiet, Kept, World
  <1> QED
    BY <1>1, <1>2 DEF Orderly, MastersHere, Flat

LEMMA StepGood ==
  ASSUME NEW w, Fine(w), NEW c \in World(w), NEW place \in Places, NEW P, c \in P, Null \notin P,
         \A x \in World(w) : x # c /\ InReach(w, x, w[c].at) => x \in P
  PROVE  /\ Good([w EXCEPT ![c].at = place], c, P) /\ Orderly([w EXCEPT ![c].at = place])
         /\ World([w EXCEPT ![c].at = place]) = World(w)
         /\ \A x \in Creatures : Same([w EXCEPT ![c].at = place][x], w[x], {"at"})
  <1> DEFINE v == [w EXCEPT ![c].at = place]
  <1>0. /\ w \in Worlds /\ c \in Creatures /\ w[c] \in Body /\ w[c].body = "world"
        /\ DOMAIN w = Creatures
    BY DEF World, Fine, Good, Sound, Shape, Worlds
  <1>1. v \in Worlds
    BY <1>0 DEF Worlds, Body
  <1>2. \A x \in Creatures : Same(v[x], w[x], {"at"}) /\ (x # c => v[x] = w[x])
    <2>1. Same(v[c], w[c], {"at"})
      BY <1>0 DEF Same, Fields, Body
    <2>2. \A x \in Creatures : x # c => v[x] = w[x]
      BY <1>0
    <2> HIDE DEF v
    <2> QED
      BY <2>1, <2>2 DEF Same
  <1> HIDE DEF v
  <1>3. \A x \in Creatures :
           /\ v[x].body = w[x].body /\ v[x].alive = w[x].alive /\ v[x].client = w[x].client
           /\ v[x].attacked = w[x].attacked /\ v[x].follow = w[x].follow
           /\ v[x].master = w[x].master /\ v[x].summons = w[x].summons
           /\ v[x].targets = w[x].targets /\ v[x].friends = w[x].friends
           /\ v[x].listed = w[x].listed /\ v[x].check = w[x].check
           /\ v[x].refs = w[x].refs /\ v[x].due = w[x].due
    BY <1>2 DEF Same, Fields
  <1>4. World(v) = World(w) /\ \A x \in Creatures : Kept(w, x) <=> Kept(v, x)
    BY <1>3 DEF World, Kept
  <1>5. Shape(v)
    <2>1. \A p \in Players : v[p].targets = {} /\ v[p].friends = {}
      BY <1>3 DEF Fine, Good, Sound, Shape, Creatures
    <2>2. \A x \in Creatures : v[x].body = "none" => v[x] = Unborn
      BY <1>0, <1>2, <1>3 DEF Fine, Good, Sound, Shape
    <2> QED
      BY <1>1, <2>1, <2>2 DEF Shape
  <1>6. Counted(v)
    <2>1. \A x : Held(v, x) = Held(w, x)
      BY <1>3, HeldSame
    <2>2. \A x \in Creatures : Own(v[x]) = Own(w[x])
      BY <1>3 DEF Own
    <2> QED
      BY <1>3, <2>1, <2>2 DEF Fine, Good, Sound, Counted
  <1>7. Linked(v)
    <2>1. \A x \in World(w) : w[x].master \in Creatures \cup {Null} /\ x \in Creatures
      BY <1>0 DEF Worlds, Body, World
    <2>2. \A x \in Creatures : w[x].summons \subseteq Creatures
      BY <1>0 DEF Worlds, Body, Creatures
    <2>3. \A x \in World(v) :
             v[x].master # Null => x \in v[v[x].master].summons /\ Kept(v, v[x].master)
      BY <1>3, <1>4, <2>1 DEF Fine, Good, Sound, Linked
    <2>4. \A d \in Creatures : \A s \in v[d].summons :
             /\ v[s].body = "world" => v[s].master = d
             /\ v[d].body = "world" => v[s].body = "world"
      BY <1>3, <2>2 DEF Fine, Good, Sound, Linked
    <2> QED
      BY <2>3, <2>4 DEF Linked
  <1>8. Watch(v, c, P)
    <2> SUFFICES ASSUME NEW x \in World(v), NEW t \in Aims(v, x)
                 PROVE  IF InReach(v, x, v[t].at) THEN t \in World(v) ELSE x \in P /\ c \in {x, t}
      BY DEF Watch
    <2>1. x \in World(w) /\ x \in Creatures /\ t \in Aims(w, x) /\ t \in Creatures
      BY <1>0, <1>3, <1>4 DEF Aims, World, Worlds, Body
    <2>2. t \in World(w) /\ InReach(w, x, w[t].at)
      BY <2>1 DEF Fine, Good, Sound, Watch
    <2>3. CASE x # c /\ t # c
      BY <1>2, <1>4, <2>1, <2>2, <2>3 DEF InReach
    <2>4. CASE x = c \/ t = c
      BY <1>4, <2>1, <2>2, <2>4
    <2> QED
      BY <2>3, <2>4
  <1>9. Checked(v, c, P) /\ Unheld(v) = {}
    BY <1>3 DEF Fine, Good, Sound, Checked, Unheld
  <1>10. Orderly(v)
    <2>1. World(w) \subseteq Creatures
      BY DEF World
    <2> QED
      BY <1>3, <1>4, <2>1 DEF Fine, Orderly, MastersHere, Flat
  <1> QED
    BY <1>2, <1>4, <1>5, <1>6, <1>7, <1>8, <1>9, <1>10 DEF v, Good, Sound

\* The folds of Move.
Strand(w, far, early) == FoldSet(LAMBDA s, v : RemoveCreature(v, s, s \in early), w, far)
Tell(w, S, c, from, picks) == FoldSet(LAMBDA x, v : OnMove(v, x, c, from, picks), w, S)

\* The summons that are left behind leave the world, whoever moved stays.
LEMMA StrandGood ==
  ASSUME NEW w, NEW P, NEW c \in World(w), Good(w, c, P), Orderly(w), NEW far \in SUBSET w[c].summons,
         NEW early
  PROVE  /\ Good(Strand(w, far, early), c, P) /\ Orderly(Strand(w, far, early))
         /\ c \in World(Strand(w, far, early))
         /\ \E G \in SUBSET Creatures : Left(w, Strand(w, far, early), G)
  <1> DEFINE R == [s \in SUBSET far |->
                     {v \in Worlds : /\ Good(v, c, P) /\ Orderly(v) /\ c \in World(v)
                                     /\ \E G \in SUBSET Creatures : Left(w, v, G)}]
             F == [p \in far \X Worlds |-> RemoveCreature(p[2], p[1], p[1] \in early)]
             S == far
  <1>1. IsFiniteSet(S) /\ S \subseteq Creatures /\ c \in Creatures
    <2>1. S \subseteq Creatures /\ c \in Creatures
      BY DEF Good, Sound, Shape, Worlds, Body, Creatures, World
    <2> QED
      BY <2>1, FiniteCreatures, FS_Subset
  <1>2. w \in R[{}]
    <2>1. Left(w, w, {}) /\ w \in Worlds
      BY QuietAlone, TameIsLeft DEF Good, Sound, Shape
    <2> QED
      BY <2>1
  <1>3. ASSUME NEW s \in SUBSET S, NEW v \in Worlds, NEW x \in S, v \in R[s \ {x}]
        PROVE  RemoveCreature(v, x, x \in early) \in R[s]
    <2> DEFINE u == RemoveCreature(v, x, x \in early)
    <2>1. /\ Good(v, c, P) /\ Orderly(v) /\ c \in World(v) /\ x \in Creatures
          /\ \E G \in SUBSET Creatures : Left(w, v, G)
      BY <1>1, <1>3
    <2>2. PICK G \in SUBSET Creatures : Left(w, v, G)
      BY <2>1
    <2>3. Good(u, c, P) /\ Orderly(u) /\ \E H \in SUBSET ({x} \cup v[x].summons) : Left(v, u, H)
      BY <2>1, RemoveCreatureGood
    <2> HIDE DEF u
    <2>4. PICK H \in SUBSET ({x} \cup v[x].summons) : Left(v, u, H)
      BY <2>3
    <2>5. w[c].master = Null
      <3>1. w[c].summons # {}
        OBVIOUS
      <3> QED
        BY <3>1 DEF Orderly, Flat
    <2>6. c # x /\ c \notin v[x].summons
      <3>1. \A d \in Creatures : c \in w[d].summons => w[c].master = d
        BY DEF Good, Sound, Linked, World
      <3>2. v[x].summons \subseteq w[x].summons
        BY <2>1, <2>2 DEF Left
      <3> QED
        BY <1>1, <2>1, <2>5, <3>1, <3>2, FiniteCreatures
    <2>7. c \in World(u)
      BY <1>1, <2>1, <2>4, <2>6 DEF Left, World
    <2>8. Left(w, u, G \cup H) /\ G \cup H \in SUBSET Creatures
      <3>1. v[x].summons \subseteq Creatures
        BY <1>1 DEF Worlds, Body, Creatures
      <3> QED
        BY <2>1, <2>2, <2>4, <3>1, LeftTwice
    <2>9. u \in Worlds
      BY <2>3 DEF Good, Sound, Shape
    <2> QED
      BY <2>3, <2>7, <2>8, <2>9 DEF u
  <1>10. Stays(S, Worlds, R, F, w)
    <2>1. R \in [SUBSET S -> SUBSET Worlds]
      OBVIOUS
    <2>2. ASSUME NEW s \in SUBSET S, NEW v \in Worlds, s # {}, v \in R[s \ {Some(s)}]
          PROVE  F[<<Some(s), v>>] \in R[s]
      <3>1. Some(s) \in s /\ Some(s) \in S /\ F[<<Some(s), v>>] = RemoveCreature(v, Some(s), Some(s) \in early)
        BY <2>2, SomeOf
      <3> HIDE DEF S, R, F
      <3> QED
        BY <1>3, <2>2, <3>1
    <2> HIDE DEF S, R, F
    <2> QED
      BY <1>2, <2>1, <2>2 DEF Stays
  <1>11. PICK g \in [SUBSET S -> Worlds] : Folding(S, R, F, w, g)
    <2> HIDE DEF S, R, F
    <2> QED
      BY <1>1, <1>10, FoldExists
  <1> DEFINE next(h, s) == IF s = {} THEN w ELSE RemoveCreature(h[s \ {Some(s)}], Some(s), Some(s) \in early)
             fold == CHOOSE h : h = [s \in SUBSET S |-> next(h, s)]
  <1>12. ASSUME NEW s \in SUBSET S, NEW v \in Worlds, s # {}
         PROVE  F[<<Some(s), v>>] = RemoveCreature(v, Some(s), Some(s) \in early)
    BY <1>12, SomeOf
  <1>13. fold = [s \in SUBSET S |-> next(fold, s)]
    <2>1. g = [s \in SUBSET S |-> next(g, s)]
      <3> HIDE DEF S, R, F
      <3> QED
        BY <1>11, <1>12 DEF Folding
    <2> HIDE DEF next
    <2> QED
      BY <2>1
  <1>14. FoldSet(LAMBDA s, v : RemoveCreature(v, s, s \in early), w, S) = fold[S]
    BY DEF FoldSet, MapThenFoldSet, Some
  <1>15. fold[S] \in R[S]
    <2> HIDE DEF S, R, F, fold
    <2>1. Unfolds(S, Worlds, F, w, fold)
      BY <1>12, <1>13 DEF Unfolds
    <2> QED
      BY <1>1, <1>10, <2>1, FoldIn
  <1>20. FoldSet(LAMBDA s, v : RemoveCreature(v, s, s \in early), w, S) \in R[S]
    <2> HIDE DEF S, R, F, fold
    <2> QED
      BY <1>14, <1>15
  <1> DEFINE z == Strand(w, far, early)
  <1>21. z \in R[S]
    <2> HIDE DEF R
    <2> QED
      BY <1>20 DEF Strand
  <1> HIDE DEF z
  <1>22. Good(z, c, P) /\ Orderly(z) /\ c \in World(z) /\ \E G \in SUBSET Creatures : Left(w, z, G)
    BY <1>21
  <1> QED
    BY <1>22 DEF z

\* The spectators are told one after the other.
LEMMA TellGood ==
  ASSUME NEW w, NEW c \in World(w), NEW P, Good(w, c, P), NEW S \in SUBSET Creatures,
         \A x \in S : Kept(w, x), NEW from, NEW picks
  PROVE  /\ Good(Tell(w, S, c, from, picks), c, P \ S) /\ Quiet(w, Tell(w, S, c, from, picks))
         /\ Meek(w, Tell(w, S, c, from, picks))
  <1> DEFINE R == [s \in SUBSET S |-> {v \in Worlds : Good(v, c, P \ s) /\ Quiet(w, v) /\ Meek(w, v)}]
             F == [p \in S \X Worlds |-> OnMove(p[2], p[1], c, from, picks)]
  <1>1. IsFiniteSet(S) /\ c \in Creatures /\ Kept(w, c)
    BY FiniteCreatures, FS_Subset DEF World, Kept
  <1>2. w \in R[{}]
    <2>1. Quiet(w, w) /\ Meek(w, w) /\ w \in Worlds /\ P \ {} = P
      BY QuietAlone, MeekAlone DEF Good, Sound, Shape, Tame
    <2> QED
      BY <2>1
  <1>3. ASSUME NEW s \in SUBSET S, NEW v \in Worlds, NEW x \in S, v \in R[s \ {x}], x \in s
        PROVE  OnMove(v, x, c, from, picks) \in R[s]
    <2> DEFINE u == OnMove(v, x, c, from, picks)
    <2>1. Good(v, c, P \ (s \ {x})) /\ Quiet(w, v) /\ Meek(w, v)
      BY <1>3
    <2>2. Kept(v, x) /\ Kept(v, c)
      BY <1>1, <2>1, QuietWorld
    <2>3. Good(u, c, (P \ (s \ {x})) \ {x}) /\ Quiet(v, u) /\ Meek(v, u)
      BY <1>1, <2>1, <2>2, OnMoveGood
    <2> HIDE DEF u
    <2>4. Quiet(w, u) /\ Meek(w, u)
      BY <2>1, <2>3, QuietTwice, MeekTwice
    <2>5. (P \ (s \ {x})) \ {x} = P \ s
      BY <1>3
    <2>6. u \in Worlds
      BY <2>3 DEF Good, Sound, Shape
    <2> QED
      BY <2>3, <2>4, <2>5, <2>6 DEF u
  <1>10. Stays(S, Worlds, R, F, w)
    <2>1. R \in [SUBSET S -> SUBSET Worlds]
      OBVIOUS
    <2>2. ASSUME NEW s \in SUBSET S, NEW v \in Worlds, s # {}, v \in R[s \ {Some(s)}]
          PROVE  F[<<Some(s), v>>] \in R[s]
      <3>1. Some(s) \in s /\ Some(s) \in S /\ F[<<Some(s), v>>] = OnMove(v, Some(s), c, from, picks)
        BY <2>2, SomeOf
      <3> HIDE DEF R, F
      <3> QED
        BY <1>3, <2>2, <3>1
    <2> HIDE DEF R, F
    <2> QED
      BY <1>2, <2>1, <2>2 DEF Stays
  <1>11. PICK g \in [SUBSET S -> Worlds] : Folding(S, R, F, w, g)
    <2> HIDE DEF R, F
    <2> QED
      BY <1>1, <1>10, FoldExists
  <1> DEFINE next(h, s) == IF s = {} THEN w ELSE OnMove(h[s \ {Some(s)}], Some(s), c, from, picks)
             fold == CHOOSE h : h = [s \in SUBSET S |-> next(h, s)]
  <1>12. ASSUME NEW s \in SUBSET S, NEW v \in Worlds, s # {}
         PROVE  F[<<Some(s), v>>] = OnMove(v, Some(s), c, from, picks)
    BY <1>12, SomeOf
  <1>13. fold = [s \in SUBSET S |-> next(fold, s)]
    <2>1. g = [s \in SUBSET S |-> next(g, s)]
      <3> HIDE DEF R, F
      <3> QED
        BY <1>11, <1>12 DEF Folding
    <2> HIDE DEF next
    <2> QED
      BY <2>1
  <1>14. FoldSet(LAMBDA x, v : OnMove(v, x, c, from, picks), w, S) = fold[S]
    BY DEF FoldSet, MapThenFoldSet, Some
  <1>15. fold[S] \in R[S]
    <2> HIDE DEF R, F, fold
    <2>1. Unfolds(S, Worlds, F, w, fold)
      BY <1>12, <1>13 DEF Unfolds
    <2> QED
      BY <1>1, <1>10, <2>1, FoldIn
  <1>20. FoldSet(LAMBDA x, v : OnMove(v, x, c, from, picks), w, S) \in R[S]
    <2> HIDE DEF R, F, fold
    <2> QED
      BY <1>14, <1>15
  <1> DEFINE z == Tell(w, S, c, from, picks)
  <1>21. z \in R[S]
    <2> HIDE DEF R
    <2> QED
      BY <1>20 DEF Tell
  <1> HIDE DEF z
  <1>22. Good(z, c, P \ S) /\ Quiet(w, z) /\ Meek(w, z)
    BY <1>21
  <1> QED
    BY <1>22 DEF z

LEMMA MoveGood ==
  ASSUME NEW w, Fine(w), NEW c \in World(w), NEW place \in Places, NEW far \in SUBSET w[c].summons,
         NEW early, NEW picks
  PROVE  /\ Fine(Move(w, c, place, far, early, picks))
         /\ c \in World(Move(w, c, place, far, early, picks))
         /\ Move(w, c, place, far, early, picks)[c].alive = w[c].alive
         /\ Meek(w, Move(w, c, place, far, early, picks))
  <1> DEFINE from == w[c].at
             watching == {x \in World(w) : InReach(w, x, from) \/ InReach(w, x, place)} \ {c}
             step == [w EXCEPT ![c].at = place]
             alone == Strand(step, far, early)
             told == OnMove(alone, c, c, from, picks)
             v == Tell(told, watching, c, from, picks)
             P == {c} \cup watching
  <1>0. c \in Creatures /\ w \in Worlds /\ World(w) \subseteq Creatures /\ watching \subseteq World(w)
    BY DEF World, Fine, Good, Sound, Shape
  <1>1. /\ Good(step, c, P) /\ Orderly(step) /\ World(step) = World(w)
        /\ \A x \in Creatures : Same(step[x], w[x], {"at"})
    <2>1. c \in P /\ Null \notin P
      BY <1>0, FiniteCreatures
    <2>2. \A x \in World(w) : x # c /\ InReach(w, x, w[c].at) => x \in P
      OBVIOUS
    <2> HIDE DEF P
    <2> QED
      BY <2>1, <2>2, StepGood
  <1> HIDE DEF step
  <1>2. /\ Good(alone, c, P) /\ Orderly(alone) /\ c \in World(alone)
        /\ \E G \in SUBSET Creatures : Left(step, alone, G)
    <2>1. far \in SUBSET step[c].summons /\ c \in World(step)
      BY <1>0, <1>1 DEF Same, Fields
    <2> HIDE DEF P
    <2> QED
      BY <1>1, <2>1, StrandGood
  <1> HIDE DEF alone
  <1>3. PICK G \in SUBSET Creatures : Left(step, alone, G)
    BY <1>2
  <1>4. Good(told, c, P \ {c}) /\ Quiet(alone, told) /\ Meek(alone, told)
    <2>1. Kept(alone, c)
      BY <1>2 DEF Kept, World
    <2> HIDE DEF P
    <2> QED
      BY <1>0, <1>2, <2>1, OnMoveGood
  <1> HIDE DEF told
  <1>5. \A x \in World(w) : Kept(told, x)
    <2> SUFFICES ASSUME NEW x \in World(w) PROVE Kept(told, x)
      OBVIOUS
    <2>1. Kept(step, x)
      BY <1>1 DEF Kept, World
    <2>2. Kept(alone, x)
      BY <1>0, <1>3, <2>1 DEF Left
    <2> QED
      BY <1>0, <1>4, <2>2, QuietWorld
  <1>6. c \in World(told)
    BY <1>2, <1>4, QuietWorld
  <1>7. Good(v, c, (P \ {c}) \ watching) /\ Quiet(told, v) /\ Meek(told, v)
    <2>1. watching \in SUBSET Creatures /\ \A x \in watching : Kept(told, x)
      BY <1>0, <1>5
    <2> HIDE DEF P, watching
    <2> QED
      BY <1>4, <1>6, <2>1, TellGood
  <1> HIDE DEF v
  <1>8. (P \ {c}) \ watching = {}
    OBVIOUS
  <1>9. Good(v, Null, {})
    BY <1>7, <1>8, NobodyLate
  <1>10. Orderly(v) /\ c \in World(v)
    BY <1>2, <1>4, <1>6, <1>7, QuietOrderly, QuietWorld
  <1>11. v[c].alive = w[c].alive
    <2>1. step[c].alive = w[c].alive /\ Kept(step, c)
      BY <1>0, <1>1 DEF Same, Fields, Kept, World
    <2>2. alone[c].alive = step[c].alive
      BY <1>0, <1>3, <2>1 DEF Left
    <2>3. told[c].alive = alone[c].alive
      BY <1>0, <1>2, <1>4 DEF Quiet, Kept, World
    <2>4. v[c].alive = told[c].alive
      BY <1>0, <1>6, <1>7 DEF Quiet, Kept, World
    <2> QED
      BY <2>1, <2>2, <2>3, <2>4
  <1>12. Move(w, c, place, far, early, picks) = v
    BY DEF Move, Strand, Tell, v, told, alone, step
  <1>13. Meek(w, v)
    <2>1. Meek(w, step)
      <3>1. \A x \in World(w) : step[x].client = w[x].client /\ step[x].attacked = w[x].attacked
        BY <1>0, <1>1 DEF Same, Fields
      <3> QED
        BY <1>1, <3>1 DEF Meek
    <2>2. Meek(step, alone)
      BY <1>3, LeftIsMeek
    <2> QED
      BY <1>4, <1>7, <2>1, <2>2, MeekTwice
  <1> QED
    BY <1>9, <1>10, <1>11, <1>12, <1>13 DEF Fine

-----------------------------------------------------------------------------
(* Placing and summoning creatures. *)

\* c, who was nobody, stands in the world and is known by the protocol if he is a player.
Entered(w, c, b) == [w EXCEPT ![c] = b]

LEMMA NewGood ==
  ASSUME NEW w, Fine(w), NEW c \in Creatures, w[c].body = "none", NEW b \in Body,
         b.body = "world", b.master = Null, b.attacked = Null, b.follow = Null, b.summons = {},
         b.targets = {}, b.friends = {}, ~b.listed, ~b.check, b.due = 0, b.alive,
         b.refs = 1 + One(b.client)
  PROVE  /\ Good(Entered(w, c, b), c, {Null}) /\ Orderly(Entered(w, c, b))
         /\ World(Entered(w, c, b)) = World(w) \cup {c}
  <1> DEFINE v == Entered(w, c, b)
  <1>0. w \in Worlds /\ w[c] = Unborn /\ World(w) \subseteq Creatures /\ c \notin World(w)
    BY DEF Fine, Good, Sound, Shape, World
  <1>1. v \in Worlds /\ v[c] = b /\ \A x \in Creatures : x # c => v[x] = w[x]
    BY <1>0 DEF Worlds, Entered
  <1> HIDE DEF v
  <1>2. World(v) = World(w) \cup {c}
    BY <1>1 DEF World
  <1>3. \A x \in Creatures : /\ v[x].targets = w[x].targets /\ v[x].friends = w[x].friends
                             /\ v[x].summons = w[x].summons
    BY <1>0, <1>1, UnbornIs
  <1>4. Shape(v)
    <2>1. \A p \in Players : v[p].targets = {} /\ v[p].friends = {}
      BY <1>3 DEF Fine, Good, Sound, Shape, Creatures
    <2>2. \A x \in Creatures : v[x].body = "none" => v[x] = Unborn
      BY <1>1 DEF Fine, Good, Sound, Shape
    <2> QED
      BY <1>1, <2>1, <2>2 DEF Shape
  <1>5. Counted(v)
    <2> SUFFICES ASSUME NEW x \in Creatures PROVE v[x].refs = Own(v[x]) + Held(v, x)
      BY DEF Counted
    <2>1. Held(v, x) = Held(w, x)
      BY <1>3, HeldSame
    <2>2. w[x].refs = Own(w[x]) + Held(w, x)
      BY DEF Fine, Good, Sound, Counted
    <2>3. CASE x # c
      BY <1>1, <2>1, <2>2, <2>3
    <2>4. CASE x = c
      <3>1. w[c].refs = 0 /\ Own(w[c]) \in Nat /\ Held(w, c) \in Nat
        BY <1>0, UnbornIs, OwnCounted
      <3>2. Held(w, c) = 0
        BY <2>2, <2>4, <3>1
      <3>3. Own(b) = 1 + One(b.client)
        <4>1. One(b.body = "world") = 1 /\ One(b.listed) = 0 /\ One(b.client) \in Nat
          BY DEF One
        <4> QED
          BY <4>1 DEF Own
      <3> QED
        BY <1>1, <2>1, <2>4, <3>2, <3>3 DEF One
    <2> QED
      BY <2>3, <2>4
  <1>6. Linked(v)
    <2>1. ASSUME NEW x \in World(v), v[x].master # Null
          PROVE  x \in v[v[x].master].summons /\ Kept(v, v[x].master)
      <3>1. x \in World(w) /\ x # c /\ v[x].master = w[x].master /\ w[x].master \in Creatures
        BY <1>0, <1>1, <1>2, <2>1 DEF Worlds, Body
      <3>2. x \in w[w[x].master].summons /\ Kept(w, w[x].master)
        BY <2>1, <3>1 DEF Fine, Good, Sound, Linked
      <3>3. Kept(v, w[x].master)
        BY <1>0, <1>1, <3>1, <3>2, KeptIsBorn DEF Kept, Fine, Good, Sound
      <3> QED
        BY <1>3, <3>1, <3>2, <3>3
    <2>2. ASSUME NEW d \in Creatures, NEW s \in v[d].summons
          PROVE  /\ v[s].body = "world" => v[s].master = d
                 /\ v[d].body = "world" => v[s].body = "world"
      <3>1. s \in w[d].summons /\ s \in Creatures
        BY <1>1, <1>3 DEF Worlds, Body, Creatures
      <3>2. d # c /\ s # c
        <4>1. w[s].body # "none"
          BY <3>1, ListedIsBorn DEF Fine, Good, Sound
        <4>2. w[c].summons = {}
          BY <1>0, UnbornIs
        <4> QED
          BY <3>1, <4>1, <4>2
      <3> QED
        BY <1>1, <3>1, <3>2 DEF Fine, Good, Sound, Linked
    <2> QED
      BY <2>1, <2>2 DEF Linked
  <1>7. Watch(v, c, {Null})
    <2> SUFFICES ASSUME NEW x \in World(v), NEW t \in Aims(v, x)
                 PROVE  InReach(v, x, v[t].at) /\ t \in World(v)
      BY DEF Watch
    <2>1. x # c /\ x \in World(w) /\ t \in Aims(w, x)
      BY <1>1, <1>2, <1>0 DEF Aims
    <2>2. t \in World(w) /\ InReach(w, x, w[t].at)
      BY <2>1 DEF Fine, Good, Sound, Watch
    <2> QED
      BY <1>0, <1>1, <1>2, <2>1, <2>2 DEF InReach
  <1>8. Checked(v, c, {Null})
    BY <1>1 DEF Fine, Good, Sound, Checked
  <1>9. Unheld(v) = {}
    <2>1. b.refs # 0
      BY DEF One
    <2> QED
      BY <1>1, <2>1 DEF Fine, Good, Unheld
  <1>10. Orderly(v)
    BY <1>0, <1>1, <1>2 DEF Fine, Orderly, MastersHere, Flat
  <1> QED
    BY <1>2, <1>4, <1>5, <1>6, <1>7, <1>8, <1>9, <1>10 DEF v, Good, Sound

LEMMA PlaceGood ==
  ASSUME NEW w, Fine(w), NEW c \in Creatures, w[c].body = "none", NEW place \in Places \cup {Null}
  PROVE  /\ Fine(Place(w, c, place)) /\ World(Place(w, c, place)) = World(w) \cup {c}
         /\ Place(w, c, place)[c].master = Null /\ Place(w, c, place)[c].summons = {}
         /\ \A x \in World(w) : /\ Place(w, c, place)[x].master = w[x].master
                                /\ Place(w, c, place)[x].alive = w[x].alive
         /\ c \in Monsters => Meek(w, Place(w, c, place))
  <1> DEFINE b == [Fresh(place, c \in Players) EXCEPT
                      !.body = "world", !.refs = IF c \in Players THEN 2 ELSE 1]
             new == [w EXCEPT ![c] = b]
             S == {x \in World(new) \cap Monsters : InReach(new, x, place)}
             appear(x, v) == IF x = c THEN UpdateIdle(UpdateTargets(v, x), x) ELSE Found(v, x, c)
             R == [s \in SUBSET S |-> {v \in Worlds : Good(v, c, {Null}) /\ Tame(new, v)}]
             F == [p \in S \X Worlds |-> appear(p[1], p[2])]
  <1>0. /\ b \in Body /\ b.body = "world" /\ b.master = Null /\ b.attacked = Null /\ b.follow = Null
        /\ b.summons = {} /\ b.targets = {} /\ b.friends = {} /\ ~b.listed /\ ~b.check
        /\ b.due = 0 /\ b.alive /\ b.refs = 1 + One(b.client)
    <2>1. CASE c \in Players
      <3>1. (c \in Players) = TRUE
        BY <2>1
      <3>2. b = [body |-> "world", at |-> place, alive |-> TRUE, client |-> TRUE,
                 attacked |-> Null, follow |-> Null, master |-> Null, summons |-> {},
                 targets |-> {}, friends |-> {}, listed |-> FALSE, check |-> FALSE,
                 refs |-> 2, due |-> 0]
        <4>1. Fresh(place, c \in Players) = Fresh(place, TRUE)
          BY <3>1
        <4>2. b = [Fresh(place, TRUE) EXCEPT !.body = "world", !.refs = 2]
          BY <2>1, <4>1
        <4> HIDE DEF b
        <4> QED
          BY <4>2 DEF Fresh
      <3> HIDE DEF b
      <3>3. b \in Body
        BY <3>2 DEF Body
      <3>4. b.refs = 2 /\ b.client = TRUE
        BY <3>2
      <3> QED
        BY <3>2, <3>3, <3>4 DEF One
    <2>2. CASE c \notin Players
      <3>1. (c \in Players) = FALSE
        BY <2>2
      <3>2. b = [body |-> "world", at |-> place, alive |-> TRUE, client |-> FALSE,
                 attacked |-> Null, follow |-> Null, master |-> Null, summons |-> {},
                 targets |-> {}, friends |-> {}, listed |-> FALSE, check |-> FALSE,
                 refs |-> 1, due |-> 0]
        <4>1. Fresh(place, c \in Players) = Fresh(place, FALSE)
          BY <3>1
        <4>2. b = [Fresh(place, FALSE) EXCEPT !.body = "world", !.refs = 1]
          BY <2>2, <4>1
        <4> HIDE DEF b
        <4> QED
          BY <4>2 DEF Fresh
      <3> HIDE DEF b
      <3>3. b \in Body
        BY <3>2 DEF Body
      <3>4. b.refs = 1 /\ b.client = FALSE
        BY <3>2
      <3> QED
        BY <3>2, <3>3, <3>4 DEF One
    <2> QED
      BY <2>1, <2>2
  <1> HIDE DEF b
  <1>30. Good(new, c, {Null}) /\ Orderly(new) /\ World(new) = World(w) \cup {c}
    <2>1. new = Entered(w, c, b)
      BY DEF Entered
    <2> HIDE DEF new
    <2>2. /\ Good(Entered(w, c, b), c, {Null}) /\ Orderly(Entered(w, c, b))
          /\ World(Entered(w, c, b)) = World(w) \cup {c}
      BY <1>0, NewGood
    <2> QED
      BY <2>1, <2>2
  <1>31. /\ new[c].master = Null /\ new[c].summons = {} /\ new[c].attacked = Null
         /\ \A x \in World(w) : new[x] = w[x]
    BY <1>0 DEF Fine, Good, Sound, Shape, Worlds, World
  <1> HIDE DEF new
  <1>32. World(w) \subseteq Creatures /\ World(new) \subseteq Creatures
    BY DEF World
  <1>1. IsFiniteSet(S) /\ S \subseteq World(new) /\ S \subseteq Monsters
    BY <1>32, FiniteCreatures, FS_Subset
  <1>2. new \in R[{}]
    BY <1>30, QuietAlone DEF Good, Sound, Shape
  <1>3. ASSUME NEW s \in SUBSET S, NEW v \in Worlds, NEW x \in S, v \in R[s \ {x}], x \in s
        PROVE  appear(x, v) \in R[s]
    <2>1. Good(v, c, {Null}) /\ Tame(new, v)
      BY <1>3
    <2>2. Kept(v, x) /\ Kept(v, c) /\ x \in Monsters
      <3>1. Kept(new, x) /\ Kept(new, c) /\ x \in Creatures
        BY <1>1, <1>30, <1>32 DEF Kept, World
      <3> QED
        BY <1>1, <2>1, <3>1, QuietWorld DEF Tame
    <2>3. Good(appear(x, v), c, {Null}) /\ Tame(v, appear(x, v))
      <3>1. CASE x = c
        BY <2>1, <2>2, <3>1, LookGood
      <3>2. CASE x # c
        BY <2>1, <2>2, <3>2, FoundGood
      <3> QED
        BY <3>1, <3>2
    <2> HIDE DEF appear
    <2>4. Tame(new, appear(x, v))
      BY <2>1, <2>3, TameTwice
    <2>5. appear(x, v) \in Worlds
      BY <2>3 DEF Good, Sound, Shape
    <2> QED
      BY <2>3, <2>4, <2>5
  <1>10. Stays(S, Worlds, R, F, new)
    <2>1. R \in [SUBSET S -> SUBSET Worlds]
      OBVIOUS
    <2>2. ASSUME NEW s \in SUBSET S, NEW v \in Worlds, s # {}, v \in R[s \ {Some(s)}]
          PROVE  F[<<Some(s), v>>] \in R[s]
      <3>1. Some(s) \in s /\ Some(s) \in S /\ F[<<Some(s), v>>] = appear(Some(s), v)
        BY <2>2, SomeOf
      <3> HIDE DEF S, R, F, appear
      <3> QED
        BY <1>3, <2>2, <3>1
    <2> HIDE DEF S, R, F, appear
    <2> QED
      BY <1>2, <2>1, <2>2 DEF Stays
  <1>11. PICK g \in [SUBSET S -> Worlds] : Folding(S, R, F, new, g)
    <2> HIDE DEF S, R, F, appear
    <2> QED
      BY <1>1, <1>10, FoldExists
  <1> DEFINE next(h, s) == IF s = {} THEN new ELSE appear(Some(s), h[s \ {Some(s)}])
             fold == CHOOSE h : h = [s \in SUBSET S |-> next(h, s)]
  <1>12. ASSUME NEW s \in SUBSET S, NEW v \in Worlds, s # {}
         PROVE  F[<<Some(s), v>>] = appear(Some(s), v)
    BY <1>12, SomeOf
  <1>13. fold = [s \in SUBSET S |-> next(fold, s)]
    <2>1. g = [s \in SUBSET S |-> next(g, s)]
      <3> HIDE DEF S, R, F, appear
      <3> QED
        BY <1>11, <1>12 DEF Folding
    <2> HIDE DEF next, appear
    <2> QED
      BY <2>1
  <1>14. FoldSet(appear, new, S) = fold[S]
    BY DEF FoldSet, MapThenFoldSet, Some
  <1>15. fold[S] \in R[S]
    <2> HIDE DEF S, R, F, appear, fold
    <2>1. Unfolds(S, Worlds, F, new, fold)
      BY <1>12, <1>13 DEF Unfolds
    <2> QED
      BY <1>1, <1>10, <2>1, FoldIn
  <1>20. FoldSet(appear, new, S) \in R[S]
    <2> HIDE DEF S, R, F, appear, fold
    <2> QED
      BY <1>14, <1>15
  <1> DEFINE u == FoldSet(appear, new, S)
             v == AddCheck(u, c)
  <1>21. Good(u, c, {Null}) /\ Tame(new, u)
    <2>1. u \in R[S]
      BY <1>20
    <2> HIDE DEF u
    <2> QED
      BY <2>1
  <1>22. Place(w, c, place) = v
    BY DEF Place, v, u, new, b
  <1> HIDE DEF u, S
  <1>23. c \in World(u)
    BY <1>21, <1>30, QuietWorld DEF Tame
  <1>24. Good(v, c, {Null}) /\ Tame(u, v) /\ v[c].check
    BY <1>21, <1>23, AddCheckGood
  <1> HIDE DEF v
  <1>25. Good(v, Null, {})
    <2>1. Checked(v, c, {}) /\ Watch(v, c, {})
      <3>1. \A x \in World(v) : x \notin {Null}
        BY FiniteCreatures DEF World
      <3> QED
        BY <1>24, <3>1 DEF Good, Sound, Checked, Watch
    <2>2. Good(v, c, {})
      BY <1>24, <2>1 DEF Good, Sound
    <2> QED
      BY <2>2, NobodyLate
  <1>26. Tame(new, v)
    BY <1>21, <1>24, TameTwice
  <1>27. World(v) = World(w) \cup {c} /\ Orderly(v)
    BY <1>26, <1>30, QuietWorld, QuietOrderly DEF Tame
  <1>28. \A x \in World(new) : /\ v[x].master = new[x].master /\ v[x].alive = new[x].alive
                               /\ v[x].summons = new[x].summons
    BY <1>26, <1>32 DEF Tame, Quiet, Kept, World
  <1>29. /\ v[c].master = Null /\ v[c].summons = {}
         /\ \A x \in World(w) : v[x].master = w[x].master /\ v[x].alive = w[x].alive
    BY <1>28, <1>30, <1>31
  <1>33. c \in Monsters => Meek(w, v)
    <2>1. c \in Monsters => Meek(w, new)
      BY <1>30, <1>31, KindAssumption DEF Meek
    <2> QED
      BY <1>26, <2>1, TameIsMeek, MeekTwice
  <1> QED
    BY <1>22, <1>25, <1>27, <1>29, <1>33 DEF Fine

\* c, who has no summons, gets a master who has none.
LEMMA JoinFine ==
  ASSUME NEW w, Fine(w), NEW c \in World(w), c \in Monsters, NEW new \in World(w), c # new,
         w[c].master # new, w[new].master = Null, w[c].summons = {}
  PROVE  /\ Fine(SetMaster(w, c, new)) /\ World(SetMaster(w, c, new)) = World(w)
         /\ \A x \in World(w) : SetMaster(w, c, new)[x].alive = w[x].alive
         /\ Meek(w, SetMaster(w, c, new))
  <1> DEFINE v == SetMaster(w, c, new)
  <1>1. Good(v, Null, {}) /\ Joined(w, v, c, new)
    BY SetMasterGood DEF Fine
  <1> HIDE DEF v
  <1>2. World(v) = World(w) /\ \A x \in World(w) : v[x].alive = w[x].alive
    BY <1>1 DEF Joined, Kept, World
  <1>3. \A x \in World(w) : /\ v[x].master = IF x = c THEN new ELSE w[x].master
                            /\ v[x].summons \subseteq w[x].summons \cup (IF x = new THEN {c} ELSE {})
    BY <1>1 DEF Joined, World
  <1>4. ASSUME NEW x \in World(v), v[x].master # Null
        PROVE  v[x].master \in World(v) /\ v[x].summons = {}
    <2>1. CASE x = c
      <3>1. v[x].master = new
        BY <1>3, <2>1
      <3>2. v[x].summons \subseteq {}
        BY <1>3, <2>1
      <3> QED
        BY <1>2, <3>1, <3>2
    <2>2. CASE x # c
      <3>1. v[x].master = w[x].master /\ x \in World(w) /\ x # new
        BY <1>2, <1>3, <1>4, <2>2
      <3>2. v[x].summons \subseteq w[x].summons
        BY <1>3, <3>1
      <3>3. w[x].master \in World(w) /\ w[x].summons = {}
        BY <1>4, <3>1 DEF Fine, Orderly, MastersHere, Flat
      <3> QED
        BY <1>2, <3>1, <3>2, <3>3
    <2> QED
      BY <2>1, <2>2
  <1>5. Orderly(v)
    BY <1>4 DEF Orderly, MastersHere, Flat
  <1>6. Meek(w, v)
    <2>1. \A x \in World(w) : /\ v[x].client = w[x].client /\ x # Null
                              /\ v[x].attacked \in {w[x].attacked, Null}
      BY <1>1, FiniteCreatures DEF Joined, Eased, Kept, World
    <2> QED
      BY <1>2, <2>1 DEF Meek
  <1> QED
    BY <1>1, <1>2, <1>5, <1>6 DEF v, Fine

LEMMA SummonGood ==
  ASSUME NEW w, Fine(w), NEW c \in World(w), NEW m \in Monsters, w[m].body = "none",
         w[c].master = Null
  PROVE  /\ Fine(Summon(w, c, m)) /\ World(w) \subseteq World(Summon(w, c, m))
         /\ \A x \in World(w) : Summon(w, c, m)[x].alive = w[x].alive
         /\ Meek(w, Summon(w, c, m))
  <1> DEFINE u == Place(w, m, w[c].at)
             v == SetMaster(u, m, c)
  <1>0. m \in Creatures /\ m \notin World(w) /\ w[c].at \in Places \cup {Null}
    BY DEF Creatures, World, Fine, Good, Sound, Shape, Worlds, Body
  <1>1. /\ Fine(u) /\ World(u) = World(w) \cup {m} /\ u[m].master = Null /\ u[m].summons = {}
        /\ \A x \in World(w) : u[x].master = w[x].master /\ u[x].alive = w[x].alive
        /\ Meek(w, u)
    BY <1>0, PlaceGood
  <1> HIDE DEF u
  <1>2. c # Null /\ m # c
    BY <1>0, FiniteCreatures DEF World
  <1>3. Fine(v) /\ World(v) = World(u) /\ Meek(u, v) /\ \A x \in World(u) : v[x].alive = u[x].alive
    BY <1>1, <1>2, JoinFine
  <1> HIDE DEF v
  <1>4. Summon(w, c, m) = v
    BY DEF Summon, v, u
  <1> QED
    BY <1>1, <1>3, <1>4, MeekTwice

-----------------------------------------------------------------------------
(* Hurting creatures. *)

\* Nobody comes or goes, finds another master or other summons.
Alike(w, v) ==
    /\ World(v) = World(w)
    /\ \A x \in World(w) : v[x].master = w[x].master /\ v[x].summons = w[x].summons

LEMMA AlikeOrderly == ASSUME NEW w, NEW v, Alike(w, v), Orderly(w) PROVE Orderly(v)
  BY DEF Alike, Orderly, MastersHere, Flat

LEMMA QuietIsAlike == ASSUME NEW w, NEW v, Quiet(w, v) PROVE Alike(w, v)
  <1>1. World(v) = World(w)
    BY QuietWorld
  <1> QED
    BY <1>1 DEF Alike, Quiet, Kept, World

\* Nobody is deleted when a reference is given back that is not the last one.
LEMMA NobodyReaped == ASSUME NEW w, Unheld(w) = {} PROVE Reap(w) = w
  BY DEF Reap

\* c lives or not; who is dead is checked.
Alived(w, v, c, b) ==
    /\ Good(v, Null, {}) /\ Alike(w, v) /\ v[c].alive = b
    /\ \A x \in Creatures : Same(v[x], w[x], {"alive"}) /\ (x # c => v[x] = w[x])

LEMMA AliveGood ==
  ASSUME NEW w, Good(w, Null, {}), NEW c \in World(w), NEW b \in BOOLEAN,
         w[c].check \/ b \/ (c \in Excused /\ c \in Monsters)
  PROVE  Alived(w, [w EXCEPT ![c].alive = b], c, b)
  <1> DEFINE v == [w EXCEPT ![c].alive = b]
  <1>0. w \in Worlds /\ c \in Creatures /\ w[c] \in Body /\ w[c].body = "world" /\ DOMAIN w = Creatures
    BY DEF World, Good, Sound, Shape, Worlds
  <1>1. v \in Worlds /\ v[c].alive = b
    BY <1>0 DEF Worlds, Body
  <1>2. \A x \in Creatures : Same(v[x], w[x], {"alive"}) /\ (x # c => v[x] = w[x])
    <2>1. Same(v[c], w[c], {"alive"})
      BY <1>0 DEF Same, Fields, Body
    <2>2. \A x \in Creatures : x # c => v[x] = w[x]
      BY <1>0
    <2> HIDE DEF v
    <2> QED
      BY <2>1, <2>2 DEF Same
  <1> HIDE DEF v
  <1>3. \A x \in Creatures :
           /\ v[x].body = w[x].body /\ v[x].at = w[x].at /\ v[x].client = w[x].client
           /\ v[x].attacked = w[x].attacked /\ v[x].follow = w[x].follow
           /\ v[x].master = w[x].master /\ v[x].summons = w[x].summons
           /\ v[x].targets = w[x].targets /\ v[x].friends = w[x].friends
           /\ v[x].listed = w[x].listed /\ v[x].check = w[x].check
           /\ v[x].refs = w[x].refs /\ v[x].due = w[x].due
    BY <1>2 DEF Same, Fields
  <1>4. World(v) = World(w) /\ World(w) \subseteq Creatures
    BY <1>3 DEF World
  <1>5. Shape(v)
    <2>1. \A p \in Players : v[p].targets = {} /\ v[p].friends = {}
      BY <1>3 DEF Good, Sound, Shape, Creatures
    <2>2. \A x \in Creatures : v[x].body = "none" => v[x] = Unborn
      BY <1>0, <1>2, <1>3 DEF Good, Sound, Shape
    <2> QED
      BY <1>1, <2>1, <2>2 DEF Shape
  <1>6. Counted(v)
    <2>1. \A x : Held(v, x) = Held(w, x)
      BY <1>3, HeldSame
    <2>2. \A x \in Creatures : Own(v[x]) = Own(w[x])
      BY <1>3 DEF Own
    <2> QED
      BY <1>3, <2>1, <2>2 DEF Good, Sound, Counted
  <1>7. Linked(v)
    <2>1. \A x \in World(w) : w[x].master \in Creatures \cup {Null} /\ x \in Creatures
      BY <1>0 DEF Worlds, Body, World
    <2>2. \A x \in Creatures : w[x].summons \subseteq Creatures
      BY <1>0 DEF Worlds, Body, Creatures
    <2>3. \A x \in World(v) :
             v[x].master # Null => x \in v[v[x].master].summons /\ Kept(v, v[x].master)
      BY <1>3, <1>4, <2>1 DEF Good, Sound, Linked, Kept
    <2>4. \A d \in Creatures : \A s \in v[d].summons :
             /\ v[s].body = "world" => v[s].master = d
             /\ v[d].body = "world" => v[s].body = "world"
      BY <1>3, <2>2 DEF Good, Sound, Linked
    <2> QED
      BY <2>3, <2>4 DEF Linked
  <1>8. Watch(v, Null, {})
    <2>1. \A x \in World(w) : Aims(v, x) = Aims(w, x) /\ Aims(w, x) \subseteq Creatures
      BY <1>0, <1>3, <1>4 DEF Aims, Worlds, Body
    <2>2. \A x, t \in Creatures : InReach(v, x, v[t].at) <=> InReach(w, x, w[t].at)
      BY <1>3 DEF InReach
    <2> QED
      BY <1>4, <2>1, <2>2 DEF Good, Sound, Watch
  <1>9. Checked(v, Null, {})
    <2>1. v[c].body = "world" /\ (c \in Players \/ (~v[c].alive /\ c \notin Excused)) => v[c].check
      BY <1>1, <1>3, <1>0, KindAssumption DEF Good, Sound, Checked
    <2> QED
      BY <1>2, <1>3, <2>1, <1>0 DEF Good, Sound, Checked
  <1>10. Unheld(v) = {}
    BY <1>3 DEF Good, Unheld
  <1>11. Alike(w, v)
    BY <1>3, <1>4 DEF Alike
  <1> QED
    BY <1>1, <1>2, <1>5, <1>6, <1>7, <1>8, <1>9, <1>10, <1>11 DEF v, Good, Sound, Alived

LEMMA WakeGood ==
  ASSUME NEW w, Good(w, Null, {}), NEW c \in World(w)
  PROVE  LET awake == IF c \in Monsters THEN SetIdle(w, c, FALSE) ELSE w
         IN  Good(awake, Null, {}) /\ Tame(w, awake)
             /\ (awake[c].check \/ (c \in Excused /\ c \in Monsters))
  <1>0. c \in Creatures /\ w[c].body = "world"
    BY DEF World
  <1>1. CASE c \notin Monsters \/ ~w[c].alive
    <2>1. w[c].check \/ (c \in Excused /\ c \in Monsters)
      BY <1>0, <1>1 DEF Creatures, Good, Sound, Checked
    <2> QED
      BY <1>1, <2>1, QuietAlone DEF SetIdle
  <1>2. CASE c \in Monsters /\ w[c].alive
    <2>1. SetIdle(w, c, FALSE) = AddCheck(w, c)
      BY <1>0, <1>2 DEF SetIdle
    <2>2. Good(AddCheck(w, c), Null, {}) /\ Tame(w, AddCheck(w, c)) /\ AddCheck(w, c)[c].check
      BY AddCheckGood
    <2> QED
      BY <1>2, <2>1, <2>2
  <1> QED
    BY <1>1, <1>2

LEMMA HurtGood ==
  ASSUME NEW w, Good(w, Null, {}), NEW c \in World(w), NEW fatal \in BOOLEAN
  PROVE  /\ Good(Hurt(w, c, fatal), Null, {}) /\ Alike(w, Hurt(w, c, fatal))
         /\ \A x \in World(w) : x # c => Hurt(w, c, fatal)[x].alive = w[x].alive
         /\ Meek(w, Hurt(w, c, fatal))
  <1> DEFINE u == IF c \in Monsters THEN SetIdle(w, c, FALSE) ELSE w
  <1>1. Good(u, Null, {}) /\ Tame(w, u) /\ (u[c].check \/ (c \in Excused /\ c \in Monsters))
    BY WakeGood
  <1> HIDE DEF u
  <1>2. World(u) = World(w) /\ c \in Creatures
    BY <1>1, QuietWorld DEF Tame, World
  <1>3. PICK b \in BOOLEAN : b = (u[c].alive /\ ~fatal)
    OBVIOUS
  <1> DEFINE v == [u EXCEPT ![c].alive = b]
  <1>4. Hurt(w, c, fatal) = v
    <2>1. u[c] \in Body /\ DOMAIN u = Creatures
      BY <1>1, <1>2 DEF Good, Sound, Shape, Worlds
    <2> QED
      BY <1>3, <2>1 DEF Hurt, u, Body
  <1>5. /\ Good(v, Null, {}) /\ Alike(u, v) /\ \A x \in Creatures : x # c => v[x] = u[x]
        /\ \A x \in Creatures : Same(v[x], u[x], {"alive"})
    <2>1. c \in World(u) /\ (u[c].check \/ b \/ (c \in Excused /\ c \in Monsters))
      BY <1>1, <1>2
    <2>2. Alived(u, v, c, b)
      BY <1>1, <2>1, AliveGood
    <2> HIDE DEF v
    <2> QED
      BY <2>2 DEF Alived
  <1> HIDE DEF v
  <1>6. Alike(w, v)
    BY <1>1, <1>2, <1>5, QuietIsAlike DEF Tame, Alike
  <1>7. \A x \in World(w) : x # c => v[x].alive = w[x].alive
    BY <1>1, <1>5 DEF Tame, Quiet, Kept, World
  <1>8. Meek(w, v)
    <2>1. \A x \in Creatures : v[x].client = u[x].client /\ v[x].attacked = u[x].attacked
      BY <1>5 DEF Same, Fields
    <2>2. World(v) = World(u) /\ World(u) \subseteq Creatures
      BY <1>5 DEF Alike, World
    <2>3. Meek(u, v)
      BY <2>1, <2>2 DEF Meek
    <2> QED
      BY <1>1, <2>3, TameIsMeek, MeekTwice
  <1> QED
    BY <1>4, <1>5, <1>6, <1>7, <1>8

Slain(w, c) == Hurt(w, c, TRUE)

\* The fate of a creature that is struck depends on itself only.
LEMMA HurtAlone ==
  ASSUME NEW w \in Worlds, NEW v \in Worlds, NEW c \in Creatures, w[c] = v[c]
  PROVE  /\ Slain(w, c)[c] = Slain(v, c)[c]
         /\ DOMAIN Slain(w, c) = Creatures
         /\ \A x \in Creatures : x # c => Slain(w, c)[x] = w[x]
  <1> DEFINE wake(u) == IF c \in Monsters THEN SetIdle(u, c, FALSE) ELSE u
  <1>1. ASSUME NEW u \in Worlds
        PROVE  /\ DOMAIN AddCheck(u, c) = Creatures
               /\ \A x \in Creatures : x # c => AddCheck(u, c)[x] = u[x]
    BY <1>1 DEF AddCheck, Worlds
  <1>2. AddCheck(w, c)[c] = AddCheck(v, c)[c]
    <2>1. w[c] \in Body /\ DOMAIN w = Creatures /\ DOMAIN v = Creatures
      BY DEF Worlds
    <2>2. PICK n : n = IF w[c].listed THEN w[c].refs ELSE w[c].refs + 1
      OBVIOUS
    <2>3. AddCheck(w, c) = [w EXCEPT ![c].check = TRUE, ![c].listed = TRUE, ![c].refs = n]
      BY <2>2 DEF AddCheck
    <2>4. AddCheck(v, c) = [v EXCEPT ![c].check = TRUE, ![c].listed = TRUE, ![c].refs = n]
      BY <2>2 DEF AddCheck
    <2> QED
      BY <2>1, <2>3, <2>4
  <1>3. wake(w)[c] = wake(v)[c]
    BY <1>2 DEF SetIdle
  <1>4. ASSUME NEW u \in Worlds
        PROVE  DOMAIN wake(u) = Creatures /\ \A x \in Creatures : x # c => wake(u)[x] = u[x]
    BY <1>1 DEF SetIdle, Worlds
  <1>5. \A u : Hurt(u, c, TRUE) = [wake(u) EXCEPT ![c].alive = FALSE]
    <2>1. ASSUME NEW u PROVE Hurt(u, c, TRUE) = [wake(u) EXCEPT ![c].alive = @ /\ ~TRUE]
      BY DEF Hurt
    <2>2. ASSUME NEW u PROVE [wake(u) EXCEPT ![c].alive = @ /\ ~TRUE] = [wake(u) EXCEPT ![c].alive = FALSE]
      OBVIOUS
    <2> QED
      BY <2>1, <2>2
  <1> HIDE DEF wake
  <1>6. ASSUME NEW u \in Worlds
        PROVE  /\ Hurt(u, c, TRUE)[c] = [wake(u)[c] EXCEPT !.alive = FALSE]
               /\ DOMAIN Hurt(u, c, TRUE) = Creatures
               /\ \A x \in Creatures : x # c => Hurt(u, c, TRUE)[x] = u[x]
    <2>1. Hurt(u, c, TRUE) = [wake(u) EXCEPT ![c].alive = FALSE]
      BY <1>5
    <2>2. DOMAIN wake(u) = Creatures /\ \A x \in Creatures : x # c => wake(u)[x] = u[x]
      BY <1>4
    <2> QED
      BY <2>1, <2>2
  <1>7. Hurt(w, c, TRUE)[c] = Hurt(v, c, TRUE)[c]
    <2>1. /\ Hurt(w, c, TRUE)[c] = [wake(w)[c] EXCEPT !.alive = FALSE]
          /\ Hurt(v, c, TRUE)[c] = [wake(v)[c] EXCEPT !.alive = FALSE]
      BY <1>6
    <2> QED
      BY <1>3, <2>1
  <1> QED
    BY <1>6, <1>7 DEF Slain

Stripped(w, m, s) == [w EXCEPT ![m].summons = @ \ s]

Kill(s, w) == Unref([Hurt(w, s, TRUE) EXCEPT ![s].master = Null], {s})

Releases(w, m, s, x) ==
    LET left == Stripped(w, m, s)
    IN  /\ Kill(x, w) \in Worlds /\ Kill(x, w)[m].summons = w[m].summons
        /\ Stripped(Kill(x, w), m, s \cup {x}) = SetMaster(Slain(left, x), x, Null)
        /\ x \in World(left) /\ left[x].master = m

\* To kill one summon is to strike it and to take it from its master.
LEMMA KillIsRelease ==
  ASSUME NEW w \in Worlds, NEW m \in Creatures, NEW s, NEW x \in Monsters, x # m, x \in w[m].summons,
         x \notin s, Good(Stripped(w, m, s), Null, {}), m \in World(w)
  PROVE  Releases(w, m, s, x)
  <1> DEFINE ws == Stripped(w, m, s)
             hs == Slain(ws, x)
             h == Slain(w, x)
  <1>0. x \in Creatures /\ w[m] \in Body /\ w[x] \in Body /\ DOMAIN w = Creatures /\ w[m].body = "world"
    BY DEF Creatures, Worlds, World
  <1>1. /\ ws \in Worlds /\ ws[m].summons = w[m].summons \ s /\ ws[m].body = "world"
        /\ \A y \in Creatures : y # m => ws[y] = w[y]
    BY <1>0 DEF Stripped, Worlds, Body
  <1>2. ws[m] = [w[m] EXCEPT !.summons = w[m].summons \ s]
    BY <1>0 DEF Stripped, Worlds
  <1>25. Good(ws, Null, {})
    OBVIOUS
  <1> HIDE DEF ws
  <1>3. x \in World(ws) /\ ws[x].master = m
    <2>1. x \in ws[m].summons
      BY <1>1
    <2>2. \A d \in Creatures : \A y \in ws[d].summons :
             /\ ws[y].body = "world" => ws[y].master = d
             /\ ws[d].body = "world" => ws[y].body = "world"
      BY <1>25 DEF Good, Sound, Linked
    <2>3. ws[x].body = "world"
      BY <1>1, <2>1, <2>2
    <2>4. ws[x].master = m
      BY <2>1, <2>2, <2>3
    <2> QED
      BY <1>0, <2>3, <2>4 DEF World
  <1>4. Good(hs, Null, {}) /\ Alike(ws, hs)
    <2>1. TRUE \in BOOLEAN
      OBVIOUS
    <2>2. Good(Hurt(ws, x, TRUE), Null, {}) /\ Alike(ws, Hurt(ws, x, TRUE))
      BY <1>25, <1>3, <2>1, HurtGood
    <2> QED
      BY <2>2 DEF Slain
  <1>5. h[x] = hs[x] /\ DOMAIN h = Creatures /\ \A y \in Creatures : y # x => h[y] = w[y]
    <2>1. w[x] = ws[x]
      BY <1>0, <1>1
    <2>2. /\ Slain(w, x)[x] = Slain(ws, x)[x]
          /\ DOMAIN Slain(w, x) = Creatures
          /\ \A y \in Creatures : y # x => Slain(w, x)[y] = w[y]
      BY <1>0, <1>1, <2>1, HurtAlone
    <2> QED
      BY <2>2
  <1>6. DOMAIN hs = Creatures /\ \A y \in Creatures : y # x => hs[y] = ws[y]
    <2>1. /\ DOMAIN Slain(ws, x) = Creatures
          /\ \A y \in Creatures : y # x => Slain(ws, x)[y] = ws[y]
      BY <1>0, <1>1, HurtAlone
    <2> QED
      BY <2>1
  <1> HIDE DEF h, hs
  <1>7. hs \in Worlds /\ hs[x] \in Body /\ x \in World(hs) /\ x \in hs[m].summons /\ hs[x].master = m
    <2>1. hs \in Worlds
      BY <1>4 DEF Good, Sound, Shape
    <2>2. x \in World(hs) /\ hs[x].master = m
      BY <1>3, <1>4 DEF Alike
    <2>3. m \in World(ws) /\ x \in ws[m].summons
      BY <1>0, <1>1 DEF World
    <2> QED
      BY <1>0, <1>4, <2>1, <2>2, <2>3 DEF Alike, Worlds
  <1>8. hs[x].refs \in Nat /\ hs[x].refs > 1
    <2>1. hs[x].refs = Own(hs[x]) + Held(hs, x) /\ Own(hs[x]) \in Nat /\ Held(hs, x) \in Nat
      BY <1>0, <1>4, <1>7, OwnCounted DEF Good, Sound, Counted
    <2>2. Own(hs[x]) > 0
      BY <1>0, <1>7, OwnCounted DEF Kept, World
    <2>3. Held(hs, x) > 0
      BY <1>7, ListedIsHeld
    <2> QED
      BY <2>1, <2>2, <2>3
  \* What is left of x, in both worlds.
  <1> DEFINE freed == [hs[x] EXCEPT !.master = Null, !.refs = hs[x].refs - 1]
             d == [h EXCEPT ![x].master = Null]
             k == [y \in Creatures |-> IF y \in {x} THEN [d[y] EXCEPT !.refs = @ - 1] ELSE d[y]]
  <1>9. freed \in Body /\ freed.refs # 0 /\ freed.body = "world" /\ freed.summons = hs[x].summons
    <2>1. hs[x].refs - 1 \in Nat /\ hs[x].refs - 1 # 0
      BY <1>8
    <2>2. hs[x].body = "world"
      BY <1>7 DEF World
    <2>3. Null \in Creatures \cup {Null}
      OBVIOUS
    <2> QED
      BY <1>7, <2>1, <2>2, <2>3 DEF Body
  <1>10. k[x] = freed /\ \A y \in Creatures : y # x => k[y] = w[y]
    <2>1. d[x] = [hs[x] EXCEPT !.master = Null]
      BY <1>0, <1>5
    <2>2. [d[x] EXCEPT !.refs = @ - 1] = freed
      <3> HIDE DEF d
      <3>1. d[x] = Unmastered(hs[x])
        BY <2>1 DEF Unmastered
      <3>2. Fewer(Unmastered(hs[x])) = freed
        BY <1>7, BodyFreed
      <3>3. [d[x] EXCEPT !.refs = @ - 1] = Fewer(d[x])
        BY DEF Fewer
      <3> HIDE DEF freed
      <3> QED
        BY <3>1, <3>2, <3>3
    <2>3. \A y \in Creatures : y # x => d[y] = w[y]
      BY <1>5
    <2> HIDE DEF d, freed
    <2> QED
      BY <1>0, <2>2, <2>3
  <1>11. Unref(d, {x}) = Reap(k)
    <2>1. d[x] = Unmastered(hs[x])
      BY <1>0, <1>5 DEF Unmastered
    <2>2. d[x] \in Body
      BY <1>7, <2>1, UnmasteredIs
    <2>3. x \in {x}
      OBVIOUS
    <2> HIDE DEF d
    <2> QED
      BY <1>0, <2>2, <2>3, UnrefReaps
  <1>12. DOMAIN k = Creatures
    OBVIOUS
  <1> HIDE DEF d, k, freed
  <1>13. k \in Worlds
    <2>1. \A y \in Creatures : k[y] \in Body
      BY <1>9, <1>10 DEF Worlds
    <2>2. k = [y \in Creatures |-> k[y]]
      BY DEF k
    <2> HIDE DEF k
    <2> QED
      BY <2>1, <2>2 DEF Worlds
  <1>14. Unheld(k) = {}
    <2>1. \A y \in Creatures : y # x => (w[y].body # "none" => w[y].refs # 0)
      <3>1. w[m].body = ws[m].body /\ w[m].refs = ws[m].refs
        BY <1>0, <1>2 DEF Body
      <3>2. \A y \in Creatures : ws[y].body # "none" => ws[y].refs # 0
        BY DEF Good, Unheld, ws
      <3> QED
        BY <1>1, <3>1, <3>2
    <2> QED
      BY <1>9, <1>10, <2>1 DEF Unheld
  <1>15. Kill(x, w) = k
    BY <1>11, <1>14, NobodyReaped DEF Kill, Slain, d, h
  <1>16. k[m] = w[m]
    BY <1>10
  \* Taking x from its master.
  <1> DEFINE p == [hs EXCEPT ![x].master = Null]
             q == [p EXCEPT ![m].summons = @ \ {x}]
             r == [y \in Creatures |-> IF y \in {x} THEN [q[y] EXCEPT !.refs = @ - 1] ELSE q[y]]
  <1>17. SetMaster(hs, x, Null) = Unref(q, {x})
    <2>1. hs[x].master = m /\ m # Null
      BY <1>7, FiniteCreatures
    <2>2. x \in p[m].summons
      BY <1>0, <1>6, <1>7
    <2> QED
      BY <2>1, <2>2 DEF SetMaster
  <1>18. Unref(q, {x}) = Reap(r)
    <2>1. p[x] = Unmastered(hs[x]) /\ DOMAIN p = Creatures
      BY <1>0, <1>6 DEF Unmastered
    <2> HIDE DEF p
    <2>2. q[x] = p[x]
      BY <1>0, <2>1
    <2>3. q[x] \in Body
      BY <1>7, <2>1, <2>2, UnmasteredIs
    <2>4. x \in {x}
      OBVIOUS
    <2> HIDE DEF q
    <2> QED
      BY <1>0, <2>3, <2>4, UnrefReaps
  <1>19. /\ r[x] = freed /\ \A y \in Creatures \ {x, m} : r[y] = w[y]
         /\ r[m] = [ws[m] EXCEPT !.summons = ws[m].summons \ {x}]
    <2>1. p[x] = [hs[x] EXCEPT !.master = Null] /\ \A y \in Creatures : y # x => p[y] = ws[y]
      BY <1>0, <1>6
    <2>2. DOMAIN p = Creatures
      BY <1>6
    <2> HIDE DEF p
    <2>3. /\ q[x] = p[x] /\ \A y \in Creatures \ {x, m} : q[y] = ws[y]
          /\ q[m] = [ws[m] EXCEPT !.summons = ws[m].summons \ {x}]
      <3>1. x \in Creatures /\ m \in Creatures /\ m # x
        BY <1>0
      <3>2. p[m] = ws[m]
        BY <2>1, <3>1
      <3>3. q[x] = p[x] /\ q[m] = [p[m] EXCEPT !.summons = p[m].summons \ {x}]
        BY <2>2, <3>1
      <3>4. \A y \in Creatures \ {x, m} : q[y] = p[y]
        BY <2>2
      <3> QED
        <4> HIDE DEF q
        <4>1. \A y \in Creatures \ {x, m} : q[y] = ws[y]
          BY <2>1, <3>4
        <4>2. q[m] = [ws[m] EXCEPT !.summons = ws[m].summons \ {x}]
          BY <3>2, <3>3
        <4> QED
          BY <3>3, <4>1, <4>2
    <2> HIDE DEF q
    <2>4. [q[x] EXCEPT !.refs = @ - 1] = freed
      <3>1. q[x] = Unmastered(hs[x])
        BY <2>1, <2>3 DEF Unmastered
      <3>2. Fewer(Unmastered(hs[x])) = freed
        BY <1>7, BodyFreed DEF freed
      <3>3. [q[x] EXCEPT !.refs = @ - 1] = Fewer(q[x])
        BY DEF Fewer
      <3> QED
        BY <3>1, <3>2, <3>3
    <2> QED
      BY <1>0, <1>1, <2>3, <2>4
  <1>20. DOMAIN r = Creatures
    OBVIOUS
  <1> HIDE DEF p, q, r
  <1>21. Unheld(r) = {}
    <2>1. r[m].refs # 0
      <3>1. ws[m] \in Body /\ ws[m].refs # 0
        BY <1>1 DEF Worlds, Good, Unheld, ws
      <3> QED
        BY <1>19, <3>1 DEF Body
    <2>2. \A y \in Creatures \ {x, m} : r[y].body # "none" => r[y].refs # 0
      BY <1>10, <1>14, <1>19 DEF Unheld
    <2> QED
      BY <1>9, <1>19, <2>1, <2>2 DEF Unheld
  <1>22. Stripped(k, m, s \cup {x}) = r
    <2> DEFINE z == Stripped(k, m, s \cup {x})
    <2>1. /\ DOMAIN z = Creatures /\ \A y \in Creatures : y # m => z[y] = k[y]
          /\ z[m] = [w[m] EXCEPT !.summons = w[m].summons \ (s \cup {x})]
      BY <1>12, <1>16 DEF Stripped
    <2>2. r[m] = [w[m] EXCEPT !.summons = w[m].summons \ (s \cup {x})]
      <3>1. ws[m].summons \ {x} = w[m].summons \ (s \cup {x})
        BY <1>1
      <3>2. r[m] = [[w[m] EXCEPT !.summons = w[m].summons \ s]
                       EXCEPT !.summons = w[m].summons \ (s \cup {x})]
        BY <1>2, <1>19, <3>1
      <3> QED
        BY <1>0, <3>2 DEF Body
    <2>3. \A y \in Creatures : z[y] = r[y]
      BY <1>0, <1>10, <1>19, <2>1, <2>2
    <2>4. z = [y \in Creatures |-> z[y]] /\ r = [y \in Creatures |-> r[y]]
      <3>1. r = [y \in Creatures |-> r[y]]
        BY DEF r
      <3>2. z = [y \in Creatures |-> z[y]]
        BY <1>12 DEF Stripped
      <3> QED
        BY <3>1, <3>2
    <2> HIDE DEF z
    <2> QED
      BY <2>3, <2>4 DEF z
  <1>23. SetMaster(hs, x, Null) = r
    BY <1>17, <1>18, <1>21, NobodyReaped
  <1> QED
    BY <1>3, <1>13, <1>15, <1>16, <1>22, <1>23 DEF ws, hs, Releases

Strips(w, v, m, s) ==
    /\ World(v) = World(w) /\ DOMAIN v = Creatures
    /\ \A x \in Creatures :
          /\ v[x].master = w[x].master /\ v[x].alive = w[x].alive
          /\ x # m => v[x].summons = w[x].summons
    /\ v[m].summons = w[m].summons \ s

LEMMA StrippedIs ==
  ASSUME NEW w \in Worlds, NEW m \in Creatures, NEW s
  PROVE  Strips(w, Stripped(w, m, s), m, s)
  <1> DEFINE v == Stripped(w, m, s)
  <1>1. w[m] \in Body /\ DOMAIN w = Creatures
    BY DEF Worlds
  <1>2. \A x \in Creatures : x # m => v[x] = w[x]
    BY <1>1 DEF Stripped
  <1>3. DOMAIN v = Creatures /\ v[m] = [w[m] EXCEPT !.summons = w[m].summons \ s]
    BY <1>1 DEF Stripped
  <1> HIDE DEF v
  <1>4. /\ v[m].body = w[m].body /\ v[m].master = w[m].master /\ v[m].alive = w[m].alive
        /\ v[m].summons = w[m].summons \ s
    BY <1>1, <1>3 DEF Body
  <1>5. World(v) = World(w)
    BY <1>2, <1>4 DEF World
  <1> QED
    BY <1>2, <1>3, <1>4, <1>5 DEF v, Strips

\* m has lost all his summons, others have lost their master at most.
Bereft(w, v, m) ==
    /\ World(v) = World(w)
    /\ v[m].summons = {} /\ v[m].master = w[m].master
    /\ \A x \in World(w) :
          /\ v[x].master \in {w[x].master, Null} /\ v[x].summons \subseteq w[x].summons
          /\ x \notin w[m].summons => v[x].alive = w[x].alive /\ v[x].master = w[x].master

\* The summons in s are dead, and their master still lists them all.
Culled(w, v, m, s) ==
    /\ World(v) = World(w) /\ v[m].summons = w[m].summons
    /\ \A x \in World(w) :
          /\ v[x].master \in {w[x].master, Null} /\ v[x].summons \subseteq w[x].summons
          /\ x \notin s => v[x].alive = w[x].alive /\ v[x].master = w[x].master

LEMMA KillGood ==
  ASSUME NEW w \in Worlds, NEW m \in World(w), NEW v \in Worlds, NEW s, NEW x \in s,
         s \subseteq w[m].summons, m \notin s, Culled(w, v, m, s \ {x}),
         Good(Stripped(v, m, s \ {x}), Null, {})
  PROVE  /\ Kill(x, v) \in Worlds /\ Good(Stripped(Kill(x, v), m, s), Null, {})
         /\ Culled(w, Kill(x, v), m, s)
  <1> DEFINE t == s \ {x}
             k == Kill(x, v)
             vt == Stripped(v, m, t)
             struck == Slain(vt, x)
             z == Stripped(k, m, s)
  <1>0. /\ m \in Creatures /\ w[m] \in Body /\ x \in Monsters /\ x \in Creatures /\ x # m
        /\ x \in v[m].summons /\ m \in World(v) /\ t \cup {x} = s /\ x \notin t
        /\ World(w) \subseteq Creatures
    BY DEF World, Worlds, Body, Culled, Creatures
  <1>1. /\ k \in Worlds /\ k[m].summons = v[m].summons
        /\ z = SetMaster(struck, x, Null)
        /\ x \in World(vt) /\ vt[x].master = m
    <2>1. Good(Stripped(v, m, t), Null, {})
      OBVIOUS
    <2> HIDE DEF t
    <2>2. Releases(v, m, t, x)
      BY <1>0, <2>1, KillIsRelease
    <2> QED
      BY <1>0, <2>2 DEF Releases
  <1>2. Good(vt, Null, {})
    OBVIOUS
  <1>3. /\ World(vt) = World(v)
        /\ \A y \in Creatures : /\ vt[y].master = v[y].master /\ vt[y].alive = v[y].alive
                                /\ y # m => vt[y].summons = v[y].summons
    <2>1. Strips(v, vt, m, t)
      BY <1>0, StrippedIs
    <2> HIDE DEF vt
    <2> QED
      BY <2>1 DEF Strips
  <1>4. /\ World(z) = World(k)
        /\ \A y \in Creatures : /\ z[y].master = k[y].master /\ z[y].alive = k[y].alive
                                /\ y # m => z[y].summons = k[y].summons
    <2>0. k \in Worlds
      BY <1>1
    <2> HIDE DEF k
    <2>1. Strips(k, z, m, s)
      BY <1>0, <2>0, StrippedIs
    <2> HIDE DEF z
    <2> QED
      BY <2>1 DEF Strips
  <1> HIDE DEF vt
  <1>5. /\ Good(struck, Null, {}) /\ Alike(vt, struck)
        /\ \A y \in World(vt) : y # x => struck[y].alive = vt[y].alive
    <2>1. TRUE \in BOOLEAN
      OBVIOUS
    <2>2. /\ Good(Hurt(vt, x, TRUE), Null, {}) /\ Alike(vt, Hurt(vt, x, TRUE))
          /\ \A y \in World(vt) : y # x => Hurt(vt, x, TRUE)[y].alive = vt[y].alive
      BY <1>1, <1>2, <2>1, HurtGood
    <2> QED
      BY <2>2 DEF Slain
  <1> HIDE DEF k, struck, z, t
  <1>6. Good(z, Null, {}) /\ Joined(struck, z, x, Null)
    <2>1. x \in World(struck) /\ struck[x].master = m /\ m # Null
      BY <1>0, <1>1, <1>5, FiniteCreatures DEF Alike
    <2> QED
      BY <1>0, <1>1, <1>5, <2>1, SetMasterGood
  <1>7. World(z) = World(struck)
    BY <1>6 DEF Joined, World, Kept
  <1>8. World(k) = World(w) /\ World(struck) = World(w) /\ World(v) = World(w) /\ World(vt) = World(w)
    BY <1>3, <1>4, <1>5, <1>7 DEF Alike, Culled
  <1>9. ASSUME NEW y \in World(w)
        PROVE  /\ k[y].master \in {w[y].master, Null} /\ k[y].summons \subseteq w[y].summons
               /\ y \notin s => k[y].alive = w[y].alive /\ k[y].master = w[y].master
    <2>1. y \in Creatures /\ y \in World(struck) /\ y \in World(vt) /\ struck[y].body = "world"
      BY <1>8 DEF World
    <2>2. k[y].master = IF y = x THEN Null ELSE struck[y].master
      BY <1>4, <1>6, <2>1 DEF Joined
    <2>3. z[y].alive = struck[y].alive /\ z[y].summons \subseteq struck[y].summons
      BY <1>6, <2>1, FiniteCreatures DEF Joined, Kept
    <2>4. struck[y].master = v[y].master /\ struck[y].summons = vt[y].summons
      BY <1>3, <1>5, <2>1 DEF Alike
    <2>5. /\ v[y].master \in {w[y].master, Null} /\ v[y].summons \subseteq w[y].summons
          /\ y \notin t => v[y].alive = w[y].alive /\ v[y].master = w[y].master
      BY DEF Culled, t
    <2>6. k[y].master \in {w[y].master, Null}
      BY <2>2, <2>4, <2>5
    <2>7. k[y].summons \subseteq w[y].summons
      <3>1. CASE y = m
        BY <1>1, <3>1 DEF Culled
      <3>2. CASE y # m
        BY <1>3, <1>4, <2>1, <2>3, <2>4, <2>5, <3>2
      <3> QED
        BY <3>1, <3>2
    <2>8. ASSUME y \notin s PROVE k[y].alive = w[y].alive /\ k[y].master = w[y].master
      <3>1. y # x /\ y \notin t
        BY <2>8 DEF t
      <3>2. k[y].alive = struck[y].alive /\ struck[y].alive = v[y].alive
        BY <1>3, <1>4, <1>5, <2>1, <2>3, <3>1
      <3> QED
        BY <2>2, <2>4, <2>5, <3>1, <3>2
    <2> QED
      BY <2>6, <2>7, <2>8
  <1>10. Culled(w, k, m, s)
    <2>1. k[m].summons = w[m].summons
      BY <1>1 DEF Culled
    <2> QED
      BY <1>8, <1>9, <2>1 DEF Culled
  <1> QED
    BY <1>1, <1>6, <1>10 DEF k, z

LEMMA KillSummonsGood ==
  ASSUME NEW w, Good(w, Null, {}), NEW m \in World(w), m \notin w[m].summons
  PROVE  Good(KillSummons(w, m), Null, {}) /\ Bereft(w, KillSummons(w, m), m)
  <1> DEFINE S == w[m].summons
             R == [s \in SUBSET S |-> {v \in Worlds : Culled(w, v, m, s) /\ Good(Stripped(v, m, s), Null, {})}]
             kill(x, v) == Unref([Hurt(v, x, TRUE) EXCEPT ![x].master = Null], {x})
             F == [e \in S \X Worlds |-> kill(e[1], e[2])]
  <1>0. /\ w \in Worlds /\ m \in Creatures /\ w[m] \in Body /\ S \subseteq Monsters
        /\ World(w) \subseteq Creatures
    BY DEF World, Good, Sound, Shape, Worlds, Body
  <1>1. IsFiniteSet(S)
    BY <1>0, FS_Subset, KindAssumption
  <1>2. w \in R[{}]
    <2>1. Stripped(w, m, {}) = w
      <3>1. w[m].summons \ {} = w[m].summons /\ DOMAIN w = Creatures
        BY <1>0 DEF Worlds
      <3>2. Stripped(w, m, {}) = [w EXCEPT ![m].summons = w[m].summons]
        BY <1>0, <3>1 DEF Stripped
      <3>3. [w EXCEPT ![m].summons = w[m].summons] = w
        BY <1>0, <3>1 DEF Worlds, Body
      <3> QED
        BY <3>2, <3>3
    <2>2. Culled(w, w, m, {})
      BY DEF Culled
    <2> QED
      BY <1>0, <2>1, <2>2
  <1>3. ASSUME NEW s \in SUBSET S, NEW v \in Worlds, NEW x \in S, v \in R[s \ {x}], x \in s
        PROVE  kill(x, v) \in R[s]
    <2>1. Culled(w, v, m, s \ {x}) /\ Good(Stripped(v, m, s \ {x}), Null, {})
      BY <1>3
    <2>2. s \subseteq w[m].summons /\ m \notin s
      OBVIOUS
    <2>3. /\ Kill(x, v) \in Worlds /\ Good(Stripped(Kill(x, v), m, s), Null, {})
          /\ Culled(w, Kill(x, v), m, s)
      BY <1>0, <1>3, <2>1, <2>2, KillGood
    <2>4. kill(x, v) = Kill(x, v)
      BY DEF Kill
    <2> HIDE DEF kill
    <2> QED
      BY <2>3, <2>4
  <1>10. Stays(S, Worlds, R, F, w)
    <2>1. R \in [SUBSET S -> SUBSET Worlds]
      OBVIOUS
    <2>2. ASSUME NEW s \in SUBSET S, NEW v \in Worlds, s # {}, v \in R[s \ {Some(s)}]
          PROVE  F[<<Some(s), v>>] \in R[s]
      <3>1. Some(s) \in s /\ Some(s) \in S /\ F[<<Some(s), v>>] = kill(Some(s), v)
        BY <2>2, SomeOf
      <3> HIDE DEF S, R, F, kill
      <3> QED
        BY <1>3, <2>2, <3>1
    <2> HIDE DEF S, R, F, kill
    <2> QED
      BY <1>2, <2>1, <2>2 DEF Stays
  <1>11. PICK g \in [SUBSET S -> Worlds] : Folding(S, R, F, w, g)
    <2> HIDE DEF S, R, F, kill
    <2> QED
      BY <1>1, <1>10, FoldExists
  <1> DEFINE next(h, s) == IF s = {} THEN w ELSE kill(Some(s), h[s \ {Some(s)}])
             fold == CHOOSE h : h = [s \in SUBSET S |-> next(h, s)]
  <1>12. ASSUME NEW s \in SUBSET S, NEW v \in Worlds, s # {}
         PROVE  F[<<Some(s), v>>] = kill(Some(s), v)
    BY <1>12, SomeOf
  <1>13. fold = [s \in SUBSET S |-> next(fold, s)]
    <2>1. g = [s \in SUBSET S |-> next(g, s)]
      <3> HIDE DEF S, R, F, kill
      <3> QED
        BY <1>11, <1>12 DEF Folding
    <2> HIDE DEF next, kill
    <2> QED
      BY <2>1
  <1>14. FoldSet(kill, w, S) = fold[S]
    BY DEF FoldSet, MapThenFoldSet, Some
  <1>15. fold[S] \in R[S]
    <2> HIDE DEF S, R, F, kill, fold
    <2>1. Unfolds(S, Worlds, F, w, fold)
      BY <1>12, <1>13 DEF Unfolds
    <2> QED
      BY <1>1, <1>10, <2>1, FoldIn
  <1>20. FoldSet(kill, w, S) \in R[S]
    <2> HIDE DEF S, R, F, kill, fold
    <2> QED
      BY <1>14, <1>15
  <1> DEFINE u == FoldSet(kill, w, S)
             v == [u EXCEPT ![m].summons = {}]
  <1>21. /\ u \in Worlds /\ Culled(w, u, m, w[m].summons)
         /\ Good(Stripped(u, m, w[m].summons), Null, {})
    <2>1. u \in R[S]
      BY <1>20
    <2> HIDE DEF u
    <2> QED
      BY <2>1
  <1>22. KillSummons(w, m) = v
    BY DEF KillSummons
  <1> HIDE DEF u, S
  <1>23. v = Stripped(u, m, w[m].summons)
    <2>1. u[m].summons = w[m].summons /\ u[m].summons \ w[m].summons = {}
      BY <1>21 DEF Culled
    <2>2. DOMAIN u = Creatures
      BY <1>21 DEF Worlds
    <2> QED
      BY <1>0, <2>1, <2>2 DEF Stripped
  <1> HIDE DEF v
  <1>24. /\ World(v) = World(u) /\ v[m].summons = u[m].summons \ w[m].summons
         /\ \A x \in Creatures : /\ v[x].master = u[x].master /\ v[x].alive = u[x].alive
                                 /\ x # m => v[x].summons = u[x].summons
    <2>1. Strips(u, v, m, w[m].summons)
      BY <1>0, <1>21, <1>23, StrippedIs
    <2> QED
      BY <2>1 DEF Strips
  <1>25. v[m].summons = {} /\ v[m].master = w[m].master
    <2>1. m \in World(w) /\ m \notin w[m].summons
      OBVIOUS
    <2> QED
      BY <1>0, <1>21, <1>24, <2>1 DEF Culled
  <1>26. Bereft(w, v, m)
    <2>1. ASSUME NEW x \in World(w)
          PROVE  /\ v[x].master \in {w[x].master, Null} /\ v[x].summons \subseteq w[x].summons
                 /\ x \notin w[m].summons => v[x].alive = w[x].alive /\ v[x].master = w[x].master
      <3>1. x \in Creatures
        BY <1>0
      <3>2. /\ u[x].master \in {w[x].master, Null} /\ u[x].summons \subseteq w[x].summons
            /\ x \notin w[m].summons => u[x].alive = w[x].alive /\ u[x].master = w[x].master
        BY <1>21 DEF Culled
      <3>3. CASE x = m
        BY <1>24, <1>25, <3>1, <3>2, <3>3
      <3>4. CASE x # m
        BY <1>24, <3>1, <3>2, <3>4
      <3> QED
        BY <3>3, <3>4
    <2> QED
      BY <1>21, <1>24, <1>25, <2>1 DEF Bereft, Culled
  <1> QED
    BY <1>21, <1>22, <1>23, <1>26

-----------------------------------------------------------------------------
(* Giving references back. *)

\* All of Fine but the counters.
Settled(w) ==
    Shape(w) /\ Linked(w) /\ Watch(w, Null, {}) /\ Checked(w, Null, {}) /\ Orderly(w)

Book == {"client", "refs", "due", "listed"}

\* Who is in the world has his master there, so that it does not matter who else is kept.
LEMMA BookSettled ==
  ASSUME NEW w, Settled(w), NEW v \in Worlds,
         \A x \in Creatures : /\ Same(v[x], w[x], Book)
                              /\ w[x].body = "none" => v[x] = w[x]
                              /\ w[x].check => v[x].listed
  PROVE  /\ Settled(v) /\ World(v) = World(w) /\ \A x \in Creatures : Held(v, x) = Held(w, x)
  <1>1. \A x \in Creatures :
           /\ v[x].body = w[x].body /\ v[x].at = w[x].at /\ v[x].alive = w[x].alive
           /\ v[x].attacked = w[x].attacked /\ v[x].follow = w[x].follow
           /\ v[x].master = w[x].master /\ v[x].summons = w[x].summons
           /\ v[x].targets = w[x].targets /\ v[x].friends = w[x].friends
           /\ v[x].check = w[x].check
    BY DEF Same, Fields, Book
  <1>2. World(v) = World(w) /\ World(w) \subseteq Creatures /\ w \in Worlds
    BY <1>1 DEF World, Settled, Shape
  <1>3. Shape(v)
    BY <1>1 DEF Settled, Shape, Creatures
  <1>4. Linked(v)
    <2>1. \A x \in World(w) : w[x].master # Null => w[x].master \in World(w)
      BY DEF Settled, Orderly, MastersHere
    <2>2. \A x \in World(v) :
             v[x].master # Null => x \in v[v[x].master].summons /\ Kept(v, v[x].master)
      BY <1>1, <1>2, <2>1 DEF Settled, Linked, Kept, World
    <2>3. \A d \in Creatures : w[d].summons \subseteq Creatures
      BY <1>2 DEF Worlds, Body, Creatures
    <2>4. \A d \in Creatures : \A s \in v[d].summons :
             /\ v[s].body = "world" => v[s].master = d
             /\ v[d].body = "world" => v[s].body = "world"
      BY <1>1, <2>3 DEF Settled, Linked
    <2> QED
      BY <2>2, <2>4 DEF Linked
  <1>5. Watch(v, Null, {})
    <2>1. \A x \in World(w) : Aims(v, x) = Aims(w, x) /\ Aims(w, x) \subseteq Creatures
      BY <1>1, <1>2 DEF Aims, Worlds, Body
    <2>2. \A x, t \in Creatures : InReach(v, x, v[t].at) <=> InReach(w, x, w[t].at)
      BY <1>1 DEF InReach
    <2> QED
      BY <1>2, <2>1, <2>2 DEF Settled, Watch
  <1>6. Checked(v, Null, {})
    BY <1>1 DEF Settled, Checked
  <1>7. Orderly(v)
    BY <1>1, <1>2 DEF Settled, Orderly, MastersHere, Flat
  <1>8. \A x : Held(v, x) = Held(w, x)
    BY <1>1, HeldSame
  <1> QED
    BY <1>2, <1>3, <1>4, <1>5, <1>6, <1>7, <1>8 DEF Settled

LEMMA FineSettled == ASSUME NEW w, Fine(w) PROVE Settled(w) /\ Counted(w) /\ Unheld(w) = {}
  BY DEF Fine, Good, Sound, Settled

LEMMA CleanupFine ==
  ASSUME NEW w, Settled(w), Counted(w), Unheld(w) = {}
  PROVE  /\ Fine(Cleanup(w)) /\ World(Cleanup(w)) = World(w)
         /\ \A x \in World(w) : Cleanup(w)[x].alive = w[x].alive
         /\ Meek(w, Cleanup(w))
  <1> DEFINE v == [c \in Creatures |-> [w[c] EXCEPT !.refs = @ - w[c].due, !.due = 0]]
  <1>1. w \in Worlds
    BY DEF Settled, Shape
  <1>2. ASSUME NEW x \in Creatures
        PROVE  /\ v[x] \in Body /\ Same(v[x], w[x], Book)
               /\ v[x].listed = w[x].listed /\ v[x].client = w[x].client
               /\ v[x].refs = w[x].refs - w[x].due /\ Own(v[x]) = Own(w[x]) - w[x].due
               /\ w[x].due = 0 => v[x] = w[x]
    <2>1. w[x] \in Body
      BY <1>1 DEF Worlds
    <2>2. w[x].due \in Nat /\ w[x].refs \in Nat /\ w[x].refs - w[x].due \in Nat
      <3>1. Own(w[x]) \in Nat /\ Held(w, x) \in Nat /\ w[x].refs \in Nat /\ w[x].due \in Nat
        BY <1>1, OwnCounted
      <3>2. w[x].refs = Own(w[x]) + Held(w, x)
        BY DEF Counted
      <3>3. Own(w[x]) >= w[x].due
        BY <3>1 DEF Own, One
      <3> QED
        BY <3>1, <3>2, <3>3
    <2>3. v[x] = [w[x] EXCEPT !.refs = w[x].refs - w[x].due, !.due = 0]
      OBVIOUS
    <2> HIDE DEF v
    <2>4. v[x] \in Body /\ v[x].refs = w[x].refs - w[x].due /\ v[x].due = 0
      <3>1. PICK n \in Nat : n = w[x].refs - w[x].due
        BY <2>2
      <3>2. v[x] = [w[x] EXCEPT !.refs = n, !.due = 0]
        BY <2>3, <3>1
      <3>3. [w[x] EXCEPT !.refs = n, !.due = 0] \in Body
        BY <2>1 DEF Body
      <3> QED
        BY <2>1, <3>1, <3>2, <3>3 DEF Body
    <2>5. Same(v[x], w[x], Book)
      BY <2>1, <2>3 DEF Same, Fields, Book, Body
    <2>6. /\ v[x].listed = w[x].listed /\ v[x].body = w[x].body /\ v[x].client = w[x].client
      BY <2>1, <2>3 DEF Body
    <2>7. Own(v[x]) = Own(w[x]) - w[x].due
      BY <2>2, <2>4, <2>6 DEF Own, One
    <2>8. w[x].due = 0 => v[x] = w[x]
      <3>1. SUFFICES ASSUME w[x].due = 0 PROVE v[x] = w[x]
        OBVIOUS
      <3>2. w[x].refs - w[x].due = w[x].refs
        BY <2>2, <3>1
      <3>3. v[x] = [w[x] EXCEPT !.refs = w[x].refs, !.due = w[x].due]
        BY <2>3, <3>1, <3>2
      <3> QED
        BY <2>1, <3>3 DEF Body
    <2> QED
      BY <2>4, <2>5, <2>6, <2>7, <2>8
  <1>3. v \in Worlds
    <2>1. v = [c \in Creatures |-> v[c]]
      OBVIOUS
    <2> HIDE DEF v
    <2> QED
      BY <1>2, <2>1 DEF Worlds
  <1>4. Cleanup(w) = IF v = w THEN w ELSE Reap(v)
    BY DEF Cleanup
  <1> HIDE DEF v
  <1>5. \A x \in Creatures : /\ Same(v[x], w[x], Book)
                             /\ w[x].body = "none" => v[x] = w[x]
                             /\ w[x].check => v[x].listed
    <2>1. \A x \in Creatures : w[x].body = "none" => w[x].due = 0
      BY DEF Settled, Shape, Unborn, Fresh
    <2> QED
      BY <1>2, <2>1 DEF Settled, Checked
  <1>6. Settled(v) /\ \A x \in Creatures : Held(v, x) = Held(w, x)
    BY <1>3, <1>5, BookSettled
  <1>7. Counted(v)
    <2>1. ASSUME NEW x \in Creatures PROVE v[x].refs = Own(v[x]) + Held(v, x)
      <3>1. Own(w[x]) \in Nat /\ Held(w, x) \in Nat /\ w[x].refs \in Nat /\ w[x].due \in Nat
        BY <1>1, OwnCounted
      <3>2. w[x].refs = Own(w[x]) + Held(w, x)
        BY DEF Counted
      <3> QED
        BY <1>2, <1>6, <3>1, <3>2
    <2> QED
      BY <2>1 DEF Counted
  <1>8. Sound(v, Null, {})
    BY <1>6, <1>7 DEF Settled, Sound
  <1>9. Good(Reap(v), Null, {}) /\ Tame(v, Reap(v))
    BY <1>8, ReapGood
  <1>10. Orderly(Reap(v))
    BY <1>6, <1>9, QuietOrderly DEF Tame, Settled
  <1>11. /\ World(v) = World(w) /\ World(Reap(v)) = World(v)
         /\ \A x \in World(w) : /\ v[x].alive = w[x].alive /\ v[x].client = w[x].client
                                /\ v[x].attacked = w[x].attacked /\ x \in Creatures
    <2>1. World(v) = World(w)
      BY <1>3, <1>5, BookSettled
    <2>2. World(Reap(v)) = World(v)
      BY <1>9, QuietWorld DEF Tame
    <2>3. \A x \in Creatures : v[x].alive = w[x].alive /\ v[x].attacked = w[x].attacked
      BY <1>5 DEF Same, Fields, Book
    <2>4. \A x \in Creatures : v[x].client = w[x].client
      BY <1>2
    <2> QED
      BY <2>1, <2>2, <2>3, <2>4 DEF World
  <1>12. Fine(Reap(v)) /\ \A x \in World(w) : Reap(v)[x].alive = w[x].alive
    BY <1>9, <1>10, <1>11 DEF Fine, Tame, Quiet, Kept, World
  <1>13. Meek(w, Reap(v))
    <2>1. Meek(w, v)
      BY <1>11 DEF Meek
    <2> QED
      BY <1>9, <2>1, TameIsMeek, MeekTwice
  <1>14. CASE v = w
    <2>1. Fine(w)
      BY DEF Fine, Good, Sound, Settled
    <2> QED
      BY <1>4, <1>14, <2>1, MeekAlone
  <1>15. CASE v # w
    BY <1>4, <1>11, <1>12, <1>13, <1>15
  <1> QED
    BY <1>14, <1>15

\* A creature found unchecked is taken from the check list and its reference is due.
LEMMA UncheckFine ==
  ASSUME NEW w, Fine(w), NEW c \in Creatures, w[c].listed, ~w[c].check
  PROVE  Fine(Cleanup(Release([w EXCEPT ![c].listed = FALSE], c)))
  <1> DEFINE v == Release([w EXCEPT ![c].listed = FALSE], c)
  <1>1. w \in Worlds /\ w[c] \in Body /\ DOMAIN w = Creatures /\ w[c].due \in Nat /\ w[c].due + 1 \in Nat
    BY DEF Fine, Good, Sound, Shape, Worlds, Body
  <1>2. v[c] = [w[c] EXCEPT !.listed = FALSE, !.due = w[c].due + 1]
    <2>1. [w EXCEPT ![c].listed = FALSE][c] = [w[c] EXCEPT !.listed = FALSE]
      BY <1>1
    <2>2. DOMAIN [w EXCEPT ![c].listed = FALSE] = Creatures
      BY <1>1
    <2> DEFINE u == [w EXCEPT ![c].listed = FALSE]
    <2>3. u[c].due = w[c].due
      BY <1>1, <2>1 DEF Body
    <2> HIDE DEF u
    <2>4. Release(u, c)[c] = [u[c] EXCEPT !.due = w[c].due + 1]
      BY <2>2, <2>3 DEF Release, u
    <2> QED
      BY <2>1, <2>4 DEF u
  <1>3. DOMAIN v = Creatures /\ \A x \in Creatures : x # c => v[x] = w[x]
    BY <1>1 DEF Release
  <1>4. v = [x \in Creatures |-> v[x]]
    BY <1>1 DEF Release
  <1> HIDE DEF v
  <1>5. v[c] \in Body /\ ~v[c].listed /\ v[c].due = w[c].due + 1 /\ v[c].refs = w[c].refs
    <2>1. PICK b \in Body, n \in Nat : b = w[c] /\ n = w[c].due + 1
      BY <1>1
    <2>2. PICK u : u = [b EXCEPT !.listed = FALSE, !.due = n]
      OBVIOUS
    <2>3. u \in Body /\ ~u.listed /\ u.due = n /\ u.refs = b.refs
      BY <2>2 DEF Body
    <2>4. v[c] = u
      BY <1>2, <2>1, <2>2
    <2> QED
      BY <2>1, <2>3, <2>4
  <1>6. v \in Worlds
    BY <1>1, <1>3, <1>4, <1>5 DEF Worlds
  <1>7. Same(v[c], w[c], Book) /\ v[c].body = w[c].body /\ v[c].client = w[c].client
    BY <1>1, <1>2 DEF Same, Fields, Book, Body
  <1>8. Settled(w) /\ Counted(w)
    BY FineSettled
  <1>9. \A x \in Creatures : /\ Same(v[x], w[x], Book)
                             /\ w[x].body = "none" => v[x] = w[x]
                             /\ w[x].check => v[x].listed
    <2>1. w[c].body # "none"
      BY <1>8 DEF Settled, Shape, Unborn, Fresh
    <2>2. \A x \in Creatures : Same(w[x], w[x], Book)
      BY DEF Same
    <2> QED
      BY <1>3, <1>7, <1>8, <2>1, <2>2 DEF Settled, Checked
  <1>10. Settled(v) /\ \A x \in Creatures : Held(v, x) = Held(w, x)
    BY <1>6, <1>8, <1>9, BookSettled
  <1>11. Counted(v)
    <2>1. Own(v[c]) = Own(w[c])
      BY <1>1, <1>5, <1>7 DEF Own, One, Body
    <2> QED
      BY <1>3, <1>5, <1>8, <1>10, <2>1 DEF Counted
  <1>12. Unheld(v) = {}
    <2>1. \A x \in Creatures : ~(w[x].body # "none" /\ w[x].refs = 0)
      BY DEF Unheld, Fine, Good
    <2>2. \A x \in Creatures : v[x].body = w[x].body /\ v[x].refs = w[x].refs
      BY <1>3, <1>5, <1>7
    <2> QED
      BY <2>1, <2>2 DEF Unheld
  <1> QED
    BY <1>10, <1>11, <1>12, CleanupFine DEF v

\* A player's client goes.
LEMMA LoseClientFine ==
  ASSUME NEW w, Fine(w), NEW p \in Players, w[p].client
  PROVE  Fine(Unref([w EXCEPT ![p].client = FALSE], {p}))
  <1> DEFINE v == [w EXCEPT ![p].client = FALSE]
  <1>0. p \in Creatures
    BY DEF Creatures
  <1>1. w \in Worlds /\ w[p] \in Body /\ DOMAIN w = Creatures
    BY <1>0 DEF Fine, Good, Sound, Shape, Worlds
  <1>2. v[p] = [w[p] EXCEPT !.client = FALSE] /\ \A x \in Creatures : x # p => v[x] = w[x]
    BY <1>0, <1>1
  <1>3. v \in Worlds
    <2>1. v = Unclienting(w, p)
      BY DEF Unclienting
    <2> HIDE DEF v
    <2> QED
      BY <1>0, <1>1, <2>1, ClientlessWorld
  <1> HIDE DEF v
  <1>4. /\ ~v[p].client /\ v[p].refs = w[p].refs /\ v[p].due = w[p].due
        /\ v[p].body = w[p].body /\ v[p].listed = w[p].listed /\ Same(v[p], w[p], Book)
    BY <1>1, <1>2 DEF Same, Fields, Book, Body
  <1>5. Settled(w) /\ Counted(w)
    BY FineSettled
  <1>6. \A x \in Creatures : /\ Same(v[x], w[x], Book)
                             /\ w[x].body = "none" => v[x] = w[x]
                             /\ w[x].check => v[x].listed
    <2>1. w[p].body # "none"
      BY <1>0, <1>5 DEF Settled, Shape, Unborn, Fresh
    <2>2. \A x \in Creatures : Same(w[x], w[x], Book)
      BY DEF Same
    <2> QED
      BY <1>2, <1>4, <1>5, <2>1, <2>2 DEF Settled, Checked
  <1>7. Settled(v) /\ \A x \in Creatures : Held(v, x) = Held(w, x)
    BY <1>3, <1>5, <1>6, BookSettled
  <1>8. Owing(v, {p})
    <2>1. \A x \in Creatures : One(x \in {p}) = (IF x = p THEN 1 ELSE 0)
      BY DEF One
    <2>2. Own(w[p]) = Own(v[p]) + 1 /\ Own(v[p]) \in Nat
      <3>1. w[p].due \in Nat
        BY <1>1 DEF Body
      <3> QED
        BY <1>4, <3>1 DEF Own, One
    <2>3. v[p].refs = Own(v[p]) + Held(v, p) + One(p \in {p})
      <3>1. Held(w, p) \in Nat /\ Held(v, p) = Held(w, p) /\ w[p].refs = Own(w[p]) + Held(w, p)
        BY <1>0, <1>1, <1>5, <1>7, OwnCounted DEF Counted
      <3> QED
        BY <1>0, <1>4, <2>1, <2>2, <3>1
    <2>4. ASSUME NEW x \in Creatures, x # p PROVE v[x].refs = Own(v[x]) + Held(v, x) + One(x \in {p})
      <3>1. Own(w[x]) \in Nat /\ Held(w, x) \in Nat /\ w[x].refs = Own(w[x]) + Held(w, x)
        BY <1>1, <1>5, OwnCounted DEF Counted
      <3>2. One(x \in {p}) = 0
        BY <2>1, <2>4
      <3> QED
        BY <1>2, <1>7, <2>4, <3>1, <3>2
    <2> QED
      BY <2>3, <2>4 DEF Owing
  <1>9. Unheld(v) = {}
    <2>1. \A x \in Creatures : ~(w[x].body # "none" /\ w[x].refs = 0)
      BY DEF Unheld, Fine, Good
    <2>2. \A x \in Creatures : v[x].body = w[x].body /\ v[x].refs = w[x].refs
      BY <1>2, <1>4
    <2> QED
      BY <2>1, <2>2 DEF Unheld
  <1>10. Good(Unref(v, {p}), Null, {}) /\ Tame(v, Unref(v, {p}))
    BY <1>0, <1>7, <1>8, <1>9, UnrefGood DEF Settled
  <1>11. Orderly(Unref(v, {p}))
    BY <1>7, <1>10, QuietOrderly DEF Tame, Settled
  <1> QED
    BY <1>10, <1>11 DEF v, Fine

-----------------------------------------------------------------------------
(* Orders, blows and thoughts. *)

\* v is w a little later: whoever was in the world still is, as alive as before.
Later(w, v) == World(w) \subseteq World(v) /\ \A x \in World(w) : v[x].alive = w[x].alive

LEMMA QuietLater ==
  ASSUME NEW w, NEW v, Quiet(w, v)
  PROVE  World(v) = World(w) /\ Later(w, v)
  <1>1. World(v) = World(w)
    BY QuietWorld
  <1> QED
    BY <1>1 DEF Later, Quiet, Kept, World

LEMMA QuietFine ==
  ASSUME NEW w, Fine(w), NEW v, Good(v, Null, {}), Quiet(w, v)
  PROVE  Fine(v) /\ World(v) = World(w) /\ Later(w, v)
  BY QuietLater, QuietOrderly DEF Fine

LEMMA FineIs ==
  ASSUME NEW w, Fine(w)
  PROVE  /\ w \in Worlds /\ Good(w, Null, {}) /\ World(w) \subseteq Creatures
         /\ \A c \in World(w) : /\ w[c].attacked \in World(w) \cup {Null}
                                /\ w[c].follow \in World(w) \cup {Null}
                                /\ w[c].master \in World(w) \cup {Null}
  <1>1. w \in Worlds /\ Good(w, Null, {}) /\ World(w) \subseteq Creatures
    BY DEF Fine, Good, Sound, Shape, World
  <1>2. ASSUME NEW c \in World(w) PROVE Aims(w, c) \subseteq World(w)
    BY <1>1 DEF Good, Sound, Watch
  <1>3. ASSUME NEW c \in World(w) PROVE w[c].master \in World(w) \cup {Null}
    BY DEF Fine, Orderly, MastersHere
  <1> QED
    BY <1>1, <1>2, <1>3 DEF Aims

LEMMA OrderFine ==
  ASSUME NEW w, Fine(w), NEW c \in World(w), NEW t \in World(w) \cup {Null}
  PROVE  /\ Fine(SetAttacked(w, c, t)) /\ Quiet(w, SetAttacked(w, c, t))
         /\ Fine(SetFollow(w, c, t)) /\ Quiet(w, SetFollow(w, c, t))
  <1>1. w \in Worlds /\ c \in Creatures /\ t \in Creatures \cup {Null} /\ Good(w, Null, {})
    BY FineIs
  <1>2. Aimed(w, SetAttacked(w, c, t), t) /\ Aimed(w, SetFollow(w, c, t), t)
    BY <1>1, SetAttackedAimed, SetFollowAimed
  <1>3. ASSUME NEW v, Aimed(w, v, t) PROVE Fine(v) /\ Quiet(w, v)
    BY <1>1, <1>3, AimedGood, QuietFine
  <1> QED
    BY <1>2, <1>3

LEMMA HurtFine ==
  ASSUME NEW w, Fine(w), NEW c \in World(w), NEW fatal \in BOOLEAN
  PROVE  /\ Fine(Hurt(w, c, fatal)) /\ World(Hurt(w, c, fatal)) = World(w)
         /\ Meek(w, Hurt(w, c, fatal))
  <1>1. /\ Good(Hurt(w, c, fatal), Null, {}) /\ Alike(w, Hurt(w, c, fatal))
        /\ Meek(w, Hurt(w, c, fatal))
    BY HurtGood DEF Fine
  <1> QED
    BY <1>1, AlikeOrderly DEF Fine, Alike

\* A dead monster that attacks stops being checked if its target has no client.
LEMMA StrikeFine ==
  ASSUME NEW w, Fine(w), NEW c \in World(w), NEW fatal \in BOOLEAN,
         w[c].alive \/ c \in Excused \/ c \in Players \/ ~Clientless(w, w[c].attacked)
  PROVE  Fine(Strike(w, c, fatal)) /\ World(Strike(w, c, fatal)) = World(w)
  <1> DEFINE t == w[c].attacked
             u == SetFollow(w, c, Null)
             v == RemoveCheck(u, c)
             h == SetAttacked(v, c, Null)
  <1>0. t \in World(w) \cup {Null} /\ World(w) \subseteq Creatures
    BY FineIs
  <1>1. CASE t = Null \/ (c = t /\ ~(c \in Monsters /\ Clientless(w, t)))
    BY <1>1 DEF Strike
  <1>2. CASE t # Null /\ c \in Monsters /\ Clientless(w, t)
    <2>1. Strike(w, c, fatal) = h
      BY <1>2 DEF Strike
    <2> HIDE DEF t
    <2>2. Fine(u) /\ Quiet(w, u)
      BY OrderFine
    <2> HIDE DEF u
    <2>3. World(u) = World(w) /\ c \in World(u) /\ u[c].alive = w[c].alive
      BY <2>2, QuietLater DEF Later
    <2>4. Good(v, Null, {}) /\ Tame(u, v)
      <3>1. c \notin Players /\ c \in Creatures /\ (u[c].alive \/ c \in Excused)
        BY <1>0, <1>2, <2>3, KindAssumption DEF t
      <3> QED
        BY <2>2, <2>3, <3>1, RemoveCheckGood, FineIs
    <2> HIDE DEF v
    <2>5. Fine(v) /\ World(v) = World(u)
      BY <2>2, <2>4, QuietFine DEF Tame
    <2>6. Fine(h) /\ Quiet(v, h)
      BY <2>3, <2>5, OrderFine
    <2> HIDE DEF h
    <2> QED
      BY <2>1, <2>3, <2>5, <2>6, QuietLater
  <1>3. CASE t # Null /\ c # t /\ ~(c \in Monsters /\ Clientless(w, t))
    <2>1. Strike(w, c, fatal) = Hurt(w, t, fatal)
      BY <1>3 DEF Strike
    <2> HIDE DEF t
    <2>2. t \in World(w)
      BY <1>0, <1>3
    <2> QED
      BY <2>1, <2>2, HurtFine
  <1> QED
    BY <1>1, <1>2, <1>3

LEMMA SelectFine ==
  ASSUME NEW w, Fine(w), NEW m \in Monsters, NEW t
  PROVE  Fine(Select(w, m, t)) /\ Quiet(w, Select(w, m, t))
  <1>1. Good(Select(w, m, t), Null, {}) /\ Quiet(w, Select(w, m, t))
    BY SelectGood DEF Fine
  <1> QED
    BY <1>1, QuietFine

\* It is no new target whom a monster follows.
LEMMA FollowMeek ==
  ASSUME NEW w \in Worlds, NEW m \in Monsters, NEW t
  PROVE  Meek(w, SetFollow(w, m, t))
  <1>1. ASSUME NEW a PROVE Meek(w, [w EXCEPT ![m].follow = a])
    <2>1. \A x \in Creatures :
             /\ [w EXCEPT ![m].follow = a][x].body = w[x].body
             /\ [w EXCEPT ![m].follow = a][x].attacked = w[x].attacked
             /\ [w EXCEPT ![m].follow = a][x].client = w[x].client
      BY DEF Worlds, Body
    <2> QED
      BY <2>1 DEF Meek, World, Creatures
  <1> QED
    BY <1>1, KindAssumption DEF SetFollow

LEMMA ThinkFine ==
  ASSUME NEW w, Fine(w), NEW m \in World(w), m \in Monsters, NEW target,
         NEW new \in {c \in Monsters : w[c].body = "none"} \cup {Null}
  PROVE  /\ Fine(Think(w, m, target, new)) /\ Later(w, Think(w, m, target, new))
         /\ Meek(w, Think(w, m, target, new))
  <1> DEFINE u == UpdateIdle(w, m)
             turned == IF target = Null THEN u ELSE Select(u, m, target)
             mine == u[m].attacked
             master == u[m].master
             theirs == IF master = Null THEN Null ELSE u[master].attacked
             obeyed == IF mine # Null THEN SetFollow(u, m, IF mine = m THEN Null ELSE mine)
                       ELSE IF theirs # Null THEN Select(u, m, theirs)
                       ELSE SetFollow(u, m, master)
  <1>1. Think(w, m, target, new) =
           IF u[m].alive /\ master = Null /\ u[m].targets = {} THEN u
           ELSE IF master # Null THEN obeyed
           ELSE IF new = Null THEN turned ELSE Summon(turned, m, new)
    BY DEF Think
  <1>2. Fine(u) /\ World(u) = World(w) /\ Later(w, u) /\ Quiet(w, u) /\ Meek(w, u) /\ u \in Worlds
    <2>1. w[m].body # "none"
      BY DEF World
    <2>2. Good(u, Null, {}) /\ Tame(w, u)
      BY <2>1, UpdateIdleGood DEF Fine
    <2> HIDE DEF u
    <2> QED
      BY <2>2, QuietFine, TameIsMeek, FineIs DEF Tame
  <1> HIDE DEF u
  <1>3. Fine(turned) /\ Quiet(u, turned) /\ Meek(u, turned)
    <2>1. CASE target = Null
      BY <1>2, <2>1, QuietAlone, MeekAlone DEF Tame
    <2>2. CASE target # Null
      BY <1>2, <2>2, SelectFine, SelectMeek
    <2> QED
      BY <2>1, <2>2
  <1>4. Fine(obeyed) /\ Quiet(u, obeyed) /\ Meek(u, obeyed)
    <2>1. mine \in World(u) \cup {Null} /\ master \in World(u) \cup {Null} /\ m \in World(u)
      BY <1>2, FineIs
    <2>2. PICK a : a = IF mine = m THEN Null ELSE mine
      OBVIOUS
    <2>3. a \in World(u) \cup {Null}
      BY <2>1, <2>2
    <2>4. /\ Fine(SetFollow(u, m, a)) /\ Quiet(u, SetFollow(u, m, a))
          /\ Fine(Select(u, m, theirs)) /\ Quiet(u, Select(u, m, theirs))
          /\ Fine(SetFollow(u, m, master)) /\ Quiet(u, SetFollow(u, m, master))
          /\ Meek(u, SetFollow(u, m, a)) /\ Meek(u, Select(u, m, theirs))
          /\ Meek(u, SetFollow(u, m, master))
      <3> HIDE DEF theirs, mine, master
      <3> QED
        BY <1>2, <2>1, <2>3, OrderFine, SelectFine, SelectMeek, FollowMeek
    <2>5. obeyed \in {SetFollow(u, m, a), Select(u, m, theirs), SetFollow(u, m, master)}
      <3> HIDE DEF theirs, mine, master
      <3> QED
        BY <2>2
    <2> HIDE DEF obeyed
    <2> QED
      BY <2>4, <2>5
  <1> HIDE DEF turned, obeyed
  <1>5. /\ World(turned) = World(u) /\ Later(u, turned) /\ Later(u, obeyed)
    BY <1>3, <1>4, QuietLater
  <1>6. ASSUME master = Null, new # Null
        PROVE  /\ Fine(Summon(turned, m, new)) /\ Later(turned, Summon(turned, m, new))
               /\ Meek(turned, Summon(turned, m, new))
    <2>1. new \in Monsters /\ new \in Creatures /\ w[new].body = "none"
      BY <1>6 DEF Creatures
    <2>2. turned[new].body = "none"
      BY <1>2, <1>3, <2>1 DEF Quiet
    <2>3. turned[m].master = Null
      BY <1>2, <1>3, <1>6 DEF Quiet, World
    <2>4. m \in World(turned)
      BY <1>2, <1>5
    <2>5. /\ Fine(Summon(turned, m, new)) /\ World(turned) \subseteq World(Summon(turned, m, new))
          /\ \A x \in World(turned) : Summon(turned, m, new)[x].alive = turned[x].alive
          /\ Meek(turned, Summon(turned, m, new))
      BY <1>3, <2>1, <2>2, <2>3, <2>4, SummonGood
    <2> QED
      BY <2>5 DEF Later
  <1>7. \A a, b, c : /\ Later(a, b) /\ Later(b, c) => Later(a, c)
                     /\ Meek(a, b) /\ Meek(b, c) => Meek(a, c)
    BY MeekTwice DEF Later
  <1> HIDE DEF master
  <1> QED
    BY <1>1, <1>2, <1>3, <1>4, <1>5, <1>6, <1>7

-----------------------------------------------------------------------------
(* Dying, and the periodic check. *)

\* Nobody comes or goes; who loses a master or a summon finds no other.
Looser(w, v) ==
    /\ World(v) = World(w)
    /\ \A x \in World(w) : v[x].master \in {w[x].master, Null} /\ v[x].summons \subseteq w[x].summons

LEMMA LooserOrderly ==
  ASSUME NEW w, NEW v, Looser(w, v), Orderly(w)
  PROVE  Orderly(v)
  BY DEF Looser, Orderly, MastersHere, Flat

LEMMA NotItsOwnSummon ==
  ASSUME NEW w, Fine(w), NEW m \in World(w)
  PROVE  m \notin w[m].summons
  <1>1. SUFFICES ASSUME m \in w[m].summons PROVE FALSE
    OBVIOUS
  <1>2. m \in Creatures /\ w[m].body = "world" /\ m # Null
    BY FiniteCreatures DEF World
  <1>3. w[m].master = m
    BY <1>1, <1>2 DEF Fine, Good, Sound, Linked
  <1> QED
    BY <1>1, <1>2, <1>3 DEF Fine, Orderly, Flat

LEMMA FreeFine ==
  ASSUME NEW w, Fine(w), NEW m \in World(w), m \in Monsters, w[m].master # Null
  PROVE  Fine(SetMaster(w, m, Null)) /\ World(SetMaster(w, m, Null)) = World(w)
  <1> DEFINE v == SetMaster(w, m, Null)
  <1>1. Good(v, Null, {}) /\ Joined(w, v, m, Null)
    BY SetMasterGood DEF Fine
  <1> HIDE DEF v
  <1>2. World(v) = World(w)
    BY <1>1 DEF Joined, Kept, World
  <1>3. Looser(w, v)
    BY <1>1, <1>2, FiniteCreatures DEF Joined, World, Looser
  <1> QED
    BY <1>1, <1>2, <1>3, LooserOrderly DEF Fine, v

LEMMA MonsterDiesFine ==
  ASSUME NEW w, Fine(w), NEW m \in World(w), m \in Monsters
  PROVE  Fine(MonsterDies(w, m))
  <1> DEFINE a == SetAttacked(w, m, Null)
             k == KillSummons(a, m)
             single == ClearLists(k, m)
             free == IF single[m].master = Null THEN single ELSE SetMaster(single, m, Null)
             v == RemoveCreature(free, m, TRUE)
  <1>1. MonsterDies(w, m) = v
    BY DEF MonsterDies
  <1>2. Fine(a) /\ m \in World(a) /\ m \in Creatures
    <2>1. Fine(a) /\ Quiet(w, a)
      BY OrderFine
    <2> HIDE DEF a
    <2> QED
      BY <2>1, QuietLater DEF World
  <1> HIDE DEF a
  <1>3. Fine(k) /\ m \in World(k)
    <2>1. m \notin a[m].summons /\ Good(a, Null, {}) /\ Orderly(a)
      BY <1>2, NotItsOwnSummon DEF Fine
    <2>2. Good(k, Null, {}) /\ Bereft(a, k, m)
      BY <1>2, <2>1, KillSummonsGood
    <2> HIDE DEF k
    <2>3. Looser(a, k)
      BY <2>2 DEF Bereft, Looser
    <2> QED
      BY <1>2, <2>1, <2>2, <2>3, LooserOrderly DEF Fine, Looser
  <1> HIDE DEF k
  <1>4. Fine(single) /\ m \in World(single)
    <2>1. Good(single, Null, {}) /\ Tame(k, single)
      BY <1>2, <1>3, ClearListsGood DEF Fine
    <2> HIDE DEF single
    <2> QED
      BY <1>3, <2>1, QuietFine DEF Tame
  <1> HIDE DEF single
  <1>5. Fine(free)
    BY <1>4, FreeFine
  <1> HIDE DEF free
  <1>6. Good(v, Null, {}) /\ (Orderly(free) => Orderly(v))
    BY <1>2, <1>5, RemoveCreatureGood DEF Fine
  <1> QED
    BY <1>1, <1>5, <1>6 DEF Fine

LEMMA RemoveFine ==
  ASSUME NEW w, Fine(w), NEW c \in Creatures, NEW early
  PROVE  Fine(RemoveCreature(w, c, early))
  BY RemoveCreatureGood DEF Fine

LEMMA HealedFine ==
  ASSUME NEW w, Fine(w), NEW c \in World(w)
  PROVE  Fine([w EXCEPT ![c].alive = TRUE]) /\ Alike(w, [w EXCEPT ![c].alive = TRUE])
  <1>1. PICK b \in BOOLEAN : b = TRUE
    OBVIOUS
  <1>2. w[c].check \/ b
    BY <1>1
  <1>3. Alived(w, [w EXCEPT ![c].alive = b], c, b)
    BY <1>2, AliveGood DEF Fine
  <1>4. [w EXCEPT ![c].alive = b] = [w EXCEPT ![c].alive = TRUE]
    BY <1>1
  <1>5. PICK v : v = [w EXCEPT ![c].alive = b] /\ v = [w EXCEPT ![c].alive = TRUE]
    BY <1>4
  <1>6. Good(v, Null, {}) /\ Alike(w, v)
    BY <1>3, <1>5 DEF Alived
  <1>7. Fine(v)
    BY <1>6, AlikeOrderly DEF Fine
  <1> QED
    BY <1>5, <1>6, <1>7

LEMMA RevivedFine ==
  ASSUME NEW w, Fine(w), NEW p \in World(w), NEW v \in Revived(w, p)
  PROVE  Fine(v)
  <1> DEFINE healed == [w EXCEPT ![p].alive = TRUE]
  <1>1. Fine(healed) /\ Alike(w, healed)
    BY HealedFine
  <1>2. \/ v = healed
        \/ \E temple \in Places : \E far \in SUBSET Distant(w, p, temple) :
              v = Move(healed, p, temple, far, {}, NoPicks)
    BY DEF Revived
  <1> HIDE DEF healed
  <1>3. ASSUME NEW temple \in Places, NEW far \in SUBSET Distant(w, p, temple)
        PROVE  Fine(Move(healed, p, temple, far, {}, NoPicks))
    <2>1. far \in SUBSET healed[p].summons /\ p \in World(healed)
      BY <1>1 DEF Alike, Distant
    <2> QED
      BY <1>1, <2>1, MoveGood
  <1> QED
    BY <1>1, <1>2, <1>3

LEMMA PlayerDeathsFine ==
  ASSUME NEW w, Fine(w), NEW p \in World(w), NEW v \in PlayerDeaths(w, p)
  PROVE  Fine(v)
  <1>1. p \in Creatures
    BY DEF World
  <1>2. v \in Revived(w, p) \/ \E u \in Revived(w, p) : v = RemoveCreature(u, p, TRUE)
    BY DEF PlayerDeaths, Leaves
  <1> QED
    BY <1>1, <1>2, RevivedFine, RemoveFine

\* After the first step of its chase a creature may be dead, but is still in the world.
After(w, v, c) == Fine(v) /\ c \in World(v) /\ Meek(w, v)

LEMMA StraysFine ==
  ASSUME NEW w, Fine(w), NEW m \in World(w), m \in Monsters, NEW v \in Strays(w, m)
  PROVE  After(w, v, m) /\ v[m].alive = w[m].alive
  <1>0. PICK home \in Places :
           v \in UNION {{TakeBack(w, m, home, far, early) : early \in SUBSET far} :
                           far \in SUBSET Distant(w, m, home)}
    BY DEF Strays
  <1>1. PICK far \in SUBSET Distant(w, m, home) :
           v \in {TakeBack(w, m, home, far, early) : early \in SUBSET far}
    BY <1>0
  <1>2. PICK early : v = TakeBack(w, m, home, far, early)
    BY <1>1
  <1> DEFINE u == Move(w, m, home, far, early, NoPicks)
  <1>3. Fine(u) /\ m \in World(u) /\ u[m].alive = w[m].alive /\ Meek(w, u)
    <2>1. far \in SUBSET w[m].summons
      BY DEF Distant
    <2> QED
      BY <2>1, MoveGood
  <1>4. v = SetIdle(u, m, TRUE)
    BY <1>2 DEF TakeBack
  <1> HIDE DEF u
  <1>5. u[m].body # "none"
    BY <1>3 DEF World
  <1>6. Good(SetIdle(u, m, TRUE), Null, {}) /\ Tame(u, SetIdle(u, m, TRUE))
    BY <1>3, <1>5, SetIdleGood DEF Fine
  <1>7. Fine(v) /\ World(v) = World(u) /\ Later(u, v) /\ Meek(u, v)
    BY <1>3, <1>4, <1>6, QuietFine, TameIsMeek DEF Tame
  <1> QED
    BY <1>3, <1>7, MeekTwice DEF Later, After

LEMMA StepsFine ==
  ASSUME NEW w, Fine(w), NEW c \in World(w), NEW place \in Places, NEW v \in Steps(w, c, place)
  PROVE  After(w, v, c)
  <1>1. PICK far \in SUBSET Distant(w, c, place) :
           v \in {Move(w, c, place, far, early, picks) : early \in SUBSET far, picks \in Picks(w, c)}
    BY DEF Steps
  <1>2. PICK early, picks : v = Move(w, c, place, far, early, picks)
    BY <1>1
  <1>3. far \in SUBSET w[c].summons
    BY DEF Distant
  <1> QED
    BY <1>2, <1>3, MoveGood DEF After

LEMMA CleanedFine ==
  ASSUME NEW w, NEW v, NEW c, After(w, v, c)
  PROVE  After(w, Cleanup(v), c)
  <1>1. Settled(v) /\ Counted(v) /\ Unheld(v) = {}
    BY FineSettled DEF After
  <1>2. Fine(Cleanup(v)) /\ World(Cleanup(v)) = World(v) /\ Meek(v, Cleanup(v))
    BY <1>1, CleanupFine
  <1> QED
    BY <1>2, MeekTwice DEF After

LEMMA FirstStepsFine ==
  ASSUME NEW w, Fine(w), NEW c \in World(w), NEW v \in FirstSteps(w, c)
  PROVE  After(w, v, c)
  <1> DEFINE walked == {w} \cup UNION {Steps(w, c, place) : place \in Places \ {w[c].at}}
  <1>1. ASSUME NEW u \in walked PROVE After(w, u, c)
    <2>1. CASE u = w
      BY <2>1, MeekAlone DEF After
    <2>2. CASE u # w
      <3>1. PICK place \in Places : u \in Steps(w, c, place)
        BY <2>2
      <3> QED
        BY <3>1, StepsFine
    <2> QED
      BY <2>1, <2>2
  <1>2. \E x \in UNION {{u, Hurt(u, c, TRUE)} : u \in walked} : v = Cleanup(x)
    BY DEF FirstSteps
  <1> HIDE DEF walked
  <1>3. PICK u \in walked : v = Cleanup(u) \/ v = Cleanup(Hurt(u, c, TRUE))
    BY <1>2
  <1>4. After(w, Hurt(u, c, TRUE), c)
    <2>1. TRUE \in BOOLEAN /\ After(w, u, c)
      BY <1>1
    <2>2. /\ Fine(Hurt(u, c, TRUE)) /\ World(Hurt(u, c, TRUE)) = World(u)
          /\ Meek(u, Hurt(u, c, TRUE))
      BY <2>1, HurtFine DEF After
    <2> QED
      BY <2>1, <2>2, MeekTwice DEF After
  <1> QED
    BY <1>1, <1>3, <1>4, CleanedFine

LEMMA ChasesFine ==
  ASSUME NEW w, Fine(w), NEW c \in World(w), NEW v \in Chases(w, c)
  PROVE  After(w, v, c) /\ (w[c].follow = Null => v = w)
  <1>1. After(w, w, c)
    BY MeekAlone DEF After
  <1>2. After(w, GiveUp(w, c), c)
    <2>1. CASE GiveUp(w, c) = w
      BY <1>1, <2>1
    <2>2. CASE GiveUp(w, c) = RemoveTargets(w, c, {w[c].follow})
      <3> DEFINE u == RemoveTargets(w, c, {w[c].follow})
      <3>1. c \in Creatures
        BY DEF World
      <3>2. Good(u, Null, {}) /\ Tame(w, u)
        BY <3>1, RemoveTargetsGood DEF Fine
      <3> HIDE DEF u
      <3>3. Fine(u) /\ World(u) = World(w) /\ Meek(w, u)
        BY <3>2, QuietFine, TameIsMeek DEF Tame
      <3> QED
        BY <2>2, <3>3 DEF After, u
    <2> QED
      BY <2>1, <2>2 DEF GiveUp
  <1> QED
    BY <1>1, <1>2, FirstStepsFine DEF Chases

LEMMA ThinksFine ==
  ASSUME NEW w, Fine(w), NEW c \in World(w), NEW v \in Thinks(w, c)
  PROVE  After(w, v, c) /\ (w[c].follow = Null => v[c].alive = w[c].alive)
  <1>1. PICK u \in Chases(w, c) :
           v \in (IF c \in Players THEN {u} ELSE Thoughts(u, c) \cup Strays(u, c))
    BY DEF Thinks
  <1>2. After(w, u, c) /\ (w[c].follow = Null => u = w)
    BY ChasesFine
  <1>3. CASE c \in Players
    BY <1>1, <1>2, <1>3
  <1>4. CASE c \notin Players
    <2>1. v \in Thoughts(u, c) \cup Strays(u, c) /\ c \in Monsters
      BY <1>1, <1>4 DEF Creatures, World
    <2>2. After(u, v, c) /\ v[c].alive = u[c].alive
      <3>1. CASE v \in Thoughts(u, c)
        <4>1. PICK target \in u[c].targets \cup {Null},
                   new \in {x \in Monsters : u[x].body = "none"} \cup {Null} :
                 v = Think(u, c, target, new)
          BY <3>1 DEF Thoughts
        <4>2. Fine(v) /\ Later(u, v) /\ Meek(u, v)
          BY <1>2, <2>1, <4>1, ThinkFine DEF After
        <4> QED
          BY <1>2, <4>2 DEF Later, After
      <3>2. CASE v \in Strays(u, c)
        BY <1>2, <2>1, <3>2, StraysFine DEF After
      <3> QED
        BY <2>1, <3>1, <3>2
    <2> QED
      BY <1>2, <2>2, MeekTwice DEF After
  <1> QED
    BY <1>3, <1>4

\* A monster that died while it thought and attacks a player without a client chased
\* somebody, and attacked that player before.
LEMMA ThinksExcused ==
  ASSUME Fine(creature), NEW c \in Here, creature[c].alive, Check(c),
         NEW v \in Thinks(creature, c), ~v[c].alive, c \in Monsters, Clientless(v, v[c].attacked)
  PROVE  c \in Excused
  <1>1. After(creature, v, c) /\ creature[c].follow # Null
    BY ThinksFine DEF Here
  <1>2. PICK p \in Players : p = v[c].attacked /\ ~v[p].client
    BY DEF Clientless
  <1>3. p \in World(v) /\ c \in World(v)
    <2>1. v[c].attacked \in World(v) \cup {Null}
      BY <1>1, FineIs DEF After
    <2> QED
      BY <1>1, <1>2, <2>1, KindAssumption DEF After
  <1>4. creature[c].attacked = p /\ ~creature[p].client
    BY <1>1, <1>2, <1>3 DEF After, Meek
  <1>5. Stopping(c)
    BY <1>1, <1>4 DEF Stopping, Clientless
  <1> QED
    BY <1>5 DEF Excused

LEMMA LiveFine ==
  ASSUME Fine(creature), NEW c \in Here, creature[c].alive, Check(c), NEW v \in Live(creature, c)
  PROVE  Fine(v)
  <1>1. ASSUME NEW u \in Strikes(Thinks(creature, c), c)
        PROVE  Fine(u) /\ c \in World(u)
    <2>1. PICK w \in Thinks(creature, c), fatal \in BOOLEAN : u = Strike(w, c, fatal)
      BY <1>1 DEF Strikes
    <2>2. After(creature, w, c)
      BY ThinksFine DEF Here
    <2>3. w[c].alive \/ c \in Excused \/ c \in Players \/ ~Clientless(w, w[c].attacked)
      BY ThinksExcused DEF Creatures, Here, World
    <2> QED
      BY <2>1, <2>2, <2>3, StrikeFine DEF After
  <1>2. PICK u \in Strikes(Thinks(creature, c), c) : v = u \/ v = Hurt(u, c, TRUE)
    BY DEF Live, Suffers
  <1>3. TRUE \in BOOLEAN
    OBVIOUS
  <1> QED
    BY <1>1, <1>2, <1>3, HurtFine

LEMMA CheckFine ==
  ASSUME Fine(creature), NEW c \in Creatures, Check(c)
  PROVE  Fine(creature')
  <1>1. ASSUME NEW w, Fine(w) PROVE Fine(Cleanup(w))
    BY <1>1, FineSettled, CleanupFine
  <1>2. CASE ~creature[c].check
    <2>1. creature[c].listed /\ creature' = Cleanup(Release([creature EXCEPT ![c].listed = FALSE], c))
      BY <1>2 DEF Check
    <2> QED
      BY <1>2, <2>1, UncheckFine
  <1>3. CASE creature[c].check
    <2>1. c \in Here
      BY <1>3 DEF Fine, Good, Sound, Checked, Here, World
    <2>2. PICK w \in IF creature[c].alive THEN Live(creature, c) ELSE Die(creature, c) :
             creature' = Cleanup(w)
      BY <1>3 DEF Check
    <2>3. Fine(w)
      <3>1. CASE creature[c].alive
        BY <2>1, <2>2, <3>1, LiveFine
      <3>2. CASE ~creature[c].alive /\ c \in Monsters
        BY <2>1, <2>2, <3>2, MonsterDiesFine DEF Die, Here
      <3>3. CASE ~creature[c].alive /\ c \notin Monsters
        BY <2>1, <2>2, <3>3, PlayerDeathsFine DEF Die, Here
      <3> QED
        BY <3>1, <3>2, <3>3
    <2> QED
      BY <1>1, <2>2, <2>3
  <1> QED
    BY <1>2, <1>3

-----------------------------------------------------------------------------
(* Changing sides. *)

LEMMA PlayersAreFree ==
  ASSUME NEW w, Fine(w), NEW p \in World(w), p \in Players
  PROVE  w[p].master = Null
  <1>1. SUFFICES ASSUME w[p].master # Null PROVE FALSE
    OBVIOUS
  <1>2. w[p].master \in Creatures /\ p \in w[w[p].master].summons
    BY <1>1, FineIs DEF Fine, Good, Sound, Linked
  <1>3. p \in Monsters
    BY <1>2, FineIs DEF Worlds, Body
  <1> QED
    BY <1>3, KindAssumption

\* The monster m obeys the player p, before its own summons are killed.
Won(w, p, m) == SetAttacked(SetFollow(SetMaster(w, m, p), m, Null), m, Null)

LEMMA WonGood ==
  ASSUME NEW w, Fine(w), NEW p \in World(w), p \in Players, NEW m \in World(w), m \in Monsters,
         w[m].master \notin Players
  PROVE  /\ Good(Won(w, p, m), Null, {}) /\ World(Won(w, p, m)) = World(w)
         /\ Won(w, p, m)[m].master = p
         /\ \A x \in World(w) :
               /\ x # m => Won(w, p, m)[x].master = w[x].master
               /\ x # p => Won(w, p, m)[x].summons \subseteq w[x].summons
  <1> DEFINE u == SetMaster(w, m, p)
             f == SetFollow(u, m, Null)
             v == SetAttacked(f, m, Null)
  <1>0. m \in Creatures /\ Null \in Creatures \cup {Null} /\ p # Null
    BY FiniteCreatures DEF World
  <1>1. Good(u, Null, {}) /\ Joined(w, u, m, p)
    BY SetMasterGood DEF Fine
  <1> HIDE DEF u
  <1>2. Good(f, Null, {}) /\ Quiet(u, f)
    <2>1. u \in Worlds
      BY <1>1 DEF Good, Sound, Shape
    <2>2. Aimed(u, f, Null)
      BY <1>0, <2>1, SetFollowAimed
    <2> HIDE DEF f
    <2> QED
      BY <1>1, <2>2, AimedGood
  <1> HIDE DEF f
  <1>3. Good(v, Null, {}) /\ Quiet(f, v)
    <2>1. f \in Worlds
      BY <1>2 DEF Good, Sound, Shape
    <2>2. Aimed(f, v, Null)
      BY <1>0, <2>1, SetAttackedAimed
    <2> HIDE DEF v
    <2> QED
      BY <1>2, <2>2, AimedGood
  <1>4. Won(w, p, m) = v
    BY DEF Won, f, u
  <1> HIDE DEF v
  <1>5. Quiet(u, v)
    BY <1>2, <1>3, QuietTwice
  <1>6. World(u) = World(w)
    BY <1>1 DEF Joined, World, Kept
  <1>7. Alike(u, v)
    BY <1>5, QuietIsAlike
  <1>8. \A x \in World(w) :
           /\ u[x].master = IF x = m THEN p ELSE w[x].master
           /\ u[x].summons \subseteq w[x].summons \cup (IF x = p THEN {m} ELSE {})
    BY <1>1 DEF Joined, World
  <1> QED
    BY <1>3, <1>4, <1>6, <1>7, <1>8 DEF Alike

LEMMA WonAloneFine ==
  ASSUME NEW w, Fine(w), NEW p \in World(w), p \in Players, NEW m \in World(w), m \in Monsters,
         w[m].master \notin Players
  PROVE  /\ Fine(KillSummons(Won(w, p, m), m))
         /\ World(KillSummons(Won(w, p, m), m)) = World(w)
  <1> DEFINE v == Won(w, p, m)
             k == KillSummons(v, m)
  <1>1. /\ Good(v, Null, {}) /\ World(v) = World(w) /\ v[m].master = p
        /\ \A x \in World(w) :
              /\ x # m => v[x].master = w[x].master
              /\ x # p => v[x].summons \subseteq w[x].summons
    BY WonGood
  <1> HIDE DEF v
  <1>2. m # p /\ m \in Creatures /\ m # Null
    BY KindAssumption, FiniteCreatures DEF World
  <1>3. m \notin v[m].summons
    <2>1. m \in World(v)
      BY <1>1
    <2> QED
      BY <1>1, <1>2, <2>1 DEF Good, Sound, Linked, World
  <1>4. Good(k, Null, {}) /\ Bereft(v, k, m)
    BY <1>1, <1>3, KillSummonsGood
  <1> HIDE DEF k
  <1>5. ASSUME NEW x \in World(k), k[x].master # Null
        PROVE  k[x].master \in World(k) /\ k[x].summons = {}
    <2>0. World(k) = World(w) /\ x \in World(w) /\ x \in World(v)
      BY <1>1, <1>4 DEF Bereft
    <2>1. k[x].master = v[x].master /\ k[x].summons \subseteq v[x].summons
      BY <1>4, <1>5, <2>0 DEF Bereft
    <2>2. CASE x = m
      <3>1. k[x].summons = {}
        BY <1>4, <2>2 DEF Bereft
      <3> QED
        BY <1>1, <2>0, <2>1, <2>2, <3>1
    <2>3. CASE x # m
      <3>1. v[x].master = w[x].master /\ w[x].master # Null
        BY <1>1, <1>5, <2>0, <2>1, <2>3
      <3>2. x # p
        BY <2>0, <3>1, PlayersAreFree
      <3>3. w[x].summons = {} /\ w[x].master \in World(w)
        BY <2>0, <3>1 DEF Fine, Orderly, Flat, MastersHere
      <3> QED
        BY <1>1, <2>0, <2>1, <3>1, <3>2, <3>3
    <2> QED
      BY <2>2, <2>3
  <1>6. Orderly(k)
    BY <1>5 DEF Orderly, MastersHere, Flat
  <1> QED
    BY <1>1, <1>4, <1>6 DEF Fine, Bereft, k, v

LEMMA OnConvincedGood ==
  ASSUME NEW w, Good(w, Null, {}), NEW x \in Monsters, Kept(w, x), NEW m
  PROVE  Good(OnConvinced(w, x, m), Null, {}) /\ Tame(w, OnConvinced(w, x, m))
  BY LookGood, QuietAlone DEF OnConvinced

Cheer(w, S, m) == FoldSet(LAMBDA x, v : OnConvinced(v, x, m), w, S)

LEMMA CheerFine ==
  ASSUME NEW w, Fine(w), NEW m, NEW S \in SUBSET Monsters, S \subseteq World(w)
  PROVE  Fine(Cheer(w, S, m))
  <1> DEFINE R == [s \in SUBSET S |-> {v \in Worlds : Good(v, Null, {}) /\ Tame(w, v)}]
             F == [e \in S \X Worlds |-> OnConvinced(e[2], e[1], m)]
  <1>1. IsFiniteSet(S)
    BY FS_Subset, KindAssumption
  <1>2. w \in R[{}]
    BY QuietAlone, FineIs
  <1>3. ASSUME NEW s \in SUBSET S, NEW v \in Worlds, NEW x \in S, v \in R[s \ {x}], x \in s
        PROVE  OnConvinced(v, x, m) \in R[s]
    <2>1. Good(v, Null, {}) /\ Tame(w, v)
      BY <1>3
    <2>2. x \in Monsters /\ x \in Creatures /\ Kept(w, x)
      BY DEF World, Kept
    <2>3. Kept(v, x)
      BY <2>1, <2>2, QuietWorld DEF Tame
    <2>4. Good(OnConvinced(v, x, m), Null, {}) /\ Tame(v, OnConvinced(v, x, m))
      BY <2>1, <2>2, <2>3, OnConvincedGood
    <2>5. Tame(w, OnConvinced(v, x, m))
      BY <2>1, <2>4, TameTwice
    <2>6. OnConvinced(v, x, m) \in Worlds
      BY <2>4 DEF Good, Sound, Shape
    <2> QED
      BY <2>4, <2>5, <2>6
  <1>10. Stays(S, Worlds, R, F, w)
    <2>1. R \in [SUBSET S -> SUBSET Worlds]
      OBVIOUS
    <2>2. ASSUME NEW s \in SUBSET S, NEW v \in Worlds, s # {}, v \in R[s \ {Some(s)}]
          PROVE  F[<<Some(s), v>>] \in R[s]
      <3>1. Some(s) \in s /\ Some(s) \in S /\ F[<<Some(s), v>>] = OnConvinced(v, Some(s), m)
        BY <2>2, SomeOf
      <3> HIDE DEF R, F
      <3> QED
        BY <1>3, <2>2, <3>1
    <2> HIDE DEF R, F
    <2> QED
      BY <1>2, <2>1, <2>2 DEF Stays
  <1>11. PICK g \in [SUBSET S -> Worlds] : Folding(S, R, F, w, g)
    <2> HIDE DEF R, F
    <2> QED
      BY <1>1, <1>10, FoldExists
  <1> DEFINE next(h, s) == IF s = {} THEN w ELSE OnConvinced(h[s \ {Some(s)}], Some(s), m)
             fold == CHOOSE h : h = [s \in SUBSET S |-> next(h, s)]
  <1>12. ASSUME NEW s \in SUBSET S, NEW v \in Worlds, s # {}
         PROVE  F[<<Some(s), v>>] = OnConvinced(v, Some(s), m)
    BY <1>12, SomeOf
  <1>13. fold = [s \in SUBSET S |-> next(fold, s)]
    <2>1. g = [s \in SUBSET S |-> next(g, s)]
      <3> HIDE DEF R, F
      <3> QED
        BY <1>11, <1>12 DEF Folding
    <2> HIDE DEF next
    <2> QED
      BY <2>1
  <1>14. FoldSet(LAMBDA x, v : OnConvinced(v, x, m), w, S) = fold[S]
    BY DEF FoldSet, MapThenFoldSet, Some
  <1>15. fold[S] \in R[S]
    <2> HIDE DEF R, F, fold
    <2>1. Unfolds(S, Worlds, F, w, fold)
      BY <1>12, <1>13 DEF Unfolds
    <2> QED
      BY <1>1, <1>10, <2>1, FoldIn
  <1>20. FoldSet(LAMBDA x, v : OnConvinced(v, x, m), w, S) \in R[S]
    <2> HIDE DEF R, F, fold
    <2> QED
      BY <1>14, <1>15
  <1>21. Cheer(w, S, m) \in R[S]
    <2> HIDE DEF R
    <2> QED
      BY <1>20 DEF Cheer
  <1>22. Good(Cheer(w, S, m), Null, {}) /\ Tame(w, Cheer(w, S, m))
    BY <1>21
  <1> QED
    BY <1>22, QuietFine DEF Tame

LEMMA ConvinceFine ==
  ASSUME Fine(creature), NEW p \in Players, NEW m \in Monsters, Convince(p, m)
  PROVE  Fine(creature')
  <1> DEFINE k == KillSummons(Won(creature, p, m), m)
             single == UpdateTargets(k, m)
             awake == UpdateIdle(single, m)
             S == {x \in Here \cap Monsters : InReach(creature, x, creature[m].at)
                                              \/ InReach(creature, x, creature[p].at)}
  <1>1. creature' = Cheer(awake, S, m)
    BY DEF Convince, Cheer, Won
  <1>2. p \in World(creature) /\ m \in World(creature) /\ creature[m].master \notin Players
    BY DEF Convince, Here, OfPlayer
  <1>3. Fine(k) /\ World(k) = World(creature)
    BY <1>2, WonAloneFine
  <1> HIDE DEF k
  <1>4. Kept(k, m)
    BY <1>2, <1>3 DEF World, Kept
  <1>5. Good(awake, Null, {}) /\ Tame(k, awake)
    BY <1>3, <1>4, LookGood DEF Fine
  <1> HIDE DEF awake
  <1>6. Fine(awake) /\ World(awake) = World(creature)
    BY <1>3, <1>5, QuietFine DEF Tame
  <1>7. S \in SUBSET Monsters /\ S \subseteq World(awake)
    BY <1>6 DEF Here
  <1> HIDE DEF S
  <1> QED
    BY <1>1, <1>6, <1>7, CheerFine

-----------------------------------------------------------------------------
(* The invariant. *)

LEMMA BeginFine == ASSUME Init PROVE Fine(creature)
  <1>1. \A c \in Creatures : creature[c] = Unborn
    BY DEF Init
  <1>2. World(creature) = {}
    BY <1>1, UnbornIs DEF World
  <1>3. Shape(creature)
    <2>1. creature \in Worlds
      BY UnbornIs DEF Init, Worlds
    <2> QED
      BY <1>1, <2>1, UnbornIs DEF Shape, Creatures
  <1>4. \A c \in Creatures : Held(creature, c) = 0
    <2>1. ASSUME NEW c \in Creatures
          PROVE  Targeting(creature, c) = {} /\ Befriending(creature, c) = {} /\ Mastering(creature, c) = {}
      BY <1>1, UnbornIs DEF Targeting, Befriending, Mastering
    <2> QED
      BY <2>1, FS_EmptySet DEF Held
  <1>5. Counted(creature)
    BY <1>1, <1>4, UnbornIs DEF Counted
  <1>6. Linked(creature) /\ Watch(creature, Null, {}) /\ Checked(creature, Null, {})
    BY <1>1, <1>2, UnbornIs DEF Linked, Watch, Checked, World
  <1>7. Unheld(creature) = {}
    BY <1>1, UnbornIs DEF Unheld
  <1>8. Orderly(creature)
    BY <1>2 DEF Orderly, MastersHere, Flat
  <1> QED
    BY <1>3, <1>5, <1>6, <1>7, <1>8 DEF Fine, Good, Sound

LEMMA EnterFine ==
  ASSUME Fine(creature), NEW c \in Creatures, NEW a \in Places, Spawn(c, a) \/ Login(c, a)
  PROVE  Fine(creature')
  <1>1. creature[c].body = "none" /\ creature' = Place(creature, c, a)
    BY DEF Spawn, Login, Free
  <1> QED
    BY <1>1, PlaceGood

LEMMA WalkFine ==
  ASSUME Fine(creature), NEW c \in Creatures, NEW a \in Places, Walk(c, a)
  PROVE  Fine(creature')
  <1>1. PICK w \in Steps(creature, c, a) : creature' = Cleanup(w)
    BY DEF Walk
  <1>2. After(creature, w, c)
    BY StepsFine DEF Walk, Here
  <1> QED
    BY <1>1, <1>2, CleanedFine DEF After

LEMMA UpdateWalkFine ==
  ASSUME Fine(creature), NEW c \in Creatures, UpdateWalk(c)
  PROVE  Fine(creature')
  <1>1. c \in World(creature) /\ creature' \in Chases(creature, c)
    BY DEF UpdateWalk, Here, Chases
  <1> QED
    BY <1>1, ChasesFine DEF After

LEMMA PlayerAttackFine ==
  ASSUME Fine(creature), NEW p \in Players, NEW t \in Creatures \cup {Null}, PlayerAttack(p, t)
  PROVE  Fine(creature')
  <1> DEFINE u == SetAttacked(creature, p, t)
  <1>1. p \in World(creature) /\ t \in World(creature) \cup {Null}
    BY DEF PlayerAttack, Here
  <1>2. Fine(u) /\ World(u) = World(creature)
    <2>1. Fine(u) /\ Quiet(creature, u)
      BY <1>1, OrderFine
    <2> HIDE DEF u
    <2> QED
      BY <2>1, QuietLater
  <1>3. creature' = u \/ creature' = SetFollow(u, p, t)
    BY DEF PlayerAttack
  <1> HIDE DEF u
  <1> QED
    BY <1>1, <1>2, <1>3, OrderFine

LEMMA PlayerFollowFine ==
  ASSUME Fine(creature), NEW p \in Players, NEW t \in Creatures \cup {Null}, PlayerFollow(p, t)
  PROVE  Fine(creature')
  <1> DEFINE u == SetAttacked(creature, p, Null)
  <1>1. p \in World(creature) /\ t \in World(creature) \cup {Null}
    BY DEF PlayerFollow, Here
  <1>2. Fine(u) /\ World(u) = World(creature)
    <2>1. Fine(u) /\ Quiet(creature, u)
      BY <1>1, OrderFine
    <2> HIDE DEF u
    <2> QED
      BY <2>1, QuietLater
  <1>3. creature' = SetFollow(u, p, t)
    BY DEF PlayerFollow
  <1> HIDE DEF u
  <1> QED
    BY <1>1, <1>2, <1>3, OrderFine

LEMMA StepFine ==
  ASSUME Fine(creature), [Next]_creature
  PROVE  Fine(creature')
  <1>1. CASE UNCHANGED creature
    BY <1>1
  <1>2. ASSUME NEW m \in Monsters, NEW a \in Places, Spawn(m, a) PROVE Fine(creature')
    BY <1>2, EnterFine DEF Creatures
  <1>3. ASSUME NEW p \in Players, NEW a \in Places, Login(p, a) PROVE Fine(creature')
    BY <1>3, EnterFine DEF Creatures
  <1>4. ASSUME NEW p \in Players, Logout(p) PROVE Fine(creature')
    BY <1>4, RemoveFine DEF Logout, Creatures
  <1>5. ASSUME NEW p \in Players, LoseClient(p) PROVE Fine(creature')
    BY <1>5, LoseClientFine DEF LoseClient
  <1>6. ASSUME NEW p \in Players, NEW t \in Creatures \cup {Null}, PlayerAttack(p, t) \/ PlayerFollow(p, t)
        PROVE  Fine(creature')
    BY <1>6, PlayerAttackFine, PlayerFollowFine
  <1>7. ASSUME NEW p \in Players, NEW m \in Monsters, SummonByScript(p, m) PROVE Fine(creature')
    <2>1. p \in World(creature) /\ creature[m].body = "none" /\ creature' = Summon(creature, p, m)
      BY <1>7 DEF SummonByScript, Here, Free
    <2> QED
      BY <2>1, PlayersAreFree, SummonGood
  <1>8. ASSUME NEW p \in Players, NEW m \in Monsters, Convince(p, m) PROVE Fine(creature')
    BY <1>8, ConvinceFine
  <1>9. ASSUME NEW c \in Creatures, NEW a \in Places, Walk(c, a) PROVE Fine(creature')
    BY <1>9, WalkFine
  <1>10. ASSUME NEW c \in Creatures, CheckAttack(c) PROVE Fine(creature')
    <2>1. PICK fatal \in BOOLEAN : creature' = Strike(creature, c, fatal)
      BY <1>10 DEF CheckAttack
    <2>2. c \in World(creature) /\ creature[c].alive
      BY <1>10 DEF CheckAttack, Here
    <2> QED
      BY <2>1, <2>2, StrikeFine
  <1>11. ASSUME NEW c \in Creatures, Damage(c) PROVE Fine(creature')
    BY <1>11, HurtFine DEF Damage, Here
  <1>12. ASSUME NEW c \in Creatures, Check(c) PROVE Fine(creature')
    BY <1>12, CheckFine
  <1>13. ASSUME NEW c \in Creatures, UpdateWalk(c) PROVE Fine(creature')
    BY <1>13, UpdateWalkFine
  <1> QED
    BY <1>1, <1>2, <1>3, <1>4, <1>5, <1>6, <1>7, <1>8, <1>9, <1>10, <1>11, <1>12, <1>13 DEF Next

\* The creatures between two tasks, whoever lies dead.
Whole(w) ==
    /\ Shape(w) /\ Counted(w) /\ Linked(w) /\ Watch(w, Null, {}) /\ Unheld(w) = {} /\ Orderly(w)
    /\ \A x \in Creatures :
          /\ w[x].check => w[x].listed /\ w[x].body = "world"
          /\ w[x].body = "world" /\ x \in Players => w[x].check

LEMMA WholeIsFine == ASSUME Whole(creature) PROVE Fine(creature)
  <1>1. ASSUME NEW x \in Creatures, creature[x].body = "world", ~creature[x].alive, x \notin Excused
        PROVE  creature[x].check
    BY <1>1 DEF Excused, Forgotten, Here, World
  <1>2. Checked(creature, Null, {})
    BY <1>1 DEF Checked, Whole
  <1> QED
    BY <1>2 DEF Fine, Good, Sound, Whole

LEMMA FineIsWhole ==
  ASSUME NEW w, Fine(w)
  PROVE  /\ Whole(w)
         /\ \A x \in World(w) : ~w[x].alive /\ x \notin Excused => w[x].listed /\ w[x].check
  BY DEF Fine, Good, Sound, Whole, Checked, World

LEMMA StepWhole ==
  ASSUME Whole(creature), [Next]_creature
  PROVE  Fine(creature') /\ Whole(creature')
  BY WholeIsFine, StepFine, FineIsWhole

\* Between two tasks the references are counted, masters and summons know each other,
\* nobody aims at who is gone, and the players in the world are checked.
THEOREM CreaturesStayWhole == Spec => []Whole(creature)
  <1>1. ASSUME Init PROVE Whole(creature)
    BY <1>1, BeginFine, FineIsWhole
  <1>2. ASSUME Whole(creature), [Next]_creature PROVE Whole(creature)'
    BY <1>2, StepWhole
  <1> QED
    BY <1>1, <1>2, PTL DEF Spec

\* Whoever dies is checked, and so removed: the only creature that may lie dead for ever
\* is a monster that dies in its own check, on the first step of its chase, while the
\* player it attacks has no client (creature.cpp:287-290, monster.cpp:835-839).
THEOREM OnlyTheStoppedEverForgotten == Spec => OnlyTheStoppedAreForgotten
  <1> DEFINE Stopped == \A c \in Forgotten' \ Forgotten :
                           /\ c \in Monsters /\ Check(c) /\ creature[c].alive
                           /\ creature[c].follow # Null
                           /\ Clientless(creature, creature[c].attacked)
  <1>1. ASSUME Whole(creature), [Next]_creature PROVE Stopped
    <2> SUFFICES ASSUME NEW c \in Forgotten' \ Forgotten PROVE Stopping(c)
      BY DEF Stopping
    <2>1. Fine(creature')
      BY <1>1, StepWhole
    <2>2. c \in World(creature') /\ ~creature'[c].alive /\ ~(creature'[c].listed /\ creature'[c].check)
      BY DEF Forgotten, Here, World
    <2>3. c \in Excused
      BY <2>1, <2>2, FineIsWhole
    <2> QED
      BY <2>3 DEF Excused
  <1> QED
    BY <1>1, CreaturesStayWhole, PTL DEF Spec, OnlyTheStoppedAreForgotten

\* Every creature is an object of its type, or none.
THEOREM CreatureTypes == Spec => []CreatureTypeOK
  <1>1. Whole(creature) => CreatureTypeOK
    BY DEF Whole, Shape, Worlds, CreatureTypeOK
  <1> QED
    BY <1>1, CreaturesStayWhole, PTL

\* Whatever order creatures die, vanish, change sides and lose sight of each other in,
\* every reference is counted once: nobody is deleted while a list holds him, and
\* nobody stays whom no list holds (creature.h:471, monster.cpp:72-76).
THEOREM ReferencesAlwaysExact == Spec => []RefsExact
  <1>1. ASSUME Whole(creature) PROVE RefsExact
    <2>1. ASSUME NEW c \in Creatures
          PROVE  creature[c].refs = Holders(c) /\ (creature[c].refs = 0 <=> creature[c].body = "none")
      <3>1. creature[c].refs = Own(creature[c]) + Held(creature, c)
        BY <1>1 DEF Whole, Counted
      <3>2. /\ Cardinality(Targeting(creature, c)) \in Nat /\ Cardinality(Befriending(creature, c)) \in Nat
            /\ Cardinality(Mastering(creature, c)) \in Nat /\ creature[c].due \in Nat
        BY <1>1, ListsCounted, OwnCounted, WholeIsFine, FineIs
      <3>3. (creature[c].body = "world") <=> (c \in Here)
        BY DEF Here, World
      <3>4. Holders(c) = Own(creature[c]) + Held(creature, c)
        BY <3>2, <3>3 DEF Holders, Own, One, Held, Targeting, Befriending, Mastering
      <3>5. creature[c].refs = 0 <=> creature[c].body = "none"
        BY <1>1, UnbornIs DEF Whole, Shape, Unheld
      <3> QED
        BY <3>1, <3>4, <3>5
    <2> QED
      BY <2>1 DEF RefsExact
  <1> QED
    BY <1>1, CreaturesStayWhole, PTL

\* Who is in the world attacks and follows creatures of the world only, and masters and
\* summons know each other (creature.cpp:429-451, 630-637, 1187-1208).
THEOREM PointersAlwaysLive == Spec => []PointersLive
  <1>1. ASSUME Whole(creature) PROVE PointersLive
    <2>1. ASSUME NEW c \in Here
          PROVE  /\ {creature[c].attacked, creature[c].follow} \subseteq Here \cup {Null}
                 /\ creature[c].master # Null => c \in creature[creature[c].master].summons
                 /\ \A s \in creature[c].summons : s \in Here /\ creature[s].master = c
      <3>1. c \in World(creature) /\ c \in Creatures /\ creature[c].body = "world"
        BY DEF Here, World
      <3>2. {creature[c].attacked, creature[c].follow} \subseteq Here \cup {Null}
        BY <1>1, <3>1, WholeIsFine, FineIs DEF Here
      <3>3. creature[c].master # Null => c \in creature[creature[c].master].summons
        BY <1>1, <3>1 DEF Whole, Linked
      <3>4. creature[c].summons \subseteq Creatures
        BY <1>1, <3>1, WholeIsFine, FineIs DEF Worlds, Body, Creatures
      <3>5. \A s \in creature[c].summons : s \in Here /\ creature[s].master = c
        BY <1>1, <3>1, <3>4 DEF Whole, Linked, Here, World
      <3> QED
        BY <3>2, <3>3, <3>5
    <2> QED
      BY <2>1 DEF PointersLive
  <1> QED
    BY <1>1, CreaturesStayWhole, PTL
=============================================================================
