# A formal model of the RealMap server

TLA+ modules, TLC model-checking runs and TLAPS proofs for the C++ game server
in `src/src` (a Forgotten Server 1.2 derivative, about 84,000 lines). Source
references below are relative to `src/src`.

The server is one big sequential program, the game, run by the dispatcher
thread, with three helper threads around it. What is hard is (1) how work and
termination pass between the threads, and (2) long sequences of legal game calls,
by several players, that must keep pointers, registries and reference counts
consistent across objects. The project models those two things.

## Inventory

| Component | State | Operations | Interacts with | What is hard, what makes it right |
|---|---|---|---|---|
| Dispatcher (`tasks.*`, `thread_holder_base.h`) | `taskList`, the swapped-out batch, thread state, condition variable | `addTask`, `threadMain`, `shutdown`, `stop` | called by every thread and by its own tasks | notify after unlock, swap of lists, refusal while closing; order, no lost wakeup, every `Task` freed once, it ends |
| Scheduler (`scheduler.*`) | `eventIdTimerMap`, `lastEventId`, queue of the `io_context` | `addEvent`, `stopEvent`, `shutdown`, timer handler | hands expired tasks to the dispatcher | cancel against expiry against dispatch; an event has one owner, dies only on request |
| Database tasks (`databasetasks.*`) | `tasks`, thread state, lock, condition variable | `addTask`, `threadMain`, `runTask`, `flush`, `shutdown` | callbacks to the dispatcher | flush on another thread, wait after a missed notification; order and completeness of queries |
| Lifecycle (`otserv.cpp`, `signals.*`, `server.*`, `Game::setGameState`, `Game::shutdown`) | game state, thread states | signal, two-phase stop (CLOSING, then TERMINATED), joins | all threads | the order of the steps against calls of the other threads; it stops, loses nothing |
| Game session (`connection.*`, `protocolgame.*`, `outputmessage.*`) | connection state, `player`, `owner`, `isConnecting`, reference counts, autosend list | accept, parse, close, login, connect, logout, release, kick, time-out | network thread, dispatcher, scheduler | replaced logins, closes in any order; one controller, exact counts |
| Safe trade (`game.cpp` 2266-2652, hooks in `player.cpp`) | `tradeState/Partner/Item` of each player, `tradeItems`, references | request, accept, exchange, close; every move, removal, change of items, walk, logout | containers, tiles, creatures | one check at the start, hooks ever after; both ends agree, offers stay what was shown, an exchange gives each trader the other's offer |
| Waiting list (`waitlist.*`) | two lists with time-outs | `clientLogin`, `cleanupList` | login | a client that gave up says so to nobody; its place must become free |
| Market (`iomarket.*`, `game.cpp` 4864-5281) | offers, history, balances, depot and inbox items | create, cancel, accept in part, asynchronous expiry | database tasks, inboxes, logins | stale result of the expiry query, an owner on or off line; gold and goods are only moved, history accounts for every piece |
| Database (`database.*`) | recursive lock, transaction | query, begin, commit, rollback | database tasks | BEGIN before the lock |
| Bans (`ban.*`) | connection blocks, ban rows | check, expire | database tasks | history written twice |
| Party (`party.*`, `game.cpp` 4622-4730) | leader, members, invitations; `party` and `invitePartyList` of players | invite, join, revoke, pass leadership, leave, disband | players, logout, chat | mutual pointers, an object that deletes itself; both sides agree, a party of three survives its leader |
| Chat (`chat.*`, `game.cpp` 1695-1791) | users of public, party and private channels; invitations | open, close, create, invite, exclude, reload | players, logout, takeover, parties | plain pointers to players; who listens is in the game and, in a private channel, invited |
| Creatures (`creature.*`, `monster.*`, `game.cpp` 498-590, 3352-3430, 4374-4402) | attacked, followed, master, summons, target and friend lists, `creatureCheck`, `referenceCounter`, `ToReleaseCreatures` | place, move, remove, think, attack, die, summon, convince | map spectators, players, logout | callbacks that change the lists of others while one is being moved or removed; exact counts, no pointer to who has left, no dead creature forgotten by the check |
| Houses | owner, access lists, transfer item | buy, transfer, evict | players, trade | ownership against rent |
| Items and decay (`item.*`, `Game::checkDecay`) | decay buckets, `ToReleaseItems` | start, stop, transform | every cylinder | an item in two buckets, counts |
| Combat, conditions, spells, weapons, path finding | numbers, durations | damage, heal, find a way | scripts, map | mostly game rules |
| Guilds, quests, mounts, raids, spawns, NPCs | tables and timers | script-driven | Lua | little state of their own |
| Map, persistence, configuration, Lua bindings, encryption, login/status protocols | data | load, save, bind, answer | | pure I/O or sequential computation |

`PROJECT.json` lists every component with its status, and under `hazards` each
place in the code that is hard to test, with the properties that watch it or the
reason why none does yet.

## Modules

| Module | Models |
|---|---|
| `TaskQueue` | abstract specification: a FIFO queue with one server; work may expire at its turn |
| `Dispatcher` | the dispatcher and its callers, at the granularity of critical sections; implements `TaskQueue` |
| `DispatcherProofs` | proofs about `Dispatcher` |
| `Scheduler` | the scheduler's `io_context`, timers and event ids (operators and actions used by `Server`) |
| `DatabaseTasks` | the database worker and its callers (used by `Server`) |
| `Server` | composes the three with main, signals, `setGameState` and `Game::shutdown` |
| `ServerProofs` | proofs about `Server`: termination, queries, events and types |
| `Trade`, `MCTrade`, `TradeProofs` | safe trade; its symmetry for TLC; proofs |
| `Session`, `MCSession`, `SessionProofs` | connections, logins, Player objects; symmetry for TLC; proofs |
| `Escrow` | abstract specification: what offers put aside comes back once, or is dealt |
| `Market`, `MCMarket`, `MarketProofs` | the market; implements `Escrow`; what two players own at first; proofs |
| `Totals`, `TotalProofs` | sums over finite sets, with which gold and goods are counted; lemmas about them |
| `Party`, `Chat` | parties; channels (which know of parties by address only) |
| `Community`, `MCCommunity`, `CommunityProofs` | composes the two with logins, logouts and takeovers; symmetry; proofs |
| `Creatures` | the creatures as data, and the functions of the code that change them (operators from creatures to creatures) |
| `CreatureWorld`, `MCCreatures`, `CreatureProofs` | the tasks of the dispatcher that call them; symmetry for TLC; proofs |
| `WaitingList` | the waiting list, its clients and time |

Definitions whose comment begins with "Mutant of" are wrong variants of the
definition that follows. They belong to no specification: they show that each
property can fail (`PROJECT.json`, `mutants`).

### How state and actions correspond to the code

**Dispatcher.** A critical section of `taskLock` touches only `taskList` and the
thread state, so it is one action (`AddTask`, `LockList`, `SwapLists`). What the
code does outside the lock is an action of its own: `NotifyOne` (the notification
after the unlock; `notifying` are the threads that still owe it), `TestState` (the
loop condition), `StartTask`/`SkipExpired`/`FinishTask` (a body runs while other
threads go on; a body may itself call `AddTask`). `SpuriousWakeup` is allowed, as
for any condition variable. `fresh` are tasks not created yet, which bounds the
number of tasks. The dispatcher does not test the list again after a wakeup
(`tasks.cpp:49`), nor does the model.

**Scheduler.** `handlers` is the queue of the `io_context`; each posted lambda and
each completed wait is one entry, run to its end by one action. Timers expire in
any order. Event ids are taken modulo `IdModulus`, which is larger than the number
of events of a run: the wrap of the 32-bit counter is a listed hazard that no run
watches.

**DatabaseTasks.** The worker's program counter separates the test of the state
(37), the critical section with the wait (38-50), the query (69-79) and the callback
(81-83). `flush` runs the queries one by one with the lock held, so between two of
them other threads may step.

**Server.** Main is the network thread until the `io_service` stops, then the one
that joins. The body of the signal task and of `Game::shutdown` is a sequence of
steps (`body`) because each call in it is visible to the other threads. Any other
task is "game code": it may add tasks, events and queries and stop events, in any
number the constants allow. The network thread is a second producer of everything:
packets become tasks (`NetReceives`), a login has its address checked before it is
queued, which may queue the deletion of an expired ban (`NetQueries`, `ban.cpp:112`),
and a service port that fails is opened again by an event (`NetAddsEvent`). Kicking the players and `saveGameState` are left out
of the body: they add queries and tasks as game code does.

**Trade.** Handlers run to their end on the dispatcher, so a handler is one
action, including the hooks it sets off. `parent` is `Item::getParent`, so
containment is the chain of parents. The hooks of the code
(`onRemoveContainerItem`, `onRemoveInventoryItem`, `checkTradeState` and their
like) are the sets `RemovalTouches` and `AddingTouches` of players whose trade is
closed by a move. Abstractions: a *place* stands for the positions within the
ranges the code compares; which slot takes an item, weight and what a script
decides are free refusals (`ExchangeFails`, `AcceptRefused`). Room is modelled as the
code has it, in two ways: the test calls of `internalAddItem` (2458-2459) let a stack
join another one (`WouldFit`), the moves pass `FLAG_IGNOREAUTOSTACK` (2470, 2472) and
need a place (`Destinations`). The second move may therefore be refused after the first
is done, and its result is ignored; `Stackable` are items of one kind, of which any two
stacks can be joined. What can be picked up can be moved: that a move is refused for
another reason after its test passed is left out. A replaced
item (`oldItem # newItem`) is a removal; `TRADE_TRANSFER` never outlives the
handler that sets it and is not a state of the model; the swap of
`RETURNVALUE_NEEDEXCHANGE` and the house-transfer document (`house.cpp` 346-407)
are not modelled.

**Session.** The network thread parses one packet at a time under the lock of its
connection (`parsing`); a close by another thread waits for it. Tasks are a FIFO
sequence, which is what `DispatcherIsAQueue` proves of the dispatcher. `connects`
and `sends` are events waiting in the scheduler. A `Connection` whose state is
CLOSED lives on until the last handler of its socket has run
(`ConnectionDestroyed`). Player objects are named by the client whose login created
them; all clients play one character. `ALLOW_CLONES` is off and
`REPLACE_KICK_ON_LOGIN` on, as in `src/config.lua`. Whether a login is refused, a
script kicks a player or a logout is allowed is a free choice. Casting is left out.

**Market.** Handlers of players are one action each: their queries are answered at
once, on the dispatcher. `checkExpiredOffers` is three steps: the query is queued,
the database thread answers it with the rows as they are then, the callback gives
the rows back. Between two of them every handler may run. `memory` is the Player
object, `record` the database; logging in and out copies one to the other, and
`Settle` changes whichever is in force. Offers are named by ids in the order of
their creation where the code uses a time stamp and a counter taken from it; goods
are a number of pieces of one ware, in depot and inbox together. Left out: the
checks that the player stands at a depot, unknown item types, rows that cannot be
loaded, the failure of an INSERT, and a crash between two statements. `#pragma omp
parallel for` in `iomarket.cpp` is ignored: the build does not enable OpenMP.

**Party and Chat.** The pointers of the party objects and of the players are one
record, `pact`, so that a function of the code is an operator on it (`Disband`,
`PassLeadership`, ...) and a packet is one action. The address of a deleted `Party`
may be given out again; the channel of a party is kept by address and never
erased, so that former members go on listening and a new party at the address
finds them there. Party script events are switched off in
`data/events/events.xml:9-11`; channel scripts are a free refusal; a reload empties
the public channels. `Community` adds who is in the game: a logout ends parties,
invitations and channels, a takeover by another client leaves the channels only.

**Creatures.** The state is one function from objects to their fields. Each
operator stands for a function of the code, takes the creatures and returns them
changed, so that the nesting of calls and callbacks is the nesting of operators;
`Reap` deletes objects whose counter reached zero, with their destructors. A place
is what can be seen from it: the range within which spectators are told (11) and
that of `canSee` (10) are taken as one. Each creature is alone in its check list
(the code has ten lists, one each 100 ms). Spectators are told in a fixed order,
except the mover, who is told first, and a removed creature, who is told first or
last: the others touch their own lists only. Monsters are hostile and players
chase. A thinking creature first goes after whom it follows (`Chases`): the first step
has time, or is taken at once with its callbacks, a field at its end and a cleanup
(`FirstSteps`; `creature.cpp:155-158`, 287-290; in `Game::updateCreatureWalk`, which does
nothing afterwards, it is `Walk`), or there is no way and a summon forgets
its target (`GiveUp`; `monster.cpp:599-616`). Only then come its thoughts, its attack and
its conditions, each without asking whether it is still alive
(`game.cpp:3407-3410`). Left out: invisibility, conditions, zones, floors, parties; NPCs; the
reference a spawn keeps to its monster (`spawnedMap`); a client that comes back,
which is `Session`. Whom an object attacked or followed is forgotten once it is
removed, as nobody reads it.

**WaitingList.** Time-outs are counted in ticks of `TickSeconds`. The difference
of unsigned numbers in `cleanupList` is taken modulo `2^Bits`. A client is patient
and comes back within its time-out, or gives up at some time. The places the code
reads after it has erased an entry through the iterator of the other list
(`waitlist.cpp:131`) only set the first time-out of a newcomer; the model takes
the real lengths.

## Runs

States are distinct states of the complete search; for the three violation runs,
the states found until the counterexample.

| Run | Instance | States | Shows |
|---|---|---|---|
| `dispatcher` | 3 threads (one the dispatcher's own), 3 tasks, one that can expire | 7,279 | types; `NoMissedWakeup`; `OneOwner`; `ImplementsQueue`; `AcceptedIsServed`; `ShutdownEnds` |
| `server_queries` | 1 packet, 2 queries (one with a callback) of game code or the network thread, 2 signals | 211,597 | `QueriesInOrder`, `NoQueryLost`, `ShutdownTaskIsLast`; `SignalStopsThreads` under fairness |
| `server_events` | 1 packet, 2 events, 1 signal | 1,986,774 | `EventHasOneOwner`, `EventsDieOnRequest` |
| `server_signal` | 1 packet, 1 event, 1 query, 1 signal | 178,035 | **violation** of `ServerShutsDown` |
| `trade` | 3 players, 2 containers and 2 stacks, 2 places, 1 slot, 2 items per container; symmetric | 18,360 | the seven trade properties |
| `session` | 3 clients; symmetric | 795,870 | the six session properties |
| `session_answers` | 2 clients | 17,508 | `LoginAnswered` under fairness |
| `session_leak` | 2 clients | about 7,700 | **violation** of `ReleasedHoldsNothing` |
| `market` | 2 players, 2 offers, amounts up to 2, price 1, fee 0 to 1 (a half of the price), 2 lookups | 366,773 | types; `HistoryBalances`, `OnlyStaleAnswersCreate`, `ImplementsEscrow` |
| `community` | 3 players, 2 party addresses, 1 public and 1 private channel, 3 users over all channels; symmetric | 132,001 | types; `PartiesAgree`, `ListenersBelong`, `PartyOfThreeSurvives` |
| `creatures` | 1 player, 2 monsters, 2 places out of sight of each other; symmetric; nothing follows once a corpse is forgotten | 206,967 | types; `RefsExact`, `PointersLive`, `OnlyTheStoppedAreForgotten` |
| `waiting_list` | 3 players (1 premium, 1 patient), a server for 1, ticks of 10 s, a `size_t` of 3 bits | about 490 | **violation** of `EmptyServerAdmits` |

Why the bounds are enough to be interesting:

- *dispatcher*: three tasks allow one running, one in the batch and one newly
  added; two foreign threads allow a notification to be overtaken by another
  thread's `addTask` and by the swap.
- *server*: two queries are the least for which the worker holds one while the
  flush runs the other, and for one of each producer; a second signal reaches a server that is already stopping;
  two events are the least for a cancellation to hit the wrong one.
- *trade*: a third player is needed to open or move what belongs to a trade of the
  other two, two containers to nest an offer in another, two places to walk apart;
  one slot and a capacity of two make both room and no room occur; two stacks let one
  be offered to the owner of another, who has no place for it.
- *session*: three clients are the least for a player in the game, one that waits
  to replace it and one that takes the character in between.
- *market*: an amount of two is the least that can be dealt in part, and so the
  least for which an answer is stale; two lookups are under way when the second is
  queued before the first is answered, and give the same offer back twice unless
  the second finds it gone; two offers let one end while the other is open.
- *community*: three players are the least for a leader, a member and an invited
  player, and for a leadership that is passed with somebody left; two addresses
  allow a player to be invited by one party and in the other, and an address to be
  used again.
- *creatures*: the second monster is the summon of the player, of the other
  monster, or its enemy; with a player as master of one, monsters list each other.
  Two places out of sight make every move a loss of sight, which is when lists
  change. A second player or a third monster multiplies the states beyond reach. A state
  in which a dead monster lies forgotten is checked and not continued
  (`NobodyForgotten`); without this bound the run has 293,193 states and takes longer,
  with the same result, and the theorems need no bound.
- *waiting_list*: one client that gives up and one behind it. In 3 bits the
  unsigned time-out wraps as in 64: what is past is a large number.

Deadlock is checked in `community` and `waiting_list`. Elsewhere the programs may
stop (all tasks consumed, main returned, all clients gone, all offers of the bound
used up).

### Fairness

`FairDispSpec` and `FairSpec` assume weak fairness of each thread's own steps: a
runnable thread is scheduled again, a notification that is due is made, an armed
timer expires, a task's body ends, a join returns once its thread has ended.
Nothing is assumed of packets, signals, spurious wakeups or what game code calls.
`FairSessionSpec` assumes that a packet is parsed to its end and that timers
expire, and strong fairness of the dispatcher's tasks: a task that closes a
connection waits for that connection's lock, which the network thread releases
after every packet and takes again only for the next one.
`FairSpec` of `WaitingList` assumes that time passes and that a patient client
asks again and again; that it does so within its time-out is in `Tick`. Nothing is
assumed of the other clients, nor that anybody logs out.

### Findings

1. `server_signal`: after SIGINT the process may never exit. The database worker
   tests its state (`databasetasks.cpp:37`), `DatabaseTasks::shutdown` then sets
   TERMINATED and notifies (97-100), and only then does the worker lock and wait
   (38-40). Main hangs in `g_databaseTasks.join()` (`otserv.cpp:106`). The
   dispatcher does not have this race, because its state is changed by a task of
   its own; `SignalStopsThreads` therefore promises of the worker only that it has
   ended or waits with an empty list.
2. `session_leak`: `ProtocolGame::connect` guards against running after `release`
   by asking whether the `Connection` object still exists (`protocolgame.cpp:215`).
   A closed connection exists until its pending handlers have run; in between, the
   connect event makes a released protocol the owner of the player. Nobody releases
   it again, and later logins are told "You are already logged in".
3. `waiting_list`: a place in the list is meant to be kept for 15 seconds longer
   than the client is expected back (`waitlist.cpp:60`). `cleanupList` asks whether
   the difference of the time-out and the time is at most zero (line 50), but the
   time-out is unsigned and so is the difference: an entry is found only in the
   millisecond in which it times out. Entries of clients that gave up stay, and
   whoever is behind them is refused although the server is empty. With a signed
   comparison the property holds on the same instance.

Also met, without a line of the repository that says otherwise:

- `isConnecting` stays set when the client that was to attach is gone, so that
  neither `Player::canLogout` nor the ping time-out removes the character
  (`player.cpp:931`, 3779) until somebody logs in again.
- `processExpiredOffers` gives back the amount the lookup read (`iomarket.cpp:131`),
  also when a part of the offer was accepted before the callback ran: gold or goods
  are created. `OnlyStaleAnswersCreate` shows that this is the only way.
- A summon whose master dies has its master set to null before it is removed, and a
  player without a client is nobody's opponent when he leaves: other monsters keep
  them in their target lists until the next `updateTargetList`. The lists are
  counted, so nothing dangles.
- A summon that is removed along with its master when it is dead keeps its own
  lists until `~Monster` (`monster.cpp:72-76`), which is where they are given back.
- A monster that stops because the client of its target is lost
  (`monster.cpp:835-838`) is no longer checked, and sleeps until something moves
  near it or hits it.
- If that monster died on the first step of its chase, in the same check
  (`creature.cpp:155-158`, 287-290), it still goes on to attack (`game.cpp:3407-3410`)
  and stops being checked. As a dead monster is not woken any more, nothing removes its
  body. `OnlyTheStoppedAreForgotten` shows that this is the only way.
- An exchange tests the room for both offers with stacks joining and moves them without
  (`game.cpp:2458-2472`). A stack that would have joined another, and has no place of its
  own, stays with the trader who moves second, and he has both.
  `OnlyStacksStayBehind` shows that nothing else, and never the other offer, is left.

## Proofs

TLAPS checks 16750 obligations. All theorems hold for every value of the constants
that satisfies the named assumptions, which say which constants are members of
which, which are apart, and which are natural numbers; also

- `ServerAssumption`: the closures of `tasks.h` and `scheduler.h` are objects of
  their own, so that packets, events, callbacks and signals are different tasks;
- `SessionAssumption`, `MarketAssumption`, `TradeAssumption`: clients, players and
  items are finitely many; no player is a place;
- `NearAssumption`, `KindAssumption`: a place is in sight of itself, and of another
  if that is in sight of it; players and monsters are finitely many and different.

Two theorems have a hypothesis of their own, `EnoughIds`: there are fewer events
than event ids. Without it they are false: an id that has wrapped may still be in
the map (`scheduler.cpp:30`).

**`DispatcherProofs`**
- `TypeCorrect`: `DispTypeOK` is inductive as it stands. Its last conjunct, that
  the batch is empty outside the loop over it, is what the next theorems need.
- `WakeupNeverMissed`: `NoMissedWakeup` is inductive alone. The only step that
  fills an empty list while the thread waits is an `AddTask` or a `Shutdown`, and
  both leave a notification due or make it at once.
- `DispatcherIsAQueue`: with `queue <- tmpTaskList \o taskList` and
  `serving <- current`, adding appends, starting takes the head, swapping stutters
  because the batch is empty when it happens.
- `TasksHaveOneOwner`: the running task, the batch and the list together are an
  injective sequence, disjoint from the tasks not created yet; lemmas about
  appending to, and taking the head of, such a sequence carry the step.

**`ServerProofs`** `ServerRunsDispatcher`: a step of the server is a step of the
dispatcher or leaves it alone, so that the four theorems above hold in it. Two
invariants stand on that, and one of its own.
- `PhaseInv` says how far the stop has come. What the threads' states are is a
  function of the step `body` has reached in the signal's task or in that of
  `Game::shutdown` (`BodiesInv`, `StatesInv`); which threads have ended (`EndsInv`);
  that the lock of the worker is held through the flush and the list is empty after
  it (`FlushInv`); that nothing stands behind the task that ends the dispatcher
  (`KillInv`). `ShutdownTaskAlwaysLast` is its last part.
- `QueryInv`: the queries run so far are those accepted first, in their order, but
  for one: the k-th accepted is, or will be, the m-th run (`RunOrder`), and k < m
  only when the worker held it while the flush went on. `QueriesAlwaysInOrder` and
  `NoQueryEverLost` follow.
- `EventInv` says which id each event has, that no two have the same (`IdsInv`,
  where `EnoughIds` is needed), and that an event is in one handler or one timer
  (`HandlersInv`, `TimersInv`), and only events that were asked to stop, or all of
  them at the end, are deleted (`DiscardsInv`). From it `EventAlwaysHasOneOwner` and
  `EventsOnlyDieOnRequest`. `ServerTypes` needs no `EnoughIds`.

**`TradeProofs`** The three invariants `TradeTypeOK`, `PartnersAgree` and
`RegistryExact` are proved together (`TradeInv`). None is inductive alone: closing a
trade resets the player and his partner, which is right only if the partner points
back, and erasing both offers keeps the registry exact only if each offer is
registered under its one player. The argument has three parts. `ClosedIsClosed`:
with agreeing partners, a set of players together with their partners contains the
partner of each member. `ResetKeeps`: resetting such a closed set keeps the
invariant. Every ending of a trade (close, refusal, failure, exchange, each hook,
logout) is then a reset of a closed set, and the only other change is `RequestTrade`
(`RegisterKeeps`).

`PlacesInv` adds where the items are: containment has no circles (`Acyclic`) and
nothing holds more than fits (`Occupied`). What contains an item is the least set
closed under `parent` (`ClosedUp`), not a recursion, so that membership is shown by
giving a closed set. Four theorems follow. `OffersAlwaysDisjoint` and
`OffersAlwaysInReach`: a move that would break them touches the owner of the offer
or his partner, and ends the trade (`OfferTouched`). `OffersNeverChange`: likewise.
`OnlyStacksEverStay`: the first move of an exchange frees the place that the second
takes, or leaves the room that was tested, unless the room was in another stack
(`SecondMoveHasRoom`).

**`SessionProofs`** The six properties follow from one invariant, `SessionInv`. None is
inductive alone, because what a login, a connect or a release will do depends on
tasks still queued.
- Of the task sequence only four things matter: the clients with a login, a connect
  or a release in it, and whether `sendAll` is. Lemmas say how appending a task and
  taking the first one change these (`AppendBegin`, `AppendRelease`, `TailFacts`).
- `Queued`: no client begins twice, be it by a queued login, an armed connect event
  or a queued connect; a login comes before the release of its client; whose
  release is queued is cut off, and whose packet is parsed is not. A first packet
  therefore finds nothing of its client queued, which gives `NoReleaseInPacket` and,
  with `Outputs`, `AutosendLive` and `AutosendRuns`.
- `Bodies`: whoever is still to begin has no player, and the object its login will
  make is owned and counted by nobody (`Unborn`). Hence attaching and making a
  player keep `OneController`, with which the counter can be stated without
  counting (`Counted`): one for the owner, one for the world. `RefsExact` follows
  because the set it counts is empty or a singleton.
- Most actions only take tasks, close connections and move players out of the game:
  they are all instances of `QuietStep`.
- `SessionTypes`: the armed and the queued calls of `sendAll` together are no more
  than the clients whose login has run (`SendsBound`), as a login arms one at most
  and a call arms another only in its own place.

**`TotalProofs`** A total over a finite set does not depend on the order of its
summands: one can be taken out, changed, or split among two totals. The sums are
folds, of which only the equation for one choice at a time is known; induction over
the set is done by the least counterexample among its subsets.

**`MarketProofs`**
- `HistoryAlwaysBalances`: inductive with the types of the table and with
  `OpenNotEnded`: an offer in the table has nothing in the history for its end. An
  answer, however old, ends only rows that are in the table now, and by what they
  hold now; each ends once because it leaves the table.
- `MarketTypes`, `GoldAndGoodsConserved`: `MarketInv` adds that an amount in an old
  answer lies between what was offered at first and what is on offer now
  (`GoodRows`). Each handler moves something between two of the three sums (players'
  memory, records, offers); an answer gives back at least what the offers held, and
  exactly that unless it is stale.
- `MarketIsEscrow`: with the same invariant each step of the market is one of
  `Escrow` or a stutter.

**`CommunityProofs`**
- `ListenersAlwaysBelong`: inductive with the types of the channels, split into
  shared and private ones. A new private channel has an owner who had none, so that
  a logout, which closes the one channel of a player, leaves no channel without its
  owner.
- `CommunityTypes`, `PartiesAlwaysAgree`: the functions of `party.cpp` pass through
  states in which pointers do not agree (a leader has left and his party is about
  to be disbanded). The invariant is therefore stated of any value of the pointers
  and up to a set of parties about to go (`Linked`, `NoneEmpty`, `Sound`); one lemma
  for each function says what it makes of it.
- `PartiesOfThreeSurvive`: a party that has somebody left whoever goes (`Outlives`)
  is spared by each of these functions and keeps its other players (`Spared`).

**`CreatureProofs`** Four theorems (`CreatureTypes`, `ReferencesAlwaysExact`,
`PointersAlwaysLive`, `OnlyTheStoppedEverForgotten`) follow from one invariant, `Whole`
(`CreaturesStayWhole`). A handler is a nest of functions and folds over spectators, and
in the middle of it little is in order; so the invariant and the lemmas are stated of
any value of the creatures, one lemma for each function, from the counters up to
`Move`, `RemoveCreature` and the actions.
- `Good(w, c, P)` is what holds in the middle: every counter is what holds the
  creature (`Counted`), nobody is left with a counter of zero, masters and summons
  know each other (`Linked`), players and, but for the excused, the dead are checked
  (`Checked`), and
  whoever is attacked or followed is in the world and, unless his pursuer has yet to
  be told that c moved, in sight (`Watch`). P are those not told yet: `Move` starts
  with all spectators in it and ends with none. This is why nobody is attacked from
  out of sight, and why to tell those in sight of a removed creature is enough. Here
  it matters that sight is mutual (`NearAssumption`).
- `Orderly`: masters are in the world, and a summon has no summons. Neither is a
  property of the runs, but without the first a cleanup could delete a master whose
  summon still points to him, and without the second a summon that goes with its master
  would leave its own summons behind. Both hold because only a creature without a
  master summons, and a convinced monster loses its summons first (`WonAloneFine`).
- What a caller relies on after a call is a relation between the creatures before
  and after: `Tame` and `Quiet` (lists and aims may shrink or turn to somebody in
  sight; nobody comes, goes, moves or changes masters), `Left` (some have gone),
  `Joined` and `Bereft` (one master has changed, summons were killed). Each is closed
  under composition, so that a fold has it if each of its steps has (`FoldIn`).
- Deletions: `Reap` deletes in rounds, as destructors give references back;
  `DestroySound` says that a round keeps what matters, `ReapGood` that as many rounds
  as there are creatures leave nobody without a reference.
- `Fine` is `Good` with everybody told, and `Orderly`: what holds between two functions.
  `Whole` is `Fine` without the part about the dead, and makes up for it at each step:
  who lies forgotten before it is excused (`Excused`), and `Whole` gives `Fine`
  (`WholeIsFine`). Also excused is a monster that stops in this step (`Stopping`):
  alive at its turn, chasing, and attacking a player without a client. Everybody else
  who lies dead after the step is checked, which is `OnlyTheStoppedAreForgotten`. That
  the monster found by `Strike` is one of these takes a look back over its thoughts and
  first step: nothing there makes anybody attack a player without a client who did not
  before, or takes a client away (`Meek`, `After`; `ThinksExcused`).
- `KillIsRelease`: `KillSummons` empties the list of summons in the end only, so that
  counters are wrong in between. It is shown to do what taking the summons from their
  master one by one does.

### Only model-checked

Liveness (`AcceptedIsServed`, `ShutdownEnds`, `SignalStopsThreads`, `LoginAnswered`):
the prover has no support for fairness and `ENABLED`. Every invariant and action
property of a passing run is also proved.

## Not modelled

The components marked `not_modelled` in `PROJECT.json`, each with its reason. In
short: game rules computed from tables and scripts, file and database contents,
packet layouts, and what is planned below. Most of the source is of this kind:
bindings to Lua (14,000 lines), parsers of packets, items, maps and XML, and
formulas. A model of them would have no states to explore, or repeat them.

## Plan

1. `House` (`house.cpp` 346-407): ownership, the transfer document and the trade it
   rides on, composed with `Trade`.
2. The decay buckets of items (`Game::checkDecay`), which count references as the
   check lists of creatures do.
3. Composition of `Session` with the shutdown loop of `Server`.
