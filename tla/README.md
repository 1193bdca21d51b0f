# 0xARK in TLA+

Specifications of 0xARK, a card duel played on Solana: the `oxark` program
(`src/solana/oxark/programs/oxark`), which owns duels, cards, the prize season and
the history of every card; the multiplayer server (`src/multiplayer`), which sells
paid endpoints and relays messages between players; and the browser client
(`src/solana/client`), which plays a duel, claims a prize and keeps a wallet's
screens. TLC checks small instances; TLAPS proves the theorems listed below for
every value of the constants.

Run everything from this directory: `tlc -config MCDuel_rounds.cfg MCDuel` checks a
run, `tlapm DuelProofs.tla` checks a proof. `PROJECT.json` lists the runs, the
lines of code every definition stands for, a mutant of the code for every property
(TLC finds the property violated when the mutant replaces the definition), the
hazards, and the places where the code and its documentation disagree.

## The system

| component | state it keeps | operations | what is hard about it | modelled in |
|---|---|---|---|---|
| Duel lifecycle | `DuelState`: seats, round, commitments, reveals, wins, verdict, clock anchors | `init_duel`, `commit_hand`, `reveal_hand`, `claim_timeout_win` | two wallets interleave over five rounds; no handler compares a round with everything it should; a timeout races the late move; the last round | `Duel`, `Match`, `DuelFairness` |
| Battle loot | `BattleLootClaim`, the loser's and winner's vaults | `claim_battle_loot` | several duels over the same vaults; cards committed elsewhere disappear | `Duel` |
| Energy | `PlayerState.energy`, `last_energy_regen_at` | spend at first commit, regeneration, `refill_energy` | rounding of intervals at the cap | `EnergyMath`, `Duel` |
| Prize season | `GameWorld`: status, participants, recorded pool, tally and its cursor; the pool account; deposits | `register_waitlist`, `set_waitlist_deadline`, `activate_season`, `finalize_season_tally`, `end_season_final`, `claim_prize_v2` | a tally over several transactions; a cursor that cannot go back; divisions that round; claims in any order | `Season`, `PrizeMath`, `SeasonFairness` |
| Collection | vault bitmaps, listings, legendary progress | `buy_pack`, `create_listing`, `accept_listing`, `cancel_listing`, `check_legendary` | cards must not move under the tally, and escrow has to come back after the end | `Season` |
| Card provenance | `CardBattleHistory`, `CardMintRecord`, settlement bitmaps | `settle_duel_history`, `update_card_battle_history`, `grant_imprint`, `promote_card`, `record_card_owner_change(_with_steal)`, `register_card_mint` | credit by two players, for several copies, in any order; thresholds crossed once; a ring of owners; nested leases | `Provenance` |
| Paid endpoints | Redis keys `sig:*`, `nonce:*`; requests in flight | the x402 verification, `consumePayment`, dispatch | awaits between every check and its use; Redis failing half way; keys that expire | `Payments` |
| Lobby and matchmaking | rooms, the queue, `ws.roomId` | authenticate, create, join, enqueue, cancel, close | a waiter leaves its room while queued; connections lost before their close event; rooms deleted by the last to leave | `Rooms` |
| Damage consensus | `roundClaims`, `violationLog` | `duel_battle_resolved`, `duel_damage_claim`, GC | claims in either order, repeated, from third members and other rooms | `DamageConsensus` |
| Battle screens of the client | the battle state of each browser: screen, round, tally, sealed hand, opponent's hand; transactions in flight, relayed hands | confirm, `initDuel`, `commitHand`, `lockIn`, `revealHand`, replay, `_chainResolve`, `_onClaimTimeout`, `advanceRound`, reload | two browsers over one account; a transaction that lands unheard; a salt that must survive until the reveal; messages of the wrong round; polls that race the stall timeout | `BattleClient` (over `Duel`) |
| Prize claims of the client | the controller of the prize screen, `localStorage` records, transactions | `refresh`, `claim`, `onSigned`, receipts | a prompt outlives its screen; a broadcast nobody heard of; a receipt read before the block | `PrizeClaim` |
| Application shell of the client | mounted screen, cached collection, generations | connect, start, register, navigate, disconnect, wallet events | every read may be overtaken by another read, by navigation or by another wallet | `AppShell` (over `PrizeClaim`) |
| Damage calculation, card data | none | `damage_calc`, `damageCalc`, passives | three copies of one long calculation; seats must be equal | `BattleCalc` |
| Groth16, Poseidon | none | pure functions | arithmetic out of a model checker's reach | no, constants of `Duel` |
| Legendary claims | Gold Hall records, win records | `legendary.rs` | claim limits per season | no |
| NFT cards program | market escrow of NFTs | `oxark-cards` | escrow of a token against a price | no |
| Sessions, decks, levels, titles, lore, agents | one account per owner | single-step record keeping | nothing interacts | no |
| Season migration, `burn_card` | | one-off and unreachable instructions | | no |
| Transaction relay, movement, rate limits | counters per socket and address | forward, clamp, count | each message stands alone | no |
| State derivation | none (a fold over memos) | `deriveState` | a pure function of an ordered list | no |
| Other screens, AI agent, scripts, assets, legacy | | | one screen, one request, or outside the running system | no |

The components meet in shared accounts: duels read and change the vaults the season
tallies; `settle_duel_history` reads finished duels; the season freezes the vaults by
`require_collection_open`. The server shares nothing with the program but the chain
it reads payments from, and "holds no game authority" (`server.js:462`). The browser
sends the program's transactions and polls its accounts; what two browsers tell each
other goes through the rooms of the server and is never trusted for a result.

What makes each component correct, beyond types:

* a duel's rounds are played in order and once; its tally is a replay of the
  reveals; every verdict follows from the reveals or from something the loser still
  owed; a duel never stays open with nothing left to do; entry is charged once;
* the tally is that of the vaults at the end, counts everybody once, the pool can
  pay every claim in any order, and a claim is worth the rank it was won with;
* a duel adds at most one win per species whatever its players settle; marks and
  rarity follow the counters; nothing of a history is ever lost;
* a payment is consumed once and serves only its payer, at the endpoint it names;
* no room goes away under a connected player, nobody waits in vain, two players who
  wait are matched, and the two of a match share a room;
* a host's damage report and a claim that contradicts it never go unlogged;
* a browser is never ahead of the account and shows its verdict, keeps the hand that
  opens its commitment, and shows no hand before the chain does;
* at most one claim of a wallet can ever land, and a reload finds it again;
* no answer that comes late puts another wallet's collection on the screen;
* no rule of a round favours a seat; only the bytes of the seed do.

## Modules

**`Duel`** translates the handlers in `instructions/` over five arrays indexed by
duel: `seat`, `round`, `commitment`, `revealed`, `wins`, with `ended` and `winner`.
A play stands for the ten card ids and the salt, `Seal` for
`compute_hand_commitment`, `Provable` for what the circuit accepts, `Field` for the
ids `reveal_hand` looks up in the vault, `BattlePower` for `damage_calc`. Timestamps
occur in the code as differences from an anchor only, so the model keeps ages
(`idle`, `regenAge`) that stop growing where waiting longer changes nothing; clocks
that run backwards are left out. `EnergyMath` is the regeneration arithmetic.

**`Match`** is the abstract best-of-N game: rounds scored one at a time, decided
matches that never change, forfeits. `Duel` implements it under the mapping at the
end of `Duel` (`played`, `score` and `result` from the reveals and the verdict).

**`DuelFairness`** states progress for a set `Honest` of players.

**`PrizeMath`** is the arithmetic of `finalize_season_tally`, `end_season_final` and
`claim_prize_v2`: tiers, the carry-over of empty bands, whole-lamport divisions.
**`Season`** is the account machine around it; the pool account, which anybody may
send lamports to, is kept apart from what `GameWorld` records. Players are numbered
in key order, which is the order the tally's cursor enforces. **`SeasonFairness`**
adds the careful administrator and the players who claim.

**`Provenance`** keeps two records per mint and the finished duels they are credited
from. Steals compare arguments of the caller with one another, so for the model any
kind passes with some arguments. Losses, summons, fees and the times of ownership,
which nothing reads, are left out, and so are the holders of the token, whom these
handlers (but for `promote_card`'s own signer) never look at.

**`Payments`** runs several requests through the awaits of `_verifyX402Payment`, one
action per await, against a chain, a Redis that comes and goes and a server that
restarts. Payments are named by their signature and carry payer, endpoint, nonce and
whether they succeeded and paid enough. The development-only in-memory store, the
demo mode without a treasury and the polling branch, which the HTTP handler can no
longer reach (it answers a request without a signature with a quote), are left out.

**`Rooms`** has one client per WebSocket connection: open, then no longer writable,
then closed. The handlers and the close event change rooms, `ws.roomId` and the
queue, and as the server is one JavaScript process and none of them awaits, each is
one step. The queue is a set of pairs of a client and the room made for it: room ids
count up, so the ids give its order. What was announced to the clients is kept as
history (`entered`, `waiting`, `matches`), for the server forgets it. A connection
that is no longer open sends nothing. A restart of the server closes every
connection and empties every map at once, so it leads back to `Init`.
**`DamageConsensus`** extends it with the claims of the rounds and the violation log:
its `Next` is a step of the rooms, a claim, a report or the collection of a round,
and its `Spec` implements `RoomSpec`. Both deltas of a claim are one value, and a
round is one key, as in the code, without the room it was fought in.

**`BattleClient`** extends `Duel` with the two browsers of one duel: the screens
preparation, interruption, reveal and loot, the shared battle state, the transaction
each awaits, those in the air, and the hands on their way through the relay. A call
is simulated, signed and sent, and its answer may be lost; a transaction lands by
executing the handler of `Duel`, or without effect. Meanwhile the program goes on
(`Elsewhere`): other duels, loot, energy, the season, whatever leaves this duel's
account alone. `salted` says whether a hand still has the salt it was sealed with,
which a reload loses; `robbed` is the history of hands that lost a card to loot after
they were put up. `Steady` names the browsers without accidents. Matchmaking, the buttons of the result screen, practice duels and
paid intelligence are left out.

**`PrizeClaim`** is the prize screen: a controller that reads the season and the saved
record, offers the claim, saves the signature before the broadcast and verifies it
afterwards; claims go from the prompt to the finalized block, or expire.
**`AppShell`** extends it with the screens, the cached collection and the wallet. A
request carries whether it is still of the current generation, which is all the code
compares. `PRIZE_CLAIMS_ENABLED` is `false` in this commit; the model has the claims
on, as the code is written and tested.

**`BattleCalc`** is the battle of a round, from two hands and a seed to two totals, as
pure operators in the order of the steps of `damage-calc.js` and `damage_calc.rs`.
`Replayed` is what the second player's browser makes of it, with its own hand first.

`MC*` modules and their `.cfg` files are the instances. `*Proofs` hold the proofs.
Definitions whose comment says "Mutant of" are wrong on purpose and unused: they are
the bugs the properties are tried against.

## Runs

| run | question | states |
|---|---|---|
| `duel_rounds` | one duel of four rounds and three wins with one honest player, after an earlier one, and the loot of both: order, tally, verdicts, append-only, refinement of `Match`, charges, losses, and it ends | 136,426 |
| `duel_hostage` | a statement of the documentation the program does not keep | violated |
| `season_prizes` | three players, packs, loot, awards, donations, batches in any order: tally, solvency, ranks | 805,670 |
| `season_escrow` | two players, listings in and out, a deadline that moves, a pool so small that prizes round to 0: escrow and the tally, and under a careful administrator every escrowed card comes back, and the season ends unless more collections are complete than the tally can count | 7,220 |
| `provenance_history` | two copies of a species and two duels, self-played ones included, or one card through three changes of owner, recorded from any signer with any source, with leases, grants and promotions | 102,193 |
| `payments_replay` | two payments with one nonce, two requests for either of two wallets and endpoints, outages and restarts, until keys have expired | 1,912,510 |
| `relay_rooms` | three connections in up to three rooms, one of which may be lost: who is where, who waits, who was matched, and a round of damage claims over the rooms that result | 695,603 |
| `client_duel` | both browsers through a duel of two rounds, the guest without accidents, the host with every accident there is, and loot of another duel that may hit the guest's hand: the guest follows the account, and reaches the result unless that loot holds it up | 323,857 |
| `client_rounds` | a statement of the lobby screen the client does not keep | violated |
| `client_app` | two wallets in one browser, two requests of the shell and two claims under way: whose screen, and how many claims | 1,484,809 |
| `battle_math` | fifteen thousand battles of three cards a side: both browsers' fights where the seed breaks ties alike, any order of the hand, and the rules of barriers and of Void | 31,974 |
| `battle_replay` | a statement of the documentation the browsers do not keep where initiatives tie | violated |

Bounds, and why they are enough:

* `duel_rounds` has three wins as in the code and four rounds instead of five: a
  duel can still be won with rounds to spare, won in its last round, or run out of
  rounds undecided, and the liveness check fits (the proofs need no such bound). Two
  plays give every outcome of a round. A handler touches one duel account, so what two
  duels share is energy and vaults only. To have both, a duel `d2` of the same wallets
  comes first, which one of them wins in three rounds; the window opens when `d1` is
  over too, and `d2` is paid out before `d1`. Both duels charge both wallets, whose
  energy is back before the loot, and the loser of both has fewer cards each time. The
  two duels of `duel_hostage` overlap instead and are one round long. The stall
  timeout is one tick: the code compares the age with it once.
* With three cards, a full vault is the champions' tier, two cards band 2 and one
  card band 5; bands 3 and 4 stay empty, so every season carries shares over, and
  three players can tie, lead or leave every tier. `season_escrow` has `FullMax` 1 for
  the 255 complete collections a `u8` counts, so that two players reach the limit.
* Updates of two wins jump over one threshold or both; a ring of two and three
  changes of owner give a full ring and a dropped owner. `CountMax` (3) is where the
  counters saturate, `MaxChanges` and `Horizon` bound the recorded changes and the
  clock. `provenance_history` explores duels and changes of owner apart: they meet in
  the length of the ring and in the promotion gates only, and the second family has
  both, with wins from the administrator. Grants appear with at most one duel.
* The times of `Payments` are scaled: `MaxAge` 1, `MaxAhead` 1, `Patience` 1 and
  `Ttl` 4 stand for 300 s, 30 s, the longest wait in the server and 3600 s. What
  counts is their order, `MaxAge + MaxAhead + Patience < Ttl`, and a `Horizon` of 6
  lets a key expire with requests still coming. Requests, copies of a card, duels and
  wallets are symmetric where nothing else distinguishes them.
* `relay_rooms`: three connections are a waiter, the one it is matched with and a
  third who meddles; a third room lets a client hold two rooms and wait in one more.
  One connection is lost at most, which is enough to leave a stale entry in front of
  a live one, a room with its guest alone, and a report of somebody gone. To keep the
  state space small, players authenticate before anybody enters a room or not at all,
  and claims about rounds come once the queue is empty, in two rooms at most, from
  authenticated players. The proofs of `Rooms` and `DamageConsensus` have none of
  these bounds.

* `client_duel`: two rounds are a round that continues and a last one. Each client
  has one duel, so a third browser adds nothing; two plays, one beating the other,
  tell own hands from rival ones and won rounds from lost ones. The duel whose loot is
  in question was won by the host, so the loot can hit the guest, who is the one without
  accidents; it is taken while the guest still prepares or has a hand put up that is
  not revealed, and while the host has no other transaction open. No energy is bought,
  the season does not end, and the loot of the duel itself is not claimed.
* `client_app`: with two wallets a late read can bring back the other's collection;
  two claims are one that was left behind and one more; two requests are one that is
  overtaken and the one that overtakes it.
* `battle_math`: hands of three let three Engineers meet, and can tie within a side,
  between the sides, both, or not at all; with five cards a side and initiatives from 0
  to 5 some tie is certain, so what is said of the two browsers' fights must not exclude
  ties: it speaks of 2,280 of these battles, 1,788 of which have some. The thirteen cards have every action, passive and initiative of the
  table between them, and the three seeds are flat, falling and scattered bytes.

Fairness. The chain does nothing by itself: `DuelFairness` asks that the clock
advances and that an honest player's client sends every transaction of its own the
program keeps accepting (weak fairness per duel and player), and nothing at all of
the opponent. `SeasonFairness` asks the same of the administrator who runs the tally
in key order, as `scripts/season-prize-operator.mjs` does, and of players who claim
or cancel. Without that order a batch that skips a player strands the season: the
cursor never goes back and the count can never be complete. The program leaves this
to the operator, so it is an assumption of `season_escrow`, not a result.
`ClientFairness` asks that time passes, and that a browser in `Steady` does what its
screen offers (polls, timers and buttons) and has its transactions executed, which the
network does within a blockhash's life; leaving the result screen is no duty, and
nothing is asked of the other browser. `NoStallSpec` has the same without the clock.

## What the checks show

The duel machine keeps its promises for any interleaving, also when one wallet sits
in both seats. `reveal_hand` does not compare its round with the duel's; that rounds
nevertheless are revealed in order follows from what could be committed
(`RoundsInOrder`), and it is an invariant one has to find: see below. The season's
money is right to the lamport: rounding is always down, escrowed cards neither
escape the tally nor create claims, and the order of claims does not matter. A win
is engraved at most once per species, over all copies. A payment is consumed once
although the checks and the consumption are several awaits apart, and although the
keys that remember it expire: the age limit on proofs closes the gap. A room lives
for as long as anybody who entered it is connected, since the close event takes a
player out of one room only; so a waiter can always be matched in the room made for
it, whatever rooms it visits while queued, and the answer "Room expired" of
`matchmaking.js:36` never comes. A claim that contradicts the host's report is logged
whichever of the two arrives first.

A browser never leaves the round of the account it plays on by more than the bridge
it is about to cross, and the result it shows is the account's, whatever its replay
said; the sealed hand survives until it opens the commitment, except through a reload.
A hand is shown before the account has it in two cases only: the duel was over, or
loot of another duel took a card of it after it was put up. In the second, the
transaction may pass its simulation and still be refused by `reveal_hand.rs:139`;
`tx.js:66` reads no error, and `reveal.js:115` relays the hand (`NothingShownEarly`).
A guest reaches the result of every duel the host is not awarded, unless that loot
holds it up. A host has no such promise: see `client_rounds`.

The prize screen sends at most one claim that may land per wallet although prompts
outlive the screens that asked, because a signature is saved before it is broadcast
and a new claim waits for the old one's last block to be finalized. No rule of the
resolver favours a seat. Which bytes of the seed are read, and which way a coin falls,
does depend on the seat: where they break the ties alike from both, the second
player's browser replays the fight the program resolved, and nowhere else need it.

The season ends under a careful administrator unless more than 255 complete
collections are deposited: `winner_60_count` is a `u8` and every batch that would
count the 256th fails (`finalize_season_tally.rs:63`).

Where the code is wrong, or differs from its documentation, with a counterexample:

* loot won in one duel can take a card committed in another, whose honest owner can
  then neither reveal nor claim the timeout (`duel_hostage`; `README.md:56`);
* the host's browser calls `initDuel` before every `commitHand`, which the program
  refuses once the account exists, so the host seals no hand after round 1 and the
  duel ends by the stall timeout (`client_rounds`; `preparation.js:443`);
* with a tie of initiative the second player's browser, which puts its own hand first,
  reads other bytes of the seed than the program, or reads the coin for the other side,
  and replays a fight with other totals (`battle_replay`; `README.md:204`).

Seen while reading, and not a run because one line shows it and no sequence of steps
is involved: the ring of owners takes whichever wallet signs and its dropped count
starts only when the ring is full (`README.md:73` and `:74` describe holders and a
number of changes); `promote_card` asks for more than the thresholds of the table at
`README.md:79`, see `PromotionAllowed`; a win is tied to a mint by its species, not
by who held it; the packed sum of a hand is not range-checked again at the reveal, so
`Seal` is not assumed injective. A hand may be revealed before the opponent has
committed (`reveal_hand.rs:59` asks for the own commitment only; `README.md:10` says
hands are hidden until both are locked in). Threshold marks pass the limit of stat
imprints (`update_card_battle_history.rs:124` and `:180`), and a second lease
overwrites the wallet a card returns to (`record_card_owner_change.rs:216`).
`burn_card` derives `SeasonStats` from the eight bytes of a timestamp and
`init_season_stats` from four, so no account fits and `burn_card` cannot succeed; it
is not modelled. `settle_duel_history` counts no knockouts, which the last promotion
asks for. Rooms a player has moved on from are not deleted when it disconnects, as
`ws.on('close')` looks at `ws.roomId` alone. A waiter who went to another room while
queued is announced as host of the room of the match, but its messages still go to
the other room, for a match sets `ws.roomId` of the newcomer only. The
"`duel_battle_resolved` (broadcast after consensus)" of `docs/SERVER_WIRING_PLAN.md:84`
means that no claim received so far disagrees: a report that comes first is
broadcast at once. `redis-store.js:8` gives nonce keys 60 s, `consumePayment` gives them an
hour; the model has the hour.

In the client: the program resolves a round with the actions of the table, so the
actions a player picks never count, while the browser replays its own hand with them
which differs from "the exact same fight" of `README.md:204` in one more way than
`battle_replay` has it: `Replayed` takes the actions of the table. On equal totals the
browser names a winner by the seed where the program scores nobody. The battle state in
`sessionStorage` is not keyed by wallet. Two tabs of one browser share `localStorage`
but not the controller, so two tabs can each put a claim before the wallet; the
program pays one of them. The poll of a pending claim is not armed again after a
refresh that failed.

## What is proved

Every theorem holds for all values of the constants that satisfy the module's
`ASSUME`: any number of players, duels, cards, wallets, payments and requests.

**`DuelProofs`**. The invariant is `IInv`: types, and for every duel `DuelInv`, the
conjunction of `Seated` (a duel without an account is blank), `InOrder` (rounds
before the current one are fully revealed, later ones blank, reveals only of what is
committed), `Undecided` (an open duel has a round to play) and `Justified`. `InOrder`
is why it is needed: the handler's guards alone would admit a reveal of another
round. `DuelInv(d)` depends on one account, so the step lemmas treat that account
and carry the others over. From it: `TypesAreKept`, `PlayIsInOrder`,
`DecidedDuelsEnd`, `VerdictsAreJustified`, and the action property `HistoryIsKept`.
`DecidedDuelsEnd` (`OpenMeansUndecided`) is a strengthening no run lists.

Three theorems count over sets that grow. `TalliesReplay`: a reveal that completes
round r adds r to the rounds its winner's reveals have won and changes no other, by
`InOrder` again, so the cardinality moves with the counter. `EntriesArePaidOnce`: a
commitment of round 1 enters the duel, is charged, and no later call can be the first
again. `LossesAreBounded`: what a wallet started with is at most what it has and a card
for each looted duel it lost; a claim moves one from the first to the second, once per
duel, and a duel that ended keeps its seats and its verdict.

`DuelsImplementMatches` is `Spec => DuelsAreMatches`: a reveal that completes a round
is `PlayRound`, a timeout is `Forfeit`, everything else a stutter.

**`BattleClientProofs`** proves the four invariants of the two browsers, and
`ClientsObeyProgram`, `ClientSpec => Spec`: a browser changes the account only by a
transaction the program accepts, so all of `DuelProofs` holds of its duel. `ClientInv`
adds to `IInv`, for each client: `Awaited`, an awaited call was asked for by the mounted
screen, for its round; `Follows`, the account is not behind the client, nothing of the
client is sealed or in the air for a later round, and a bridge is up only while the
account waits for the client in the round the bridge names (which is why the bridge
cannot go stale: a round without the client's seal cannot be resolved); `OnePlay`, in a
round at most one play of the client is revealed or on its way to be, which makes a
second reveal after a lost confirmation harmless; `RevealUnderWay`, a reveal that was
sent, and so passed the simulation, is still acceptable when it lands, or done, or the
duel is over, or the hand was robbed of a card meanwhile, so these are all the refusals
that the unread error field of a confirmation can hide; `CommitUnderWay`
the same of a commitment, for a client without accidents, whose only commitment in the
air is the one it awaits. One lemma for each screen step, through frames for the parts
it leaves alone; and one for each instruction that lands, where `RevealEffect` and
`StepAppends` of `DuelProofs` say what the account does. For the steps `Elsewhere`, the
account stands still and a vault that loses a card of a hand put up adds to `robbed`;
a first commitment that is under way stays affordable since the others spend nothing of
a steady client's energy (`EnergyKept`). The assumption beyond those of
`Duel` is that `None` is neither a call nor a bridge.

**`SeasonProofs`** proves all four invariants of `season_prizes` and `PoolCoversRecord`.
`CountersCount` ties the counters to sets: participants are the deposits, processed the
tallied, and no tallied player is above the cursor, hence an ascending batch is disjoint
from them and cardinalities add up. That the cursor, the maximum of a batch, is a
maximum at all needs that a finite set of naturals has one; it is proved by a minimal
counterexample in the well-founded order of finite sets.

The prizes are sums over sets of players. `SumFunctionOnSet` is a fold of the library,
a recursive function over the subsets of a set, and the induction theorems of the
library cannot be instantiated; but its argument is a function, not an operator, so
facts about it can be stated and proved by minimal counterexamples too: that the
recursion has a solution and only one (`SumsAreSum`, `SumIsUnique`), that any element
may be taken out first (`SumRemove`), and from there disjoint unions, equal summands,
scaled bounds and sums that are zero. On these rest

* `TallyMatchesVaults`. `TallyTwice`: a second batch of other players leaves what one
  count of both would (maximum, number of maxima, sums of the bands). Cards move only
  while nobody is tallied, so the count never goes stale (`TallyInv`).
* `PrizesFollowRank`. `ClosedTally`: after `CloseTally` the champions are the members of
  tier 1 and each band's total is the sum over its members, also when a timeout moves
  champions out of their band; so `EffectiveShare` carries over the same shares as the
  promise and `PrizeIsPromised` follows. `EntitlementsKept`: a registered player's vault
  has its final size and nothing was paid, any other has been paid its promise; outsiders
  have no cards before the end (`CardsInv`), hence were promised nothing.
* `Solvent`. `SharesFit`: the shares of two populated tiers come from different tiers.
  `TierFits`: a tier pays no more than its part, rounding down. So the promises fit in
  the pool at the end (`PromisesFit`), and afterwards a claim takes as much from what is
  owed as from the pool (`OwedAfter`).

The assumptions are those on the constants: at most 100 percent in `BandShare`
(`claim_prize_v2.rs` has 50, 25, 15, 8 and 2), falling thresholds in `BandMin`, and as
many cards in a complete collection as there are.

**`PaymentsProofs`** proves `TypeOK`, `ConsumedOnce`, `NonceOncePerWindow` and
`ServedAsPaid`. The invariant relates three clocks. A request past the checks read
its proof at most `Patience` ago and the proof was then at most `MaxAge` old
(`RequestInv`); the keys of a consumed payment live until at least
`block + Ttl - MaxAhead` (`KeysOutliveProof`). So a request that finds the keys of
its payment gone is later than `block + MaxAge + Patience`, which it cannot be. The
assumptions are that Redis loses no keys before they expire and that no request
waits longer than 3270 s between reading a proof and consuming it.

**`ProvenanceProofs`** proves all of `Provenance`. `TypesAreKept` and
`HistoryIsContinuous` come from one frame per handler: what a handler writes is what
was there, or a later value; marks are only ever appended, by `TryGrant`.
`TiersAreEarned` and `MarksAreEarned` need that counters never fall. For
`LatestOwnersAreKept` the ring is a window over the sequence of all owners, so a push
is the beginning of a longer sequence. `WinsAreEngravedOnce` needs `credited`, a
history variable that names the mint each win of a species went to: `CreditInv` says
a mint's wins are at most the duels credited to it plus the administrator's, and the
settlement record of a duel and its player is what makes a second credit impossible.

**`AppShellProofs`** proves the four promises of the browser: the two of `PrizeClaim`
from `PrizeInv`, the two of `AppShell` from `ShellInv`. In `PrizeInv`,
`PromptsAreWatched` says that a prompt whose screen is alive is the one the controller
waits for and that nothing of its wallet may land meanwhile; `PanelKnows`, that what
the controller has read of the record is what is saved, and that it offers another
claim only if none is pending. Prompts left behind are harmless because `StillAsked`
looks at the screen and not only at the wallet. `ShellInv` adds what a mounted screen
stands on (`Mounted`), that on the wallet's own screens nothing is cached
(`SessionCleared`), and that while a screen of the game is up only `home` may still
read (`OnlyHomeReads`), so a late answer has nothing left to commit.

**`RelayProofs`** proves the four promises of `Rooms`. The invariant is `IInv`: types;
`EnteredRoomsLive`; `InEntered`, a client is in a room it entered; `FreshIds`, ids from
`nextRoomId` on are unused; `QueueHosts`, an entry of the queue is of the host of its
room; `WaitersQueued`; `WaitersArePaired`; `MatchesEntered`. `NobodyForgotten` and
`MatchesShareRoom` follow by combining the entries of the queue and of the matches
with `EnteredRoomsLive`: they speak of rooms, and a room is only known to be there
because whoever entered it is still listed. `FreshIds` is what keeps a new room from
overwriting one of those.

For the damage check it proves `Spec => RoomSpec`, which makes those four hold of the
composition, and `MismatchIsLogged`, inductive given the types: whoever comes second
finds the entry of the first, and a claim names the host it was sent to, so it does
not matter where the two went since.

**`BattleCalcProofs`** proves the three properties of `BattleCalc` for every table of
cards, every pair of hands of up to five cards and every seed; a run can only try three
cards a side and three seeds. `BattleInv` is small, since the totals are computed in
one step: hands and seed stay, and the totals are `Resolved` of them. The work is in
what `Resolved` computes, and goes from the bottom up:

* *Sorts.* Both pick by `CHOOSE` the card before which n others come. `IsOrder`: the
  comparison by initiative, byte and slot is a strict total order; `RankIsTaken`,
  `RankIsOwn`: its ranks are a bijection with 0..n-1, so each choice exists, is the
  only one, and every card acts exactly once (`LinedIs`, `ActionOrderIs`).
* *Actions.* `after` is a recursive function over the turns. `ActionsAre` builds it by
  induction, in the form that speaks of a set of numbers (`InductionOverNat`, from the
  well-foundedness of `<`), and shows that every turn leaves fields of cards. `Effect`
  is what one turn does to one card; nothing changes an action or an initiative
  (`RunKeeps`), so what a card is to do and when is settled before the first turn.
* `ActionsKeepRules`: along the turns, a barrier stands exactly if it was raised with no
  storm after it so far, or stood at the start with no storm so far (`Standing`); at
  the end all have acted. For blocked cards, two fights that differ only in the actions
  of blocked cards stay alike but for these in every turn.
* `GuestSeesTheFight`: the condition of the property says that the bytes read from
  either seat order the ties within a side alike (`LinesAlike`), so both line up the same
  cards (`EitherLine`), and those between actors too (`TurnsAlike`), so swapping the
  seats maps the one order of turns to the other (`RankMoves`, by counting the cards
  ahead). Then every turn does the same to the same card, seen from over the table
  (`Over`), and the pairs meet with the same lead, as cards that face each other do not
  tie.
* `OrderDoesNotMatter`: any bijection of the slots may rearrange a hand. The auras count
  cards of a side, so a rearranged side gets them rearranged (`AurasArranged`), and
  lining up undoes it (`LinedArranged`). Intimidate looks at the slots before that and
  is excluded, as in the property; so are ties within the side, which the seed breaks by
  slot.

`BattleAssumption` asks of a line of the table only what the struct `CardData` of
`card_data.rs` says, and of a hand that it has no more than five cards: the bytes of
the seed from 16 and from 24 on serve ten turns and five pairs.

Only model-checked: liveness (`StalledDuelEnds`, `DuelReachesResult`, `SeasonEnds`,
`EscrowReturned`), under the fairness stated above,
which is out of the prover's reach.
`TypesAreKept` (of `DuelProofs`, `ProvenanceProofs`),
`PaymentsTyped` and `SeasonPoolCoversRecord` are proved and not listed by a run.

## Not modelled

* The pairing arithmetic of Groth16 and the Poseidon permutation: out of a model
  checker's reach. `Seal`, `Provable` and `Field` stand for what they establish.
* `burn_card` has no state it can run in; `migrate_season_prizes` and
  `reset_player_state` run once, by an administrator.
* Sessions, decks, levels, titles, achievements, lore and agents: a few checks and
  assignments on an account of one owner. Nothing interacts.
* `oxark-cards` and the legendary claims of the Gold Hall: single transactions on
  accounts nothing of the above reads.
* The relay of transactions, positions, chat and rate limits: each message alone.
* `deriveState`, the fold over memos: nothing in the running server depends on it.
* The remaining screens, the AI agent, scripts, assets, `legacy`.

The map names the lines a definition stands for. Much of the repository is rendering,
copy, generated art, tables and account plumbing (`tx.js`, `pda.js`), which hold no
state of their own, so the share of all lines it covers stays small.

## Plan

1. `DuelSettlement`: `Duel` composed with `Provenance`, so that settled duels are
   those the duel machine produces, and with the vaults of `Season`.
2. The Gold Hall: legendary win records and claim limits; then the market of
   `oxark-cards`; then `deriveState` over short lists of memos.
3. An abstract pairing of players that `Rooms` implements.
