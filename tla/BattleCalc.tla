----------------------------- MODULE BattleCalc -----------------------------
(***************************************************************************)
(* The battle of one round, as reveal_hand resolves it and as the browser  *)
(* replays it: damage-calc.js and the passive abilities of abilities.js,   *)
(* with their copies damage_calc.rs and tools/ai-agent.  No flow burns a   *)
(* card in battle, and no card carries an imprint, so burn effects and the *)
(* Seer's bonus are left out, as in damage_calc.rs.                        *)
(*                                                                         *)
(* The program gives every card the action of the table of cards.  The     *)
(* browser puts its own hand first, whichever seat it has in the duel.     *)
(***************************************************************************)
EXTENDS Integers, FiniteSets, SequencesExt

CONSTANTS
  HandSize,  \* cards a player fields (5)
  Table,     \* the table of cards: [id -> [faction, bp, hp, ini, action, legendary, passive]]
  Hands,     \* hands that are put forward, sequences of ids
  Seeds,     \* SHA-256 of the salts and the round: [0..31 -> 0..255]
  None

Factions == {"knight", "merchant", "pirate", "scholar", "monk", "engineer"}
ActionTypes == {"crystal", "barrier", "flame", "storm", "shadow", "void"}
PassiveAbilities ==
  {"knight_aura", "merchant_gold_aura", "pirate_intimidate", "scholar_imprint_scale",
   "monk_soul_harvest", "engineer_overclock"}

\* A line of the table.
CardData ==
  [faction : Factions, bp : 0..255, hp : 0..255, ini : 0..255, action : ActionTypes,
   legendary : BOOLEAN, passive : PassiveAbilities \cup {"none"}]

ASSUME BattleAssumption ==
  /\ HandSize \in 1..5
  /\ \A id \in DOMAIN Table : Table[id] \in CardData
  /\ Hands \subseteq [1..HandSize -> DOMAIN Table]
  /\ Seeds \subseteq [0..31 -> 0..255]

Seats == 1..2
Slots == 1..HandSize
Opp(s) == 3 - s
Across(x) == <<Opp(x[1]), x[2]>>

VARIABLES
  hands,  \* the two hands revealed
  seed,   \* the seed of the round
  totals  \* p1_bp_total and p2_bp_total, or None before the second reveal

vars == <<hands, seed, totals>>

-----------------------------------------------------------------------------
\* A field is the sequence of its cards, with what the battle does to them; a
\* function of the slots written out as such a sequence.
Row(f) == SubSeq(f, 1, HandSize)

\* A card as it enters the battle, with the action of the table.
Fresh(id) ==
  LET c == Table[id]
  IN [faction |-> c.faction, bp |-> c.bp, hp |-> c.hp, ini |-> c.ini, action |-> c.action,
      legendary |-> c.legendary, passive |-> c.passive,
      bpMod |-> 0, barrier |-> FALSE, shadow |-> FALSE]

Fields(h) ==
  LET field(s) == Row([i \in Slots |-> Fresh(h[s][i])])
  IN <<field(1), field(2)>>

(***************************************************************************)
(* Step 0.5: the passive abilities.  Each adds to cards of its own side or *)
(* takes from the card in the same slot of the other, so their order is    *)
(* of no consequence.                                                      *)
(***************************************************************************)
With(f, passive) == {i \in Slots : f[i].passive = passive}
Of(f, faction) == {i \in Slots : f[i].faction = faction}

KnightAura(f, i) ==
  IF f[i].faction = "knight" THEN Cardinality(With(f, "knight_aura") \ {i}) ELSE 0
GoldAura(f) ==
  IF \E i \in Slots : f[i].legendary THEN Cardinality(With(f, "merchant_gold_aura")) ELSE 0
Overclock(f, i) ==
  IF f[i].faction = "engineer" /\ Cardinality(Of(f, "engineer")) >= 3
    THEN 2 * Cardinality(With(f, "engineer_overclock")) ELSE 0

\* (Mutant of Intimidated: only the second player's cards are intimidated.)
IntimidatedSecond(F, s, i) == s = 2 /\ F[1][i].passive = "pirate_intimidate"

Intimidated(F, s, i) == F[Opp(s)][i].passive = "pirate_intimidate"

Passives(F) ==
  LET field(s) ==
        Row([i \in Slots |->
          [F[s][i] EXCEPT
             !.bpMod = KnightAura(F[s], i) + GoldAura(F[s]) + Overclock(F[s], i),
             !.hp = @ - (IF Intimidated(F, s, i) THEN 3 ELSE 0),
             !.barrier = With(F[s], "monk_soul_harvest") # {}]])
  IN <<field(1), field(2)>>

(***************************************************************************)
(* Step 1: the cards of each side line up by initiative, ties broken by    *)
(* the seed and then by slot.                                              *)
(***************************************************************************)
Earlier(ini1, key1, pos1, ini2, key2, pos2) ==
  \/ ini1 > ini2
  \/ ini1 = ini2 /\ key1 < key2
  \/ ini1 = ini2 /\ key1 = key2 /\ pos1 < pos2

\* (Mutant of Lined: the cards stay in the slots they were put in.)
NotLined(f, sd, offset) == f

Lined(f, sd, offset) ==
  LET ahead(i) == {j \in Slots : Earlier(f[j].ini, sd[offset + j - 1], j,
                                         f[i].ini, sd[offset + i - 1], i)}
  IN Row([p \in Slots |-> f[CHOOSE i \in Slots : Cardinality(ahead(i)) = p - 1]])

(***************************************************************************)
(* Step 3: the actions, all cards in order of initiative.                  *)
(***************************************************************************)
Position(who) == (who[1] - 1) * HandSize + who[2] - 1
ActsBefore(F, sd, x, y) ==
  Earlier(F[x[1]][x[2]].ini, sd[16 + Position(x)], Position(x),
          F[y[1]][y[2]].ini, sd[16 + Position(y)], Position(y))
ActionOrder(F, sd) ==
  LET All == Seats \X Slots
  IN [n \in 1..(2 * HandSize) |->
        CHOOSE x \in All : Cardinality({y \in All : ActsBefore(F, sd, y, x)}) = n - 1]

\* The targets of Void are collected before anybody acts, blocked or not.
Blocked(F, s, i) == F[Opp(s)][i].action = "void"

\* (Mutant of Storm: barriers stand through it.)
StormAtBarriers(f) == Row([j \in Slots |-> [f[j] EXCEPT !.bpMod = @ - 2]])

Storm(f) == Row([j \in Slots |-> [f[j] EXCEPT !.bpMod = @ - 2, !.barrier = FALSE]])

Act(F, s, i) ==
  IF Blocked(F, s, i) THEN F
  ELSE CASE F[s][i].action = "crystal" -> [F EXCEPT ![s][i].bpMod = @ + 5]
         [] F[s][i].action = "barrier" -> [F EXCEPT ![s][i].barrier = TRUE]
         [] F[s][i].action = "flame"   -> [F EXCEPT ![Opp(s)][i].hp = @ - 5]
         [] F[s][i].action = "storm"   -> [F EXCEPT ![Opp(s)] = Storm(@)]
         [] F[s][i].action = "shadow"  -> [F EXCEPT ![s][i].shadow = TRUE]
         [] OTHER -> F

Actions(F, sd) ==
  LET order == ActionOrder(F, sd)
      after[n \in 0..(2 * HandSize)] ==
        IF n = 0 THEN F ELSE Act(after[n - 1], order[n][1], order[n][2])
  IN after[2 * HandSize]

(***************************************************************************)
(* Steps 4 and 5: each pair fights, and the power of the survivors counts. *)
(***************************************************************************)
Power(c) == IF c.bp + c.bpMod > 0 THEN c.bp + c.bpMod ELSE 0

Hit(c, by) ==
  IF c.barrier THEN [c EXCEPT !.barrier = FALSE] ELSE [c EXCEPT !.hp = @ - Power(by)]

\* The first strikes, and the second, if it lives, strikes back.
Clash(first, second) ==
  LET struck == Hit(second, first)
  IN <<IF struck.hp > 0 THEN Hit(first, second) ELSE first, struck>>

Pair(a, b, byte) ==
  IF a.shadow \/ b.shadow THEN <<a, b>>
  ELSE IF a.ini > b.ini \/ (a.ini = b.ini /\ byte < 128) THEN Clash(a, b)
  ELSE Reverse(Clash(b, a))

Combat(F, sd) ==
  LET pairs == Row([i \in Slots |-> Pair(F[1][i], F[2][i], sd[24 + i - 1])])
  IN <<Row([i \in Slots |-> pairs[i][1]]), Row([i \in Slots |-> pairs[i][2]])>>

Total(f) == SumFunctionOnSet([i \in Slots |-> Power(f[i])], {i \in Slots : f[i].hp > 0})

\* The cards lined up for their actions.
Ready(h, sd) ==
  LET F == Passives(Fields(h))
  IN <<Lined(F[1], sd, 0), Lined(F[2], sd, 8)>>

\* damage_calc.
Resolved(h, sd) ==
  LET F == Combat(Actions(Ready(h, sd), sd), sd)
  IN <<Total(F[1]), Total(F[2])>>

\* What the browser of the second player replays, with the actions of the table:
\* damageCalc with its own hand first.
Replayed(h, sd) == Reverse(Resolved(Reverse(h), sd))

-----------------------------------------------------------------------------
Init ==
  /\ hands \in [Seats -> Hands]
  /\ seed \in Seeds
  /\ totals = None

\* The second reveal of a round resolves it.
RevealHand ==
  /\ totals = None
  /\ totals' = Resolved(hands, seed)
  /\ UNCHANGED <<hands, seed>>

Spec == Init /\ [][RevealHand]_vars

-----------------------------------------------------------------------------
(***************************************************************************)
(* Properties.                                                             *)
(***************************************************************************)
Ini(h, s, i) == Table[h[s][i]].ini

\* The browser of the second player, which puts its own hand first, sees the
\* fight the program resolved: no rule of the battle favours a seat, only the
\* bytes of the seed that are read do.  So this holds when they order the ties
\* within a side and those between actors alike from both seats, and no cards
\* that face each other tie.
LinesAlike(h, sd) ==
  \A s \in Seats, i, j \in Slots :
    Earlier(Ini(h, s, i), sd[i - 1], i, Ini(h, s, j), sd[j - 1], j) <=>
      Earlier(Ini(h, s, i), sd[8 + i - 1], i, Ini(h, s, j), sd[8 + j - 1], j)
TurnsAlike(F, sd) ==
  \A x, y \in Seats \X Slots :
    ActsBefore(F, sd, x, y) <=> ActsBefore(Reverse(F), sd, Across(x), Across(y))
FacesApart(F) == \A i \in Slots : F[1][i].ini # F[2][i].ini
SeenAlike(h, sd) ==
  LinesAlike(h, sd) /\ TurnsAlike(Ready(h, sd), sd) /\ FacesApart(Ready(h, sd))
GuestSeesTheFight ==
  totals # None /\ SeenAlike(hands, seed) => Replayed(hands, seed) = totals

\* README.md: "so neither player can influence it alone, and the client can replay
\* the exact same fight for animation."
ExactSameFight == totals # None => Replayed(hands, seed) = totals

\* The order a player puts the cards in is of no consequence when initiative
\* alone lines them up, except that Intimidate looks at the slots before that.
Distinct(h, s) == \A i, j \in Slots : Ini(h, s, i) = Ini(h, s, j) => i = j
Rearranged(hand, r) == Row([i \in Slots |-> hand[r[i]]])
OrderDoesNotMatter ==
  \A s \in Seats, r \in Bijection(Slots, Slots) :
    /\ totals # None /\ Distinct(hands, s)
    /\ \A t \in Seats, i \in Slots : Table[hands[t][i]].passive # "pirate_intimidate"
    => Resolved([hands EXCEPT ![s] = Rearranged(@, r)], seed) = totals

\* A card goes into combat behind a barrier exactly if it has raised one that no
\* storm has torn down since, or the Elder's holds because no storm came at all.
BarrierRule ==
  totals # None =>
    LET F == Ready(hands, seed)
        acts(s, i, action) == F[s][i].action = action /\ ~Blocked(F, s, i)
        storms(s) == {<<Opp(s), j>> : j \in {k \in Slots : acts(Opp(s), k, "storm")}}
        G == Actions(F, seed)
    IN \A s \in Seats, i \in Slots :
         G[s][i].barrier <=>
           \/ acts(s, i, "barrier") /\ \A x \in storms(s) : ActsBefore(F, seed, x, <<s, i>>)
           \/ F[s][i].barrier /\ storms(s) = {}

\* A card that is blocked might as well have no action, also when it is a Void
\* itself: it then blocks a card that had nothing else to do.
BlockedDoesNothing ==
  totals # None =>
    LET F == Ready(hands, seed)
        idle(s) == Row([i \in Slots |->
                     IF Blocked(F, s, i) THEN [F[s][i] EXCEPT !.action = "none"] ELSE F[s][i]])
        G == Combat(Actions(<<idle(1), idle(2)>>, seed), seed)
    IN <<Total(G[1]), Total(G[2])>> = totals

\* What the rules say of actions that undo one another, whoever comes first.
ActionsKeepRules == BarrierRule /\ BlockedDoesNothing
=============================================================================
