----------------------------- MODULE PrizeClaim -----------------------------
(***************************************************************************)
(* The prize screen of one browser (prize-controller.js, prizes.js): it    *)
(* reads the season, offers the claim, saves the signature before it       *)
(* broadcasts, and verifies it afterwards.  The vault is funded, so in an  *)
(* ended season a registered wallet may claim exactly until it has been    *)
(* paid; what the program pays is the subject of Season.                   *)
(*                                                                         *)
(* Reads and prompts take time, in which transactions land, their          *)
(* blockhashes run out, the wallet changes, and the screen goes away.  A   *)
(* prompt outlives the screen that asked for it.                           *)
(***************************************************************************)
EXTENDS Naturals, FiniteSets

CONSTANTS
  Wallets,   \* wallets that may be connected
  MaxClaims, \* claims put before the wallet
  None

Signatures == 1..MaxClaims

\* The controller: what it is at, and what it has read of the chain and of the
\* saved record, shown or still to be shown.
Doing == {"snapshot", "status", "height", "idle", "check", "simulate", "sign", "loading"}
Receipt == {"none", "pending", "received", "failed", "expired"}
Read == [claimable : BOOLEAN, record : Signatures \cup {None}]
Panel ==
  [owner : Wallets, doing : Doing, claimable : BOOLEAN,
   record : Signatures \cup {None}, receipt : Receipt, error : BOOLEAN, read : Read]

\* A claim, from the prompt to the block that finalizes it.
State == {"unused", "prompt", "sent", "paid", "refused", "paid final", "refused final"}

ASSUME PrizeClaimAssumption ==
  MaxClaims \in Nat /\ None \notin Wallets \cup Signatures \cup Panel

VARIABLES
  ended,     \* the season has ended, tally complete
  registered,\* wallets with a PlayerState, each with a prize to claim
  account,   \* the connected wallet, or None
  panel,     \* the controller of the mounted prize screen, or None
  saved,     \* localStorage: the signature each wallet last broadcast
  tx,        \* every claim that was put before a wallet
  over       \* claims whose last valid block is finalized

chainVars == <<ended, registered>>
prizeVars == <<chainVars, account, panel, saved, tx, over>>

Unused == [owner |-> None, state |-> "unused", live |-> FALSE]

Nothing == [claimable |-> FALSE, record |-> None]

\* What a new controller knows, while its first refresh reads the chain.
NewPanel(o) ==
  [owner |-> o, doing |-> "snapshot", claimable |-> FALSE, record |-> None,
   receipt |-> "none", error |-> FALSE, read |-> Nothing]

PrizeInit ==
  /\ ended = FALSE
  /\ registered \in SUBSET Wallets
  /\ account = None
  /\ panel = None
  /\ saved = [w \in Wallets |-> None]
  /\ tx = [s \in Signatures |-> Unused]
  /\ over = {}

Current == panel # None /\ account = panel.owner

-----------------------------------------------------------------------------
(***************************************************************************)
(* The chain.                                                              *)
(***************************************************************************)
PaidBy(w) == {s \in Signatures : tx[s].owner = w /\ tx[s].state \in {"paid", "paid final"}}

\* prizeQuote: what is left of the quote when season and vault stand.
Claimable(w) == ended /\ w \in registered /\ PaidBy(w) = {}

EndSeason ==
  /\ ~ended
  /\ ended' = TRUE
  /\ UNCHANGED <<registered, account, panel, saved, tx, over>>

\* A broadcast claim is executed, if ever; the program refuses a second one, and
\* may fail for a reason of its own.
LandClaim(s) ==
  /\ tx[s].state = "sent" /\ s \notin over
  /\ \E outcome \in {"paid", "refused"} :
       /\ outcome = "paid" => Claimable(tx[s].owner)
       /\ tx' = [tx EXCEPT ![s].state = outcome]
  /\ UNCHANGED <<chainVars, account, panel, saved, over>>

Final(state) ==
  CASE state = "paid" -> "paid final" [] state = "refused" -> "refused final"
    [] OTHER -> state

Finalize(s) ==
  /\ tx[s].state \in {"paid", "refused"}
  /\ tx' = [tx EXCEPT ![s].state = Final(@)]
  /\ UNCHANGED <<chainVars, account, panel, saved, over>>

\* The last block a claim is valid in is finalized, and with it the claim if it
\* was executed.
OutOfTime(s) ==
  /\ tx[s].state \in {"prompt", "sent", "paid", "refused"} /\ s \notin over
  /\ over' = over \cup {s}
  /\ tx' = [tx EXCEPT ![s].state = Final(@)]
  /\ UNCHANGED <<chainVars, account, panel, saved>>

-----------------------------------------------------------------------------
(***************************************************************************)
(* refresh.                                                                *)
(***************************************************************************)

\* The refresh button and the poll of a pending claim.
Refresh ==
  /\ Current /\ panel.doing = "idle"
  /\ panel' = [panel EXCEPT !.doing = "snapshot", !.error = FALSE]
  /\ UNCHANGED <<chainVars, account, saved, tx, over>>

\* The refresh ends and what it read is shown.
Shows(read, receipt, error) ==
  panel' = [panel EXCEPT !.doing = "idle", !.error = error,
              !.claimable = read.claimable, !.record = read.record,
              !.receipt = receipt, !.read = Nothing]

\* getPrizeSnapshot answers, and the saved record is looked up.
ReadSnapshot ==
  LET read == [claimable |-> Claimable(panel.owner), record |-> saved[panel.owner]] IN
  /\ Current /\ panel.doing = "snapshot"
  /\ IF read.record = None THEN Shows(read, "none", FALSE)
     ELSE panel' = [panel EXCEPT !.doing = "status", !.read = read]
  /\ UNCHANGED <<chainVars, account, saved, tx, over>>

\* getPrizeReceipt asks for the status of the signature first ...
ReadStatus ==
  LET state == tx[panel.read.record].state IN
  /\ Current /\ panel.doing = "status"
  /\ IF state = "sent"
       THEN panel' = [panel EXCEPT !.doing = "height"]
       ELSE Shows(panel.read, CASE state = "paid final" -> "received"
                                [] state = "refused final" -> "failed"
                                [] OTHER -> "pending", FALSE)
  /\ UNCHANGED <<chainVars, account, saved, tx, over>>

\* ... and, when there is none, for the finalized height.
ReadHeight ==
  /\ Current /\ panel.doing = "height"
  /\ Shows(panel.read, IF panel.read.record \in over THEN "expired" ELSE "pending", FALSE)
  /\ UNCHANGED <<chainVars, account, saved, tx, over>>

\* A read fails: without a snapshot everything stays as it was, without a
\* receipt the claim stays pending.
ReadFails ==
  /\ Current /\ panel.doing \in {"snapshot", "status", "height"}
  /\ IF panel.doing = "snapshot"
       THEN panel' = [panel EXCEPT !.doing = "idle", !.error = TRUE]
       ELSE Shows(panel.read, "pending", TRUE)
  /\ UNCHANGED <<chainVars, account, saved, tx, over>>

-----------------------------------------------------------------------------
(***************************************************************************)
(* claim.                                                                  *)
(***************************************************************************)

\* Receipts after which a saved claim does not stand in the way of another.
MayRetry(receipt) == receipt \in {"failed", "expired"}

Claim ==
  /\ Current /\ panel.doing = "idle" /\ ~panel.error
  /\ panel.claimable
  /\ panel.record # None => MayRetry(panel.receipt)
  /\ panel' = [panel EXCEPT !.doing = "check"]
  /\ UNCHANGED <<chainVars, account, saved, tx, over>>

\* The claim ends: with a record on the screen, by verifying it.
ClaimEnds(record, error) ==
  [panel EXCEPT !.doing = IF record # None THEN "snapshot" ELSE "idle",
                !.record = record, !.error = error /\ record = None]

\* The season is read again, and the transaction is built on a blockhash.
CheckAgain ==
  /\ Current /\ panel.doing = "check"
  /\ panel' = IF Claimable(panel.owner) THEN [panel EXCEPT !.doing = "simulate"]
                                        ELSE ClaimEnds(panel.record, TRUE)
  /\ UNCHANGED <<chainVars, account, saved, tx, over>>

\* The claim is simulated and put before the wallet.
Ask(s) ==
  /\ Current /\ panel.doing = "simulate" /\ Claimable(panel.owner)
  /\ tx[s].state = "unused" /\ \A r \in 1..(s - 1) : tx[r] # Unused
  /\ tx' = [tx EXCEPT ![s] = [owner |-> panel.owner, state |-> "prompt", live |-> TRUE]]
  /\ panel' = [panel EXCEPT !.doing = "sign"]
  /\ UNCHANGED <<chainVars, account, saved, over>>

\* A read fails, or the simulation reports that the claim would be refused.
ClaimFails ==
  /\ Current /\ panel.doing \in {"check", "simulate"}
  /\ panel' = ClaimEnds(panel.record, TRUE)
  /\ UNCHANGED <<chainVars, account, saved, tx, over>>

\* (Mutant of StillAsked: the owner is compared, the screen is not.)
OwnerAsked(s) == account = tx[s].owner

\* The screen that asked is still there, and so is its wallet.
StillAsked(s) == tx[s].live /\ account = tx[s].owner

\* (Mutant of SavedBy: the signature is saved when the broadcast is answered.)
SavedWhenHeard(s, heard) ==
  IF heard THEN [saved EXCEPT ![tx[s].owner] = s] ELSE saved

\* onSigned runs before the broadcast, whether that is heard of or not.
SavedBy(s, heard) == [saved EXCEPT ![tx[s].owner] = s]

\* What a claim that comes to nothing leaves on its screen, if that is there.
Cancelled(s) ==
  IF ~tx[s].live THEN panel
  ELSE IF Current THEN ClaimEnds(panel.record, TRUE)
  ELSE [panel EXCEPT !.doing = "idle"]

\* Nothing is sent, and nothing remembers the claim.
Drop(s) ==
  /\ tx' = [tx EXCEPT ![s] = Unused]
  /\ over' = over \ {s}
  /\ panel' = Cancelled(s)

\* The wallet signs and the claim is broadcast, whether that is heard of or not.
Approve(s) ==
  /\ tx[s].state = "prompt"
  /\ IF StillAsked(s)
       THEN \E heard \in BOOLEAN :
              /\ tx' = [tx EXCEPT ![s].state = "sent", ![s].live = FALSE]
              /\ saved' = SavedBy(s, heard)
              /\ panel' = IF tx[s].live
                            THEN [ClaimEnds(s, FALSE) EXCEPT !.receipt = "pending"]
                            ELSE panel
            /\ UNCHANGED over
       ELSE Drop(s) /\ UNCHANGED saved
  /\ UNCHANGED <<chainVars, account>>

\* The user declines, or localStorage refuses the record: nothing is sent.
Decline(s) ==
  /\ tx[s].state = "prompt"
  /\ Drop(s)
  /\ UNCHANGED <<chainVars, account, saved>>

\* An answer that comes while another wallet is connected is dropped: a refresh
\* stays in its loading state, a claim is given up.
AnswerDropped ==
  /\ panel # None /\ ~Current
  /\ panel.doing \in {"snapshot", "status", "height", "check", "simulate"}
  /\ panel' = [panel EXCEPT !.doing =
                 IF @ \in {"check", "simulate"} THEN "idle" ELSE "loading",
                         !.read = Nothing]
  /\ UNCHANGED <<chainVars, account, saved, tx, over>>

-----------------------------------------------------------------------------
\* The prize screen is mounted, and unmounted; both dispose of the controller
\* that was there, whose prompts are left behind.
LeftBehind == [s \in Signatures |-> [tx[s] EXCEPT !.live = FALSE]]
MountPrizes(o) == panel' = NewPanel(o) /\ tx' = LeftBehind
UnmountPrizes == panel' = None /\ tx' = LeftBehind

RefreshStep == ReadSnapshot \/ ReadStatus \/ ReadHeight
ClaimStep == Claim \/ CheckAgain \/ \E s \in Signatures : Ask(s)

PrizeAction ==
  \/ EndSeason
  \/ Refresh \/ RefreshStep \/ ReadFails
  \/ ClaimStep \/ ClaimFails \/ AnswerDropped
  \/ \E s \in Signatures :
       Approve(s) \/ Decline(s) \/ LandClaim(s) \/ Finalize(s) \/ OutOfTime(s)

-----------------------------------------------------------------------------
(***************************************************************************)
(* Properties.                                                             *)
(***************************************************************************)

\* However often a wallet claims, through reloads, lost answers and receipts
\* that come too late, at most one of its claims has landed or still can.
\* (prizes.js: "Unknown broadcast outcome: retain the signature and verify;
\* never resend blindly.")
MayLand(s) == tx[s].state \in {"paid", "paid final"} \/ (tx[s].state = "sent" /\ s \notin over)
OneClaimMayLand ==
  \A w \in Wallets : Cardinality({s \in Signatures : tx[s].owner = w /\ MayLand(s)}) <= 1

\* The signature of the claim that may pay, or has paid, is the one on record,
\* so that it can be found again after a reload.  (prize-screen.js: "Storage is
\* required before broadcasting so reloads cannot lose an uncertain claim.")
ClaimOnRecord ==
  \A s \in Signatures : MayLand(s) => saved[tx[s].owner] = s
=============================================================================
