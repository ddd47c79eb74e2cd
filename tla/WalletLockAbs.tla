--------------------------- MODULE WalletLockAbs ---------------------------
(***************************************************************************)
(* What the wallet RPCs promise about the encryption lock, with every RPC  *)
(* one atomic step.  The states are the four that getwalletinfo reports   *)
(* (rpcwallet.cpp 3390): "Unencrypted", "Locked", "Unlocked, staking       *)
(* only" and "Unlocked".                                                   *)
(*  - encryptwallet turns an unencrypted wallet into a locked one;         *)
(*  - walletpassphrase unlocks an encrypted wallet into the mode its       *)
(*    stakingonly argument asks for, and "issued while the wallet is       *)
(*    already unlocked" replaces the unlock in force;                      *)
(*  - walletlock and the relock timer lock an encrypted wallet;            *)
(*  - the keys are used only on an unencrypted or a fully unlocked wallet. *)
(* asked is the stakingonly argument of the unlock in force; lastUse is    *)
(* the last use of the keys: the caller, and the asked mode it ran under.  *)
(***************************************************************************)
EXTENDS TLAPS

CONSTANT Users    \* the callers that use the keys

VARIABLES status, asked, lastUse

absVars == <<status, asked, lastUse>>

Init ==
    /\ status \in {"plain", "locked"}
    /\ asked = FALSE
    /\ lastUse = [by |-> "none", stakingAsked |-> FALSE]

Encrypt ==
    /\ status = "plain"
    /\ status' = "locked"
    /\ UNCHANGED <<asked, lastUse>>

(* walletpassphrase with stakingonly = s.                                 *)
Unlock(s) ==
    /\ status # "plain"
    /\ status' = IF s THEN "staking" ELSE "full"
    /\ asked' = s
    /\ UNCHANGED lastUse

Lock ==
    /\ status # "plain"
    /\ status' = "locked"
    /\ UNCHANGED <<asked, lastUse>>

Use(b) ==
    /\ status \in {"plain", "full"}
    /\ lastUse' = [by |-> b, stakingAsked |-> asked]
    /\ UNCHANGED <<status, asked>>

Next == Encrypt \/ (\E s \in BOOLEAN : Unlock(s)) \/ Lock \/ \E b \in Users : Use(b)

Spec == Init /\ [][Next]_absVars

(* A wallet that spends is never one whose unlock asked for staking only, *)
(* and the last key use ran under an unlock not asked for staking only.   *)
SpendableNotStaking == status \in {"plain", "full"} => ~asked
UsedNotStaking == ~lastUse.stakingAsked
StakingInv == SpendableNotStaking /\ UsedNotStaking

(* "stakingonly: If true, sending functions are disabled" follows from    *)
(* the atomic promise: no key use ever happens under an unlock asked for   *)
(* staking only.                                                          *)
THEOREM NoStakingUse == Spec => []UsedNotStaking
<1>1. Init => StakingInv
  BY DEF Init, StakingInv, SpendableNotStaking, UsedNotStaking
<1>2. StakingInv /\ [Next]_absVars => StakingInv'
  BY DEF Next, Encrypt, Unlock, Lock, Use, StakingInv, SpendableNotStaking,
         UsedNotStaking, absVars
<1>3. StakingInv => UsedNotStaking
  BY DEF StakingInv
<1>4. QED
  BY <1>1, <1>2, <1>3, PTL DEF Spec

=============================================================================
