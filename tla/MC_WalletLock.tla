--------------------------- MODULE MC_WalletLock ---------------------------
(* Model values for WalletLock.                                           *)
EXTENDS WalletLock

CONSTANTS w1, w2, p1, p2, none

(* One worker, every RPC and the GhostVault page.                         *)
OneWorker == {w1}
TwoWorkers == {w1, w2}
TwoPasses == {p1, p2}

OnePass == {p1}

AllRpcs == RpcNames

(* Only the RPCs that check under LOCK2, and the lock administration.     *)
Lock2Rpcs == LockedRpcs \cup AdminRpcs

(* A user of the Ensure-without-lock RPCs who also unlocks for staking.   *)
EnsureRaceRpcs == {"getsigmaseed", "walletpassphrase"}

(* Zerocoin spends on a staking-only unlock.                              *)
ZerocoinRpcs == {"spendzerocoin", "walletpassphrase"}

(* The GhostVault page beside an RPC user who unlocks, locks and sends.  *)
GuiRpcs == {"walletpassphrase", "walletlock", "sendtoaddress", "getsigmaseed"}

(* Unlocks and relock timers, on a wallet that may first be encrypted.   *)
UncheckedLockRpcs == RpcNames \ LockedRpcs

RelockRpcs == {"walletpassphrase", "encryptwallet"}
=============================================================================
