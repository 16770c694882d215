--------------------------- MODULE MC_IcpAccounts ---------------------------
(***************************************************************************)
(* The ICP accounts of a user and the operations with hardware wallets, for*)
(* TLC.  They share no state: a behaviour is one of them, and the variables*)
(* of the other keep an initial value.  One property is temporal: no       *)
(* symmetry.                                                               *)
(***************************************************************************)
EXTENDS IcpAccounts, HardwareWallet

CONSTANTS a1, a2

VARIABLE part      \* the part that this behaviour is about

allVars == <<part, vars, walletVars>>

AllInit ==
    \/ part = "accounts" /\ Init /\ InitWallets /\ attached = {}
    \/ /\ part = "wallets" /\ InitWallets /\ attached \in {{}, Wallets}
       /\ Init /\ known = {} /\ ~forced

AllNext ==
    \/ part = "accounts" /\ Next /\ UNCHANGED <<part, walletVars>>
    \/ part = "wallets" /\ NextWallets /\ UNCHANGED <<part, vars>>

AllSpec == AllInit /\ [][AllNext]_allVars
=============================================================================
