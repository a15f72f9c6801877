-------------------------- MODULE MCTransferProof --------------------------
(***************************************************************************)
(* The proof run on command lines that each differ from the plain one in   *)
(* one thing it distinguishes.  Amounts are in hundredths of a lamport and *)
(* the context keeps three digits: of the amounts above 1000 it rounds     *)
(* 1001 and 1199 to whole lamports, and 1015 to no whole ones.             *)
(***************************************************************************)
EXTENDS TransferProof

Plain ==
    [network |-> None, amount |-> 200, destination |-> "key", rpcArg |-> "devnet",
     rpcEnv |-> None, signature |-> None, prepareOnly |-> FALSE, noPage |-> FALSE]

MCArguments ==
    {Plain, [Plain EXCEPT !.prepareOnly = TRUE], [Plain EXCEPT !.signature = "s1"],
     [Plain EXCEPT !.signature = "secret"], [Plain EXCEPT !.rpcEnv = "other"],
     [Plain EXCEPT !.noPage = TRUE], [Plain EXCEPT !.rpcArg = None], [Plain EXCEPT !.rpcArg = "mainnet"],
     [Plain EXCEPT !.network = "mainnet"], [Plain EXCEPT !.network = "tokyo"],
     [Plain EXCEPT !.destination = "evm"]}
    \cup {[Plain EXCEPT !.amount = n] : n \in {None, -100, 0, 50, 1001, 1015, 1300}}
    \cup {[Plain EXCEPT !.amount = n, !.prepareOnly = TRUE] : n \in {1199, 1200}}
=============================================================================
