---------------------------- MODULE MCInteractive ----------------------------
(***************************************************************************)
(* The file manager and the contact books, each run by its user.  They     *)
(* share nothing, so no interleaving of them is of interest: one is used   *)
(* and the other never started.                                            *)
(***************************************************************************)
EXTENDS FileManager, ContactBook, TLC

(* Directories of one entry, exactly one page, exactly two pages, and two
   pages and a part; ".." of the root is the root. *)
Tree == "root" :> <<"root", "home">>
     @@ "home" :> <<"root", "full", "f", "sub", "f">>
     @@ "full" :> <<"home", "f", "f", "f">>
     @@ "sub"  :> <<"home">>

C(name, surename, number, nl) ==
  [name |-> name, surename |-> surename, number |-> number, nl |-> nl]

(* The files a first start may find: none, an empty one, one out of order
   with a blank line, and one without the last newline. *)
Some == {Missing,
         <<>>,
         <<<<C(2, 1, -1, TRUE)>>, <<>>, <<C(1, 1, -2, TRUE)>>>>,
         <<<<C(2, 1, -1, TRUE)>>, <<C(2, 1, -2, TRUE)>>,
           <<C(1, 2, -3, FALSE)>>>>}

EitherInit == Init /\ BookInit

EitherNext == \/ BookInit /\ Next /\ UNCHANGED bookVars
              \/ Init /\ BookNext /\ UNCHANGED vars

EitherSpec == EitherInit /\ [][EitherNext]_<<vars, bookVars>>
=============================================================================
