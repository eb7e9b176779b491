------------------------------- MODULE MCDaily --------------------------------
(* The notification loop and the daily books: two loops of the web app that *)
(* share nothing but the store, each explored with the other at rest.       *)
EXTENDS Notices, Books

VARIABLE focus

MCInit == Init /\ BooksInit /\ focus \in {"notices", "books"}
MCNext ==
    /\ UNCHANGED focus
    /\ \/ focus = "notices" /\ Next /\ UNCHANGED booksVars
       \/ focus = "books" /\ BooksNext /\ UNCHANGED vars
MCSpec == MCInit /\ [][MCNext]_<<vars, booksVars, focus>>
=============================================================================
