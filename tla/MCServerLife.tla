---------------------------- MODULE MCServerLife ----------------------------
(***************************************************************************)
(* Three names and two passwords of different length, an empty one among   *)
(* them, and files as people write them.  Tables of users with and without *)
(* the row that main reads, with and without a name that main uses.        *)
(***************************************************************************)
EXTENDS ServerLife, TLC

a == 97
b == 98

MCUsers == {<<a>>, <<b>>, <<a, b>>, <<>>}
MCPasswords == {<<>>, <<a>>, <<b, a>>, <<a, b>>}

\* No account; an account, with and without the last LF as in the file of
\* the repository; names out of order; a line without a space.
MCInitialFiles ==
  {<<>>,
   <<a, Space, b, a, LF>>,
   <<a, Space, a>>,
   <<b, Space, a, LF, a, Space, b, a>>,
   <<a, b, LF, b, Space, LF>>}

MCInitialUsers ==
  {1 :> "anna", 1 :> "anna" @@ 3 :> "boris", 3 :> SecondName}

=============================================================================
