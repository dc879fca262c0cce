----------------------------- MODULE MCSessions ------------------------------
EXTENDS Sessions, TLC

CONSTANTS a, b, s1, s2, s3

MCSids == {s1, s2, s3}

Mix(of_a, of_b, remember, logins, time, fails) ==
  [ops |-> a :> of_a @@ b :> of_b, remember |-> remember, logins |-> logins, time |-> time,
   fails |-> fails]

\* Logins and uses of a session beside everything that reads or writes sessions, some of them with calls
\* that fail.
MCMixes == {
  Mix({"login"}, {"login"}, {TRUE}, 3, 1, TRUE),
  Mix({"validate"}, {"login"}, {FALSE}, 2, 2, FALSE),
  Mix({"login", "validate"}, {"logout"}, {FALSE}, 2, 2, FALSE),
  Mix({"login", "validate"}, {"list"}, {TRUE}, 1, 3, FALSE),
  Mix({"login", "validate"}, {"revoke"}, {TRUE}, 2, 1, FALSE),
  Mix({"login", "validate"}, {"logout_all"}, {FALSE}, 2, 2, FALSE),
  Mix({"login", "validate"}, {"invalidate"}, {TRUE}, 1, 3, FALSE),
  Mix({"login", "validate"}, {"activate"}, {TRUE}, 1, 2, TRUE),
  Mix({"validate", "login"}, {"activate"}, {TRUE}, 1, 3, FALSE),
  Mix({"login"}, {"logout_all", "invalidate", "prune"}, {TRUE}, 2, 1, TRUE),
  Mix({"login"}, {"prune"}, BOOLEAN, 2, 2, FALSE),
  Mix({"login", "me"}, {"rename"}, {TRUE}, 1, 2, FALSE),
  Mix({"login", "me"}, {"rename"}, {TRUE}, 1, 1, TRUE),
  Mix({"login", "validate"}, {}, {TRUE}, 1, 4, TRUE)
  }

Symmetry == Permutations(MCSids)
=============================================================================
