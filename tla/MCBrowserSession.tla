-------------------------- MODULE MCBrowserSession --------------------------
(* Instances of BrowserSession for TLC. *)
EXTENDS BrowserSession, TLC

CONSTANTS r1, r2, f1, f2, alice, bob

OneRequest  == {r1}
TwoRequests == {r1, r2}
OneFamily   == {f1}
TwoFamilies == {f1, f2}
Principals  == {alice, bob}
OwnerOfOne  == f1 :> alice
OwnerOfTwo  == f1 :> alice @@ f2 :> bob

AllKinds == Kinds
\* A private read spends the handle and fails the way a mutation does.
AllButReads == Kinds \ {"read"}
Switches == {"mutate", "logout", "callback"}

\* Requests are interchangeable, and so are the two sign-ins with their owners.
SignInsSwapped == f1 :> f2 @@ f2 :> f1 @@ alice :> bob @@ bob :> alice
SignInsKept    == f1 :> f1 @@ f2 :> f2 @@ alice :> alice @@ bob :> bob
Symmetry == {requests @@ signIns : requests \in Permutations(TwoRequests),
                                   signIns \in {SignInsKept, SignInsSwapped}}
=============================================================================
