------------------------------ MODULE MCRelay ------------------------------
\* Instances of Relay for TLC.
EXTENDS Relay, TLC

CONSTANTS c1, c2, c3, i1, i2, i3, a1, a2, r1, r2

\* Three connections, two of them behind one address.  The second is a tab of its
\* own or the first one reconnecting, under its id, and may change its id from one
\* join to the next.
IdChoice == c1 :> {i1} @@ c2 :> {i1, i2} @@ c3 :> {i3}

AddressTwo == c1 :> a1 @@ c2 :> a1 @@ c3 :> a2

\* Room names are interchangeable.
RoomSymmetry == Permutations({r1, r2})
=============================================================================
