------------------------------ MODULE Identity -------------------------------
(***************************************************************************)
(* initialise_identity of kem_key_server.py and kem_key_client.py: the     *)
(* long-term ML-DSA key pair of each side, created once with               *)
(* --init-identity, and the copy of its public key that the operator gives *)
(* the other side.  The two functions are the same but for their paths.    *)
(***************************************************************************)
EXTENDS Naturals, FiniteSets

CONSTANTS
    Runs,              \* runs with --init-identity; a run's key pair has its name
    Missing, Empty,    \* no file; a file that was opened and not yet written
    Overlap            \* whether runs of one side may overlap

Sides == {"server", "client"}

OtherSide(s) == IF s = "server" THEN "client" ELSE "server"

ASSUME IdentityAssumption ==
    /\ Missing \notin Runs /\ Empty \notin Runs /\ Missing # Empty
    /\ Overlap \in BOOLEAN

VARIABLES
    private,           \* the private key file of each side
    public,            \* its public key file
    trusted,           \* the copy of it the other side trusts
    side,              \* the side of each run
    pc                 \* where each run is

vars == <<private, public, trusted, side, pc>>

Contents == Runs \union {Missing, Empty}
Working == {"checked", "private open", "private written", "public open"}
Places == Working \union {"waiting", "done", "refused", "killed"}

Init ==
    /\ private = [s \in Sides |-> Missing]
    /\ public = [s \in Sides |-> Missing]
    /\ trusted = [s \in Sides |-> Missing]
    /\ side \in [Runs -> Sides]
    /\ pc = [r \in Runs |-> "waiting"]

Step(r, from, to) == pc[r] = from /\ pc' = [pc EXCEPT ![r] = to] /\ UNCHANGED side

ExistsBoth(s) == private[s] # Missing /\ public[s] # Missing   \* mutant of Exists

\* The check for either file.
Exists(s) == private[s] # Missing \/ public[s] # Missing

MayStart(r) == Overlap \/ \A q \in Runs : side[q] = side[r] => pc[q] \notin Working

\* A run finds no file and creates its key pair, or refuses to.
Create(r) ==
    /\ Step(r, "waiting", "checked")
    /\ MayStart(r)
    /\ ~Exists(side[r])
    /\ UNCHANGED <<private, public, trusted>>

Refuse(r) ==
    /\ Step(r, "waiting", "refused")
    /\ MayStart(r)
    /\ Exists(side[r])
    /\ UNCHANGED <<private, public, trusted>>

WritePublicFirst(r) ==         \* mutant of OpenPrivate: the public key comes first
    /\ Step(r, "checked", "private open")
    /\ public' = [public EXCEPT ![side[r]] = r]
    /\ UNCHANGED <<private, trusted>>

\* write_private_file and write_public_file: the file is truncated, then written.
OpenPrivate(r) ==
    /\ Step(r, "checked", "private open")
    /\ private' = [private EXCEPT ![side[r]] = Empty]
    /\ UNCHANGED <<public, trusted>>

WritePrivate(r) ==
    /\ Step(r, "private open", "private written")
    /\ private' = [private EXCEPT ![side[r]] = r]
    /\ UNCHANGED <<public, trusted>>

OpenPublic(r) ==
    /\ Step(r, "private written", "public open")
    /\ public' = [public EXCEPT ![side[r]] = Empty]
    /\ UNCHANGED <<private, trusted>>

WritePublicOther(r) ==         \* mutant of WritePublic: the path of the other side
    /\ Step(r, "public open", "done")
    /\ public' = [public EXCEPT ![OtherSide(side[r])] = r]
    /\ UNCHANGED <<private, trusted>>

WritePublic(r) ==
    /\ Step(r, "public open", "done")
    /\ public' = [public EXCEPT ![side[r]] = r]
    /\ UNCHANGED <<private, trusted>>

\* A run is killed, or cannot write a file.
Kill(r) ==
    /\ pc[r] \in Working
    /\ pc' = [pc EXCEPT ![r] = "killed"]
    /\ UNCHANGED <<private, public, trusted, side>>

\* The operator copies a public key file to the other side.
Trust(s) ==
    /\ public[s] # Missing
    /\ trusted' = [trusted EXCEPT ![s] = public[s]]
    /\ UNCHANGED <<private, public, side, pc>>

RunStep(r) ==
    \/ Create(r)
    \/ Refuse(r)
    \/ OpenPrivate(r)
    \/ WritePrivate(r)
    \/ OpenPublic(r)
    \/ WritePublic(r)
    \/ Kill(r)

Next ==
    \/ \E r \in Runs : RunStep(r)
    \/ \E s \in Sides : Trust(s)

Spec == Init /\ [][Next]_vars

------------------------------------------------------------------------------
(* Properties                                                              *)

\* A key pair of a side never turns up in the other side's files.
OwnContents(s) == {r \in Runs : side[r] = s} \union {Missing, Empty}

TypeOK ==
    /\ private \in [Sides -> Contents] /\ \A s \in Sides : private[s] \in OwnContents(s)
    /\ public \in [Sides -> Contents] /\ \A s \in Sides : public[s] \in OwnContents(s)
    /\ trusted \in [Sides -> Contents] /\ \A s \in Sides : trusted[s] \in OwnContents(s)
    /\ side \in [Runs -> Sides]
    /\ pc \in [Runs -> Places]

\* A public key the other side trusts stays usable: its owner holds the private key of
\* the same pair, whichever runs were killed or repeated before and after.
TrustedHasPrivate ==
    \A s \in Sides : trusted[s] \in Runs => private[s] = trusted[s]

\* "Server identity already exists and has not been overwritten": no run replaces a
\* key that a file holds.
KeysKept ==
    [][\A s \in Sides :
          /\ private[s] \in Runs => private'[s] = private[s]
          /\ public[s] \in Runs => public'[s] = public[s]]_vars
==============================================================================
