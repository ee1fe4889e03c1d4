----------------------------- MODULE MCServices -----------------------------
(***************************************************************************)
(* Instances of the controller's background services: check publication,   *)
(* intake, access derived from the forge, and the object store with its    *)
(* copy and backup.  They share no state that the modules keep: each       *)
(* behaviour is one of a single service, named by part, while the others   *)
(* rest in an initial state.                                               *)
(***************************************************************************)
EXTENDS Checks, Intake, ForgeAccess, Objects

VARIABLE part  \* the service of this behaviour

services == {"checks", "intake", "forge", "objects"}

Outbox(rows, unwritable, unparkable, undecodable, gens, n) ==
    [rows |-> rows, unwritable |-> unwritable, unparkable |-> unparkable,
     undecodable |-> undecodable, gens |-> gens, troubles |-> n]

NoOutbox == Outbox(<<>>, {}, {}, {}, 1, 0)

\* One row with many generations, or with enough troubles to spend the budget of
\* a verdict; a row that is a store's or a decoder's trouble, beside one that is
\* not.
MCOutboxes ==
    {NoOutbox,
     Outbox(<<"a">>, {}, {}, {}, 4, 2),
     Outbox(<<"a">>, {}, {}, {}, 2, 3),
     Outbox(<<"bad", "good">>, {"bad"}, {}, {}, 2, 1),
     Outbox(<<"bad", "good">>, {"bad"}, {"bad"}, {}, 2, 1),
     Outbox(<<"bad", "good">>, {}, {}, {"bad"}, 2, 1)}

Scene(moves, open, tries, binds, m, polled) ==
    [moves |-> moves, open |-> open, tries |-> tries, binds |-> binds,
     mishaps |-> m, polled |-> polled]

NoScene == Scene(1, 1, 1, 1, 0, FALSE)

\* Pushes alone; pushes and polls of a remote that is bound again; both, with
\* a mishap.
MCScenes ==
    {NoScene,
     Scene(3, 2, 2, 1, 0, FALSE),
     Scene(2, 1, 2, 3, 0, TRUE),
     Scene(2, 2, 1, 1, 1, TRUE)}

World(lanes, changes, moves, n, m) ==
    [lanes |-> lanes, changes |-> changes, moves |-> moves, asks |-> n, mishaps |-> m]

NoWorld == World({}, {}, 0, 0, 0)

\* Each lane with its changes, two each, and both lanes with one.
MCWorlds ==
    {NoWorld,
     World({"reconcile"}, {"inst", "repo"}, 2, 1, 1),
     World({"members"}, {"member", "access", "inst"}, 2, 1, 1),
     World({"reconcile", "members"}, {"inst", "repo"}, 1, 0, 0)}

Setting(threads, stages, reads, fails, backups, kills) ==
    [stagers |-> threads, stages |-> stages, reads |-> reads, fails |-> fails,
     backups |-> backups, kills |-> kills]

NoSetting == Setting({}, 0, 0, 0, 0, 0)

\* Stagers against the storage pass and the replicator; readers and a backup
\* among them.
MCSettings ==
    {NoSetting,
     Setting({1, 2}, 3, 0, 1, 0, 1),
     Setting({1}, 2, 2, 0, 1, 0)}

servicesVars == <<part, checkVars, intakeVars, forgeVars, objectVars>>

ServicesInit ==
    /\ part \in services
    /\ ChecksInit  /\ (outbox = NoOutbox <=> part # "checks")
    /\ IntakeInit  /\ (scene = NoScene <=> part # "intake")
    /\ ForgeInit   /\ (world = NoWorld <=> part # "forge")
    /\ ObjectsInit /\ (setting = NoSetting <=> part # "objects")

ServicesNext ==
    /\ UNCHANGED part
    /\ \/ part = "checks"  /\ ChecksNext  /\ UNCHANGED <<intakeVars, forgeVars, objectVars>>
       \/ part = "intake"  /\ IntakeNext  /\ UNCHANGED <<checkVars, forgeVars, objectVars>>
       \/ part = "forge"   /\ ForgeNext   /\ UNCHANGED <<checkVars, intakeVars, objectVars>>
       \/ part = "objects" /\ ObjectsNext /\ UNCHANGED <<checkVars, intakeVars, forgeVars>>

\* A service at rest has nothing to be fair to.
ServicesSpec ==
    /\ ServicesInit /\ [][ServicesNext]_servicesVars
    /\ ChecksFair /\ IntakeFair /\ ForgeFair
=============================================================================
