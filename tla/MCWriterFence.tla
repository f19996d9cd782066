---------------------------- MODULE MCWriterFence ----------------------------
(* Model values, scopes and environments for WriterFence. *)
EXTENDS WriterFence, TLC

CONSTANTS m1, m2, r1, s1, s2, null

Overlapping == {{s1}, {s1, s2}}
MCScopes == Overlapping \cup {{s2}}

None == [migrations |-> {}, scopes |-> {{s1, s2}}, retry |-> TRUE, kinds |-> {},
         faults |-> 1, restarts |-> 0, crashes |-> 1, reboots |-> 0, requests |-> 3]

\* two migrations compete for overlapping services
Rivals == {[None EXCEPT !.migrations = {m1, m2}, !.scopes = Overlapping, !.kinds = FaultKinds],
           [None EXCEPT !.migrations = {m1, m2}, !.scopes = Overlapping,
                        !.kinds = FaultKinds \ {"marker"}, !.crashes = 0, !.reboots = 1]}

\* one migration, whose services restart by themselves
Alone == {[None EXCEPT !.migrations = {m}, !.kinds = {"persist", "control"},
                       !.faults = 2, !.restarts = 1] : m \in {m1, m2}}

\* one migration, without crashes and without failing writes
Calm == {[None EXCEPT !.migrations = {m}, !.scopes = Overlapping, !.retry = FALSE, !.kinds = {"control"},
                      !.restarts = 2] : m \in {m1, m2}}

MCEnvironments == Rivals \cup Alone \cup Calm

\* one migration whose interrupted operations have to be finished
Recovering == {[None EXCEPT !.migrations = {m1}, !.kinds = {"control", "crash"}, !.restarts = 1,
                            !.requests = 2]}

\* two migrations on services of their own, and writes that fail
Failing == {[None EXCEPT !.migrations = {m1, m2}, !.scopes = {{s1}, {s2}}, !.kinds = {"persist"},
                         !.restarts = 1, !.requests = 2]}

PermMigrations == Permutations(Migrations)
=============================================================================
