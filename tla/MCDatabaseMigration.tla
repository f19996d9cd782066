------------------------ MODULE MCDatabaseMigration ------------------------
EXTENDS DatabaseMigration, TLC

CONSTANTS m1, m2

\* one binding for the target, which both migrations use
OneBinding == [m \in {m1, m2} |-> 1]

\* the source has the owner's own privileges; besides, a reader with grant option, which the
\* PostgreSQL role map merges into the owner; or a grant to everybody
SomeAcls ==
  {{[who |-> "owner", opt |-> FALSE], [who |-> "reader", opt |-> TRUE]},
   {[who |-> "owner", opt |-> FALSE], [who |-> "PUBLIC", opt |-> FALSE]}}

Symmetry == Permutations({m1, m2})
=============================================================================
