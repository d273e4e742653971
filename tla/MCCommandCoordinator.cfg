\* One command and one repository: two replacements of a runner, in any order, with
\* histories over the one log root or in memory.
CONSTANTS
  Runners = {r1, r2, r3}
  Ids = {i1}
  Clients = {c1}
  Roots = {d1}
  Memory = memory
  NoOne = noone
  Repos = {1}
SPECIFICATION Spec
INVARIANTS RegistryTypeOK ResolveFindsOwner ResolveFindsRecord
CONSTRAINT RegistryFirst
SYMMETRY Symmetry
CHECK_DEADLOCK FALSE
