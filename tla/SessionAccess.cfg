SPECIFICATION Spec
CONSTANTS
  s1 = s1 s2 = s2 ra = ra rb = rb rf = rf
  NoUser = NoUser
  Nobody = Nobody
  Sessions = {s1, s2}
  Addrs = {"A", "B", "F"}
  Remotes = {ra, rb, rf}
  Users <- McUsers
  Login <- McLogin
  Reverse <- McReverse
  LocalOf <- McLocalOf
  Wanted <- OddWanted
  AllowReverse = TRUE
INVARIANTS
  AdmittedByTable
  EntryLeftHasCause
