SPECIFICATION Spec
CONSTANTS
  Ownership = {"syntheses", "synthesis_provo_edges"}
  Append = {"synthesis_jobs", "countersignatures"}
  Frozen = {"synthesis_shares"}
  ClaimVisible = {"synthesis_provo_edges", "countersignatures"}
  JobTable = "synthesis_jobs"
  EdgeTable = "synthesis_provo_edges"
  Kept = {"syntheses"}
  Names <- MCNames
  Rows = {r1, r2}
  Unpublishable = {r2}
  Sessions = {s1, s2}
  Targets = {5034, 5036}
  Worlds <- MCWorlds
SYMMETRY Symmetry
 
PROPERTIES OnlyKnownHistoryIsBuiltOn ReverseRestores VerifiedIsTenant BootsOnAWholeSchema
CHECK_DEADLOCK FALSE
