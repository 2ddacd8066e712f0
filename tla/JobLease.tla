------------------------------ MODULE JobLease ------------------------------
(***************************************************************************)
(* What the queue promises the rest of the system, with no table and no    *)
(* call in sight: a job is held by at most one worker at a time, only its  *)
(* holder ends it or gives it back, it ends at most once, it is taken at   *)
(* most `allowed` times, and a job whose holder dies stays where it is     *)
(* until an operator puts it back (there is no lease expiry).              *)
(***************************************************************************)
EXTENDS Integers

CONSTANTS Jobs, Workers, MaxAttempts

VARIABLES
  phase,     (* [Jobs -> Phases]                                           *)
  holders,   (* [Jobs -> SUBSET Workers]: who runs the job                 *)
  taken,     (* [Jobs -> Nat]: how often it was taken                      *)
  allowed    (* [Jobs -> Nat]: how often it may be taken                   *)

leaseVars == <<phase, holders, taken, allowed>>

Results == {"complete", "failed"}
Phases == {"none", "waiting", "held", "stranded"} \cup Results

LeaseInit ==
  /\ phase   = [j \in Jobs |-> "none"]
  /\ holders = [j \in Jobs |-> {}]
  /\ taken   = [j \in Jobs |-> 0]
  /\ allowed = [j \in Jobs |-> MaxAttempts]

Submit(j) ==
  /\ phase[j] = "none"
  /\ phase' = [phase EXCEPT ![j] = "waiting"]
  /\ UNCHANGED <<holders, taken, allowed>>

Take(j, w) ==
  /\ phase[j] = "waiting" /\ holders[j] = {} /\ taken[j] < allowed[j]
  /\ phase'   = [phase EXCEPT ![j] = "held"]
  /\ holders' = [holders EXCEPT ![j] = {w}]
  /\ taken'   = [taken EXCEPT ![j] = @ + 1]
  /\ UNCHANGED allowed

\* The holder lets go: the job ends, waits again, or is stranded.
LetGo(j, w, p) ==
  /\ phase[j] = "held" /\ holders[j] = {w}
  /\ p = "waiting" => taken[j] < allowed[j]
  /\ phase'   = [phase EXCEPT ![j] = p]
  /\ holders' = [holders EXCEPT ![j] = {}]
  /\ UNCHANGED <<taken, allowed>>

PutBackLease(j) ==
  /\ phase[j] = "stranded"
  /\ phase'   = [phase EXCEPT ![j] = "waiting"]
  /\ allowed' = [allowed EXCEPT ![j] = @ + 1]
  /\ UNCHANGED <<holders, taken>>

LeaseNext ==
  \E j \in Jobs :
    \/ Submit(j) \/ PutBackLease(j)
    \/ \E w \in Workers :
         \/ Take(j, w)
         \/ \E p \in Results \cup {"waiting", "stranded"} : LetGo(j, w, p)

LeaseSpec == LeaseInit /\ [][LeaseNext]_leaseVars
=============================================================================
