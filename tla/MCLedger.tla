------------------------------- MODULE MCLedger -------------------------------
(* Four kinds of database a deploy starts from, each with the steps that   *)
(* matter to it: one to be migrated by two overlapping sessions, one with  *)
(* legacy rows to be re-owned, one that is booted while it is undone, and  *)
(* one migrated long ago and changed by hand since.                        *)
EXTENDS Ledger, TLC

NoSteps == [run |-> 0, adopt |-> 0, verify |-> 0, undo |-> 0, foreign |-> 0, write |-> 0, derive |-> 0,
            backfill |-> 0, boot |-> 0, death |-> 0]

World(recorded, shape, data, binaries, steps) ==
  [ledger |-> recorded, altered |-> FALSE, tables |-> shape, rows |-> data, raced |-> {},
   binaries |-> binaries,
   catalogs |-> {Installed(recorded)}, budget |-> steps @@ NoSteps]

NoRows == {[r \in Rows |-> Absent]}

Deploys ==
  LET steps == [run |-> 2, adopt |-> 1, undo |-> 1, foreign |-> 1, death |-> 1]
  IN {World({}, shape, NoRows, {5035, 5036}, steps) : shape \in {"none", "baseline", "drifted"}}
       \cup {[World({5032}, "baseline", NoRows, {5036}, steps) EXCEPT !.altered = TRUE]}

LegacyRows ==
  [Rows -> {Absent, LegacyRow("public", TRUE, TRUE), LegacyRow("private", TRUE, FALSE)}]

\* Two backfills, writes, undos and contracts in any order; the same with a
\* derived row inserted beside them; and two inserted beside narrowings, with
\* the contract undone and applied again.
Reowns ==
  LET Window(data, steps) == World(5032..5034, "migrated", data, {5035}, steps)
  IN {Window(LegacyRows, [run |-> 2, undo |-> 2, write |-> 2, backfill |-> 2]),
      Window(LegacyRows, [run |-> 1, undo |-> 1, write |-> 1, derive |-> 1, backfill |-> 2]),
      Window(NoRows, [run |-> 2, undo |-> 1, write |-> 2, derive |-> 2])}

Boots ==
  {World(5032..last, "migrated", NoRows, {5042}, [run |-> 1, undo |-> 3, boot |-> 1]) :
     last \in {5033, 5037, 5042}}

ByHand ==
  {[World(Versions, "migrated", NoRows, {5042}, [verify |-> 1, undo |-> 2]) EXCEPT
      !.catalogs = {Installed(Versions)} \cup HandEdits(Installed(Versions))]}

Symmetry == Permutations(Sessions)

MCNames ==
  ModelNames \cup {"migrator", "reader", "foreign", "by_hand", "true", "foreign call"}

MCWorlds == Deploys \cup Reowns \cup Boots \cup ByHand
=============================================================================
