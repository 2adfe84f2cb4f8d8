--------------------------- MODULE MigrationPlans ---------------------------
(***************************************************************************)
(* packages/data/migrate/core/mod.ts: what a list of migrations and a       *)
(* history of applied ones make together: validation, checksums, the plan,  *)
(* and what is rolled back.                                                 *)
(*                                                                          *)
(* A migration is [id, kind, up, down, checksum].  An id is [name, padded]: *)
(* padded where there are blanks around it.  A step is a sequence of lines, *)
(* a line [text, tail]: tail is what checksums ignore, a carriage return or *)
(* blanks.  NoStep is a down that is not there.                             *)
(***************************************************************************)
EXTENDS Integers, SequencesExt, FiniteSetsExt

Unset == "unset"
NoStep == <<>>
NoEntry == [checksum |-> <<"none">>]

-----------------------------------------------------------------------------
(* normalizeMigrationId trims; the names are ranked as localeCompare has    *)
(* them, and a padded id comes before all that are not.                     *)
Names == <<"", "001", "002", "003">>
Rank(id) == SelectInSeq(Names, LAMBDA n : n = id.name) + IF id.padded THEN 0 ELSE Len(Names)
NormalizeMigrationId(id) == [id EXCEPT !.padded = FALSE]
SortMigrations(migrations) == SortSeq(migrations, LAMBDA a, b : Rank(a.id) < Rank(b.id))

(* validateMigration, validateMigrationStep, assertNonEmptyString.          *)
IsBlank(step) == \A i \in DOMAIN step : step[i].text = ""
ValidateMigration(m) ==
  IF \/ m.id.name = "" \/ m.checksum = <<"">>
     \/ IsBlank(m.up) \/ (m.down # NoStep /\ IsBlank(m.down))
  THEN "MIGRATION_INVALID" ELSE "ok"

(* validateMigrations: the ids are compared as they are given.              *)
ValidateMigrations(migrations) ==
  IF \E i \in DOMAIN migrations : ValidateMigration(migrations[i]) # "ok"
  THEN "MIGRATION_INVALID"
  ELSE IF \E i, j \in DOMAIN migrations : i # j /\ migrations[i].id = migrations[j].id
  THEN "MIGRATION_DUPLICATE_ID" ELSE "ok"

-----------------------------------------------------------------------------
(* normalizeChecksumText: no carriage returns, no blanks at the end of a    *)
(* line, no empty lines at the end; an empty text is one empty line.        *)
NormalizeChecksumText(step) ==
  LET used == {i \in DOMAIN step : step[i].text # ""} IN
    IF used = {} THEN <<"">> ELSE [i \in 1 .. Max(used) |-> step[i].text]

(* calculateMigrationChecksum hashes the parts joined by a line feed.       *)
CalculateMigrationChecksum(m) ==
  <<m.id, m.kind>> \o NormalizeChecksumText(m.up) \o NormalizeChecksumText(m.down)
GetMigrationChecksum(m) ==
  IF m.checksum # <<Unset>> THEN m.checksum ELSE CalculateMigrationChecksum(m)

(* createAppliedMigration *)
CreateAppliedMigration(m) == [id |-> m.id, checksum |-> GetMigrationChecksum(m)]

-----------------------------------------------------------------------------
(* memoryMigrationStore trims the ids it is given; the last entry of an id  *)
(* is the one it has, and they are listed in order.                         *)
MarkApplied(applied, entry) ==
  LET id == NormalizeMigrationId(entry.id) IN
    SelectSeq(applied, LAMBDA e : e.id # id) \o <<[entry EXCEPT !.id = id]>>
UnmarkApplied(applied, id) ==
  SelectSeq(applied, LAMBDA e : e.id # NormalizeMigrationId(id))
ListApplied(applied) == SortMigrations(applied)

(* createMigrationPlan: an id is looked up as it is, in a history whose ids *)
(* are trimmed.                                                             *)
EntryOf(applied, id) ==
  LET of == {i \in DOMAIN applied : NormalizeMigrationId(applied[i].id) = id} IN
    IF of = {} THEN NoEntry ELSE applied[Max(of)]

CreateMigrationPlan(migrations, applied) ==
  LET sorted == SortMigrations(migrations)
      item(m) == [migration |-> m, checksum |-> GetMigrationChecksum(m),
                  applied |-> EntryOf(applied, m.id)]
      items == [i \in DOMAIN sorted |-> item(sorted[i])]
  IN  [items |-> items,
       pending |-> SelectSeq(items, LAMBDA i : i.applied = NoEntry),
       applied |-> SelectSeq(items, LAMBDA i : i.applied # NoEntry),
       checksumMismatches |-> SelectSeq(items, LAMBDA i :
         i.applied # NoEntry /\ i.applied.checksum # i.checksum)]

-----------------------------------------------------------------------------
(* normalizeOptionalSteps floors what is above zero; here steps are counted *)
(* in halves, and None is undefined.                                        *)
None == -1
NormalizeOptionalSteps(halves) == IF halves = None THEN None ELSE halves \div 2

IsMigrationApplied(m, applied) == \E i \in DOMAIN applied : applied[i].id = m.id
GetPendingMigrations(migrations, applied) ==
  SelectSeq(SortMigrations(migrations), LAMBDA m : ~IsMigrationApplied(m, applied))
GetAppliedMigrations(migrations, applied) ==
  SortMigrations(SelectSeq(applied,
    LAMBDA e : \E i \in DOMAIN migrations : migrations[i].id = e.id))

GetRollbackMigrations(migrations, applied, steps) ==
  LET all == Reverse(SelectSeq(SortMigrations(migrations),
                               LAMBDA m : IsMigrationApplied(m, applied)))
  IN  IF steps = None THEN all
      ELSE SubSeq(all, 1, Min({NormalizeOptionalSteps(steps), Len(all)}))

(* selectRollbackMigrations, then assertRollbackSteps: "to" is rolled back  *)
(* too, and a step without down refuses the whole.                          *)
NoId == [name |-> Unset, padded |-> FALSE]
SelectRollbackMigrations(migrations, applied, steps, to) ==
  LET all == GetRollbackMigrations(migrations, applied, steps)
      target == {i \in DOMAIN all : all[i].id = NormalizeMigrationId(to)}
      selected == IF to = NoId \/ target = {} THEN all ELSE SubSeq(all, 1, Min(target))
  IN  IF steps = 0 \/ (to # NoId /\ target = {})
      THEN [code |-> "MIGRATION_INVALID", migrations |-> <<>>]
      ELSE IF \E i \in DOMAIN selected : selected[i].down = NoStep
      THEN [code |-> "MIGRATION_ROLLBACK_FAILED", migrations |-> <<>>]
      ELSE [code |-> "ok", migrations |-> selected]

-----------------------------------------------------------------------------
Ids(s) == [i \in DOMAIN s |-> s[i].id]
Trimmed(migrations) == \A i \in DOMAIN migrations : ~migrations[i].id.padded
Recorded(migrations) ==
  FoldLeft(MarkApplied, <<>>, [i \in DOMAIN migrations |-> CreateAppliedMigration(migrations[i])])

(* Where no id has blanks around it: the first of the migrations applied    *)
(* and the rest pending, in order, is what the plan says after they were    *)
(* recorded; and what a rollback selects is a beginning of the applied ones *)
(* backwards, whose removal leaves the plan that was there before.          *)
PlansFollowHistory(migrations, n, steps, to) ==
  \A sorted \in {SortMigrations(migrations)} :
  \A first \in {SubSeq(sorted, 1, n)} :
  \A history \in {Recorded(first)} :
  \A plan \in {CreateMigrationPlan(migrations, ListApplied(history))},
     back \in {SelectRollbackMigrations(migrations, history, steps, to)} :
  LET undone == FoldLeft(UnmarkApplied, history, Ids(back.migrations))
      left == n - Len(back.migrations)
  IN  ValidateMigrations(migrations) = "ok" /\ Trimmed(migrations) =>
        /\ [i \in DOMAIN plan.applied |-> plan.applied[i].migration] = first
        /\ [i \in DOMAIN plan.pending |-> plan.pending[i].migration]
             = GetPendingMigrations(migrations, history)
        /\ first \o GetPendingMigrations(migrations, history) = sorted
        /\ Ids(GetAppliedMigrations(migrations, history)) = Ids(first)
        /\ plan.checksumMismatches = <<>>
        /\ IsPrefix(back.migrations, Reverse(first))
        /\ back.code = "ok" => /\ to # NoId => Last(back.migrations).id = NormalizeMigrationId(to)
                               /\ steps # None => Len(back.migrations) <= NormalizeOptionalSteps(steps)
                               /\ ListApplied(undone) = ListApplied(Recorded(SubSeq(sorted, 1, left)))

(* An edit of a migration that was applied is a mismatch of exactly that    *)
(* migration, unless it changes nothing but line endings, blanks at the end *)
(* of lines, and empty lines at the end.                                    *)
EditsAreNoticed(m, up) ==
  LET edited == [m EXCEPT !.up = up]
      plan == CreateMigrationPlan(<<edited>>, <<CreateAppliedMigration(m)>>)
      used(step) == SelectSeq([i \in DOMAIN step |-> step[i].text], LAMBDA t : t # "")
  IN  {ValidateMigrations(<<m>>), ValidateMigrations(<<edited>>)} = {"ok"} /\ Trimmed(<<m>>) =>
        /\ used(up) # used(m.up) /\ m.checksum = <<Unset>> /\ m.down = NoStep =>
             plan.checksumMismatches # <<>>
        /\ Len(up) >= Len(m.up) /\ (\A i \in DOMAIN up : up[i].text =
              IF i \in DOMAIN m.up THEN m.up[i].text ELSE "") =>
             plan.checksumMismatches = <<>>
=============================================================================
