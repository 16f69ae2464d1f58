------------------------- MODULE MCJournalMigration -------------------------
EXTENDS JournalMigration

Row(i, at, s, ident, st) ==
    [id |-> i, place |-> at, sale |-> s, identified |-> ident, status |-> st]

\* Rows 1 and 2 claim one place of the target, so that the journals that hold
\* both can never be copied.
MCRows == {Row(1, 1, TRUE, TRUE, "failed"), Row(2, 1, TRUE, TRUE, "synced"),
           Row(3, 3, TRUE, FALSE, "pending")}
=============================================================================
