------------------------------ MODULE Statements ------------------------------
(***************************************************************************)
(* Bank statements brought into the accounts (backend finances/import-*.ts,*)
(* finances/import/): a file becomes a draft, its account labels are       *)
(* attached to accounts, and its validation inserts what the database does *)
(* not hold already.  An import can be undone as a whole; two rows can be  *)
(* declared the legs of one internal transfer.                             *)
(*                                                                         *)
(* An operation stands for a date, an amount and a label as the bank       *)
(* prints them; a file is a sequence of lines.  Categories, rules and      *)
(* receipts are not kept.                                                  *)
(***************************************************************************)
EXTENDS Integers, FiniteSets, FiniteSetsExt, Sequences

CONSTANTS
    Account,          \* accounts of the household
    Label,            \* account labels found in files
    Operation,
    DayOf, Amount,    \* day and signed cents of an operation
    File,             \* files: sequences of [label, op]
    Unknown,          \* no account, no import, no transfer
    MaxImports, MaxTransfers, MaxEdits   \* bounds

ASSUME StatementsAssumption ==
    /\ DayOf \in [Operation -> Nat] /\ Amount \in [Operation -> Int \ {0}]
    /\ File \subseteq Seq([label : Label, op : Operation]) \ {<<>>}
    /\ Unknown \notin Account
    /\ MaxImports \in Nat /\ MaxTransfers \in Nat

Import == 1..MaxImports
Transfer == 1..MaxTransfers
Fingerprint == Account \X Operation         \* what dedupeKey() hashes

VARIABLES
    aliases,      \* aliases[l]: the account label l is attached to
    imports,      \* imports[i]: status, file, the windows it covers
    txs,          \* the rows of fin_transactions
    groups,       \* transfers declared so far
    brought,      \* brought[i][k]: history: how often validated import i had key k
    thinned,      \* history: keys that lost a row, by hand or with an import
    torn,         \* history: transfers with a leg deleted or rewritten by hand
    marked,       \* history: keys of rows called transfers by hand, outside any
    edits         \* gestures of the household so far

statementVars == <<aliases, imports, txs, groups, brought, thinned, torn, marked, edits>>

Statuses == {"none", "pending", "committed", "cancelled"}
Period == [account : Account, from : Nat, to : Nat]
\* `key` is written once, when the row is, and `op` is what the row says now;
\* `hand`: typed, under a key of its own
Tx == [key : Fingerprint, account : Account, op : Operation, hand : BOOLEAN, seq : Nat,
       from : Import \union {0}, group : Transfer \union {0},
       kind : {"depense", "recette", "virement"}]

StatementsTypeOK ==
    /\ aliases \in [Label -> Account \union {Unknown}]
    /\ \A i \in Import : /\ imports[i].st \in Statuses
                         /\ imports[i].file \in File \union {<<>>}
                         /\ imports[i].covers \subseteq Period
    /\ txs \subseteq Tx
    /\ groups \in 0..MaxTransfers
    /\ brought \in [Import -> [Fingerprint -> Nat]]
    /\ thinned \subseteq Fingerprint /\ torn \subseteq Transfer
    /\ marked \subseteq Fingerprint /\ edits \in Nat

NoKey == [k \in Fingerprint |-> 0]
StatementsInit ==
    /\ aliases = [l \in Label |-> Unknown]
    /\ imports = [i \in Import |-> [st |-> "none", file |-> <<>>, covers |-> {}]]
    /\ txs = {} /\ groups = 0
    /\ brought = [i \in Import |-> NoKey]
    /\ thinned = {} /\ torn = {} /\ marked = {} /\ edits = 0

-----------------------------------------------------------------------------
(***************************************************************************)
(* Reading a file.                                                         *)
(***************************************************************************)
lines(f) == DOMAIN f
\* splitBlocks(): a block is a run of lines with one label, known by its first line
blocks(f) == {i \in lines(f) : i = 1 \/ f[i - 1].label # f[i].label}
blockOf(f, i) == Max({b \in blocks(f) : b <= i})
times(f, b, o) == Cardinality({i \in lines(f) : blockOf(f, i) = b /\ f[i].op = o})

unknownLabels(f) == {f[i].label : i \in {j \in lines(f) : aliases[f[j].label] = Unknown}}
blocksOf(f, a) == {b \in blocks(f) : aliases[f[b].label] = a}

\* collapseBlocks(): how often the operation is kept: blocks of one account are
\* copies of one statement, so the most that a single one of them shows
collapseBlocks(f, k) == Max({0} \union {times(f, b, k[2]) : b \in blocksOf(f, k[1])})

\* the days of the whole file, for every account it mentions
window(f) ==
    LET days == {DayOf[f[i].op] : i \in lines(f)}
    IN  {[account |-> a, from |-> Min(days), to |-> Max(days)] :
            a \in {b \in Account : blocksOf(f, b) # {}}}

-----------------------------------------------------------------------------
(***************************************************************************)
(* What the database already holds.                                        *)
(***************************************************************************)
\* Mutant: the fingerprint is computed again from the row as it is now
existingByKeyNow(k) == {t \in txs : ~t.hand /\ t.key[2] = k[2] /\ t.account = k[1]}

existingByKey(k) == {t \in txs : ~t.hand /\ t.key = k}

\* Mutants: ranks are counted, not continued; they begin one too low
firstSeqCounted(k) == Cardinality(existingByKey(k))

firstSeqBefore(k) == Max({-1} \union {t.seq : t \in existingByKey(k)})

firstSeq(k) == IF existingByKey(k) = {} THEN 0
               ELSE Max({t.seq : t \in existingByKey(k)}) + 1

natural(o) == IF Amount[o] < 0 THEN "depense" ELSE "recette"

\* dedupeAgainst(): the delta of file f, as rows of import i
dedupeAgainst(f, i) ==
    UNION {LET missing == collapseBlocks(f, k) - Cardinality(existingByKey(k))
           IN  {[key |-> k, account |-> k[1], op |-> k[2], hand |-> FALSE,
                 seq |-> firstSeq(k) + n, from |-> i, group |-> 0, kind |-> natural(k[2])] : n \in 0..missing-1}
           : k \in Fingerprint}

-----------------------------------------------------------------------------
(***************************************************************************)
(* The routes.                                                             *)
(***************************************************************************)
keepHistory == UNCHANGED <<brought, thinned, torn, marked>>

\* POST /imports: a draft; drafts left for a day are dropped on the way
upload(f) ==
    \E i \in Import, stale \in SUBSET {j \in Import : imports[j].st = "pending"} :
        /\ imports[i].st = "none" /\ \A j \in Import : j < i => imports[j].st # "none"
        /\ imports' = [j \in Import |->
                          IF j \in stale THEN [imports[j] EXCEPT !.st = "cancelled", !.file = <<>>]
                          ELSE IF j = i THEN [imports[j] EXCEPT !.st = "pending", !.file = f]
                          ELSE imports[j]]
        /\ UNCHANGED <<aliases, txs, groups, edits>> /\ keepHistory

edited == edits < MaxEdits /\ edits' = edits + 1

\* POST /imports/:id/accounts: any label, at any account
addAlias(i, l, a) ==
    /\ imports[i].st = "pending" /\ edited
    /\ aliases' = [aliases EXCEPT ![l] = a]
    /\ UNCHANGED <<imports, txs, groups>> /\ keepHistory

\* POST /imports/:id/commit: the rows and the windows, in one transaction
commitImport(i) ==
    LET f == imports[i].file
    IN  /\ imports[i].st = "pending" /\ unknownLabels(f) = {}
        /\ txs' = txs \union dedupeAgainst(f, i)
        /\ imports' = [imports EXCEPT ![i] = [st |-> "committed", file |-> <<>>,
                                              covers |-> window(f)]]
        /\ brought' = [brought EXCEPT ![i] = [k \in Fingerprint |-> collapseBlocks(f, k)]]
        /\ UNCHANGED <<aliases, groups, thinned, torn, marked, edits>>

\* DELETE /imports/:id of a draft
cancelDraft(i) ==
    /\ imports[i].st = "pending"
    /\ imports' = [imports EXCEPT ![i].st = "cancelled", ![i].file = <<>>]
    /\ UNCHANGED <<aliases, txs, groups, edits>> /\ keepHistory

legs(ts, g) == {t \in ts : t.group = g}
\* two ordinary rows again
ungrouped(ts, gone) ==
    {IF t.group \in gone THEN [t EXCEPT !.group = 0, !.kind = natural(t.op)] ELSE t : t \in ts}

\* Mutant: the other leg keeps its transfer
undoneRowsOnly(i) == {t \in txs : t.from # i}

\* the rows left without import i; a transfer that lost a leg is no longer one
undoneRows(i) ==
    LET left == {t \in txs : t.from # i}
    IN  ungrouped(left, {g \in {t.group : t \in txs \ left} \ {0} : Cardinality(legs(left, g)) < 2})

\* DELETE /imports/:id of a validated import: its window stays
undoImport(i) ==
    /\ imports[i].st = "committed" /\ edited
    /\ txs' = undoneRows(i)
    /\ imports' = [imports EXCEPT ![i].st = "cancelled"]
    /\ thinned' = thinned \union {t.key : t \in {u \in txs : u.from = i}}
    /\ UNCHANGED <<aliases, groups, brought, torn, marked>>

\* POST /transfers: two rows of two accounts that cancel each other
mergeTransfer(s, t) ==
    /\ groups < MaxTransfers
    /\ s.group = 0 /\ t.group = 0
    /\ s.account # t.account /\ Amount[s.op] = -Amount[t.op]
    /\ groups' = groups + 1
    /\ txs' = (txs \ {s, t}) \union {[u EXCEPT !.group = groups', !.kind = "virement"] : u \in {s, t}}
    /\ UNCHANGED <<aliases, imports, edits>> /\ keepHistory

\* DELETE /transfers/:group
unmergeTransfer(g) ==
    /\ legs(txs, g) # {} /\ edited
    /\ txs' = ungrouped(txs, {g})
    /\ UNCHANGED <<aliases, imports, groups>> /\ keepHistory

\* txInput(): the kind of a typed operation agrees with its sign, or is a transfer's
kinds(o) == {natural(o), "virement"}

\* A row is typed; written over, in its account, date, amount and kind, whatever
\* transfer it belongs to; deleted
createTransaction(k, kind) ==
    LET t == [key |-> k, account |-> k[1], op |-> k[2], hand |-> TRUE, seq |-> 0, from |-> 0,
              group |-> 0, kind |-> kind]
    IN  /\ ~\E u \in txs : u.hand /\ u.key = k         \* bound: once
        /\ edited
        /\ txs' = txs \union {t}
        /\ marked' = IF kind = "virement" THEN marked \union {k} ELSE marked
        /\ UNCHANGED <<aliases, imports, groups, brought, thinned, torn>>

updateTransaction(t, a, o, kind) ==
    LET u == [t EXCEPT !.account = a, !.op = o, !.kind = kind]
    IN  /\ u # t /\ edited
        /\ txs' = (txs \ {t}) \union {u}
        /\ torn' = IF t.group # 0 /\ (Amount[o] # Amount[t.op] \/ kind # t.kind)
                   THEN torn \union {t.group} ELSE torn
        /\ marked' = IF t.group = 0 /\ kind = "virement" THEN marked \union {t.key} ELSE marked
        /\ UNCHANGED <<aliases, imports, groups, brought, thinned>>

deleteTransaction(t) ==
    /\ edited
    /\ txs' = txs \ {t}
    /\ thinned' = IF t.hand THEN thinned ELSE thinned \union {t.key}
    /\ torn' = IF t.group = 0 THEN torn ELSE torn \union {t.group}
    /\ UNCHANGED <<aliases, imports, groups, brought, marked>>

StatementsNext ==
    \/ \E f \in File : upload(f)
    \/ \E i \in Import :
           \/ commitImport(i) \/ cancelDraft(i) \/ undoImport(i)
           \/ \E l \in Label, a \in Account : addAlias(i, l, a)
    \/ \E s, t \in txs : mergeTransfer(s, t)
    \/ \E g \in Transfer : unmergeTransfer(g)
    \/ \E k \in Fingerprint : \E kind \in kinds(k[2]) : createTransaction(k, kind)
    \/ \E t \in txs :
           \/ deleteTransaction(t)
           \/ \E a \in Account, o \in Operation : \E kind \in kinds(o) :
                  updateTransaction(t, a, o, kind)

StatementsSpec == StatementsInit /\ [][StatementsNext]_statementVars

-----------------------------------------------------------------------------
(***************************************************************************)
(* Which days an account's data are known for (import-repo.ts).            *)
(***************************************************************************)
declared(a) == UNION {w.from..w.to : w \in {v \in UNION {imports[i].covers : i \in Import} :
                                            v.account = a}}
\* coverageIntervals(): a later row still extends the end
coverageIntervals(a) ==
    LET rows == {DayOf[t.op] : t \in {u \in txs : u.account = a}}
    IN  IF declared(a) = {} THEN {}
        ELSE declared(a) \union (Max(declared(a))..Max({0} \union rows))

\* gapsOver(): the accounts whose data do not cover the days asked for
gapsOver(from, deadline) ==
    {a \in Account :
        /\ coverageIntervals(a) # {}
        /\ ~(Max({from, Min(coverageIntervals(a))})..deadline \subseteq coverageIntervals(a))}

-----------------------------------------------------------------------------
validated == {i \in Import : imports[i].st = "committed"}
most(k) == Max({0} \union {brought[i][k] : i \in validated})

\* An export that overlaps brings its delta only, in whatever order the files
\* come and whatever was renamed, moved, deleted or undone in between: of one
\* operation the accounts never hold more than the richest of the imports still
\* validated shows, and exactly that when none of its rows was removed.
OnlyTheDelta ==
    \A k \in Fingerprint : LET held == Cardinality(existingByKey(k))
                   IN  held <= most(k) /\ (k \notin thinned => held = most(k))

\* No validation meets the unique index fin_tx_dedupe: (key, rank) names one row,
\* even after a row was deleted or an import undone in the middle of the ranks.
UniqueFingerprint ==
    \A s, t \in txs : ~s.hand /\ ~t.hand /\ s.key = t.key /\ s.seq = t.seq => s = t

\* "so no half-transfer is left behind" (undoImport): a transfer has both its
\* legs, which cancel each other and count as such, unless one was deleted by
\* hand, or given another amount or another kind by hand (PUT /transactions/:id
\* looks at no transfer); a row out of any transfer counts as what its amount
\* says, unless it was typed as a transfer.
TransfersPaired ==
    /\ \A g \in Transfer \ torn :
           \/ legs(txs, g) = {}
           \/ \E s, t \in txs : /\ legs(txs, g) = {s, t} /\ s # t
                                /\ Amount[s.op] = -Amount[t.op]
                                /\ s.kind = "virement" /\ t.kind = "virement"
    /\ \A t \in txs : /\ t.kind \in kinds(t.op)
                      /\ t.group = 0 /\ t.key \notin marked => t.kind = natural(t.op)

\* "Un mois est signalé incomplet dès que la période du mois n'est pas entièrement
\* couverte" (docs/finances-architecture.md), an undone import giving the base
\* back as it was: a day taken as known comes from an import that still stands,
\* or lies before an operation of the account.
CoverageIsTrue ==
    \A d \in {DayOf[o] : o \in Operation}, a \in Account :
        d \in coverageIntervals(a) /\ a \notin gapsOver(d, d)
            => \/ \E i \in validated : \E w \in imports[i].covers :
                      w.account = a /\ d \in w.from..w.to
               \/ \E t \in txs : t.account = a /\ DayOf[t.op] >= d
=============================================================================
