---------------------------- MODULE ProjectProofs ----------------------------
(***************************************************************************)
(* Proofs about the rows of a project: what the service checks, what the   *)
(* schema does by itself and what the import makes keep every table sound, *)
(* for any number of projects, rows, requests and imports.  From it: a     *)
(* form replaces what it shows, a project stays exportable, and a chapter  *)
(* task that is let start is one that the generation prepares.             *)
(***************************************************************************)
EXTENDS FirstChapter, SequenceTheorems, WellFoundedInduction, TLAPS

-----------------------------------------------------------------------------
(* The inductive invariant.                                                *)

SoundRows == SoundTable(row, current)

\* The form shows a row of its version as it is, but for characters that are gone, or
\* one that was changed or deleted since.
Filled(R, f) ==
  f # NoForm =>
    /\ f.id \in DOMAIN R /\ f.id # 0 /\ f.version \in Nat
    /\ f.links \subseteq [column : Columns, id : DOMAIN R]
    /\ R[f.id].live =>
         /\ f.version <= R[f.id].version
         /\ f.version = R[f.id].version =>
              /\ R[f.id].text = f.text /\ R[f.id].status = f.status
              /\ R[f.id].links =
                   {l \in f.links : l.column = "character" => R[l.id].live}

GraphInv == SoundRows /\ Filled(row, form)

\* What a row is made of.
LEMMA RowMade ==
  ASSUME NEW kind \in Kind, NEW p \in Nat, NEW L \in SUBSET [column : Columns, id : Nat],
         NEW from \in Source, NEW status \in Status, NEW text \in {1, 2}, NEW version \in Nat,
         NEW config \in Nat \ {0}
  PROVE  [kind |-> kind, project |-> p, links |-> L, from |-> from, live |-> TRUE,
          status |-> status, text |-> text, version |-> version, config |-> config] \in LiveRow
  BY DEF LiveRow

\* A row that is there has its fields.
LEMMA RowFields ==
  ASSUME NEW r \in AnyRow
  PROVE  /\ r.live \in BOOLEAN
         /\ r.live <=> r \in LiveRow
         /\ ~r.live => r = Gone
         /\ r.live => /\ r.kind \in Kind /\ r.project \in Nat /\ r.version \in Nat
                      /\ r.status \in Status /\ r.text \in {1, 2} /\ r.from \in Source
                      /\ r.config \in Nat \ {0} /\ r.links \subseteq [column : Columns, id : Nat]
<1>1. CASE r = Gone
  <2>1. r.live = FALSE
    BY <1>1 DEF Gone
  <2> QED
    BY <1>1, <2>1 DEF LiveRow
<1>2. CASE r \in LiveRow
  BY <1>2 DEF LiveRow
<1> QED
  BY <1>1, <1>2 DEF AnyRow

\* The table and its rows.
LEMMA TableRows ==
  ASSUME NEW R, NEW c, SoundTable(R, c)
  PROVE  /\ DOMAIN R = 1..Len(R) /\ Len(R) \in Nat /\ R \in [1..Len(R) -> AnyRow]
         /\ \A i \in DOMAIN R : R[i] \in AnyRow /\ R[i].live \in BOOLEAN /\ i \in Nat /\ i # 0
         /\ \A i \in DOMAIN R : R[i].live =>
              /\ Fits(R, R[i]) /\ R[i] \in LiveRow
              /\ IsRow(R, R[i].project, {"project"}, R[i].project)
              /\ R[i].kind = "project" => R[i].project = i
<1>1. R \in Seq(AnyRow)
  BY DEF SoundTable
<1> HIDE DEF AnyRow
<1>2. DOMAIN R = 1..Len(R) /\ Len(R) \in Nat /\ R \in [1..Len(R) -> AnyRow]
  BY <1>1
<1>3. \A i \in DOMAIN R : R[i] \in AnyRow /\ i \in Nat /\ i # 0
  BY <1>2
<1> QED
  BY <1>2, <1>3, RowFields DEF SoundTable

\* A link names rows of the table, of kinds that Target says.
LEMMA LinkFields ==
  ASSUME NEW R, NEW r, Fits(R, r), NEW l \in r.links
  PROVE  /\ l.column \in Columns /\ l.id \in DOMAIN R /\ l \in [column : Columns, id : Nat]
         /\ l = [column |-> l.column, id |-> l.id]
         /\ l.column # "cites" => IsRow(R, l.id, Target[l.column], r.project)
         /\ l.column = "cites" =>
              (R[l.id].live => IsRow(R, l.id, {"material"}, r.project)) /\ r.kind \in Outlines
         /\ l.column = "volume" => r.kind \in Outlines
         /\ l.column \in {"source", "target"} => r.kind = "relation"
         /\ l.column = "character" => r.kind = "material"
<1>1. l \in [column : Columns, id : Nat]
  BY DEF Fits, LiveRow
<1>2. r.kind \in Bearer[l.column] /\ Refers(R, l, r.project)
  BY DEF Fits, Shaped
<1> QED
  BY <1>1, <1>2 DEF Refers, IsRow, Bearer, Columns

\* References hold in a table that keeps what they name.
LEMMA StillFits ==
  ASSUME NEW R, NEW S, NEW r, Fits(R, r), DOMAIN R \subseteq DOMAIN S,
         \A i \in DOMAIN R : R[i].live /\ (\E l \in r.links : l.id = i /\ l.column # "cites") =>
           S[i].live /\ S[i].kind = R[i].kind /\ S[i].project = R[i].project,
         \A i \in DOMAIN R : S[i].live =>
           R[i].live /\ S[i].kind = R[i].kind /\ S[i].project = R[i].project
  PROVE  Fits(S, r)
<1> SUFFICES ASSUME NEW l \in r.links
             PROVE  Refers(S, l, r.project)
  BY DEF Fits
<1>1. Refers(R, l, r.project)
  BY DEF Fits
<1> QED
  BY <1>1 DEF Refers, IsRow

\* A form stays true as long as rows only change with their version and characters go.
LEMMA FormStays ==
  ASSUME NEW R, NEW S, NEW f, Filled(R, f), DOMAIN R \subseteq DOMAIN S,
         \A i \in DOMAIN R : S[i].live => R[i].live,
         \A i \in DOMAIN R : S[i].live =>
           /\ R[i].version \in Nat /\ S[i].version \in Nat /\ R[i].version <= S[i].version
           /\ S[i].version = R[i].version =>
                /\ S[i].text = R[i].text /\ S[i].status = R[i].status
                /\ S[i].links = {l \in R[i].links : l.column = "character" => S[l.id].live}
  PROVE  Filled(S, f)
<1> SUFFICES ASSUME f # NoForm
             PROVE  Filled(S, f)
  BY DEF Filled
<1>1. /\ f.id \in DOMAIN R /\ f.id # 0 /\ f.version \in Nat
      /\ f.links \subseteq [column : Columns, id : DOMAIN R]
      /\ R[f.id].live =>
           /\ f.version <= R[f.id].version
           /\ f.version = R[f.id].version =>
                /\ R[f.id].text = f.text /\ R[f.id].status = f.status
                /\ R[f.id].links =
                     {l \in f.links : l.column = "character" => R[l.id].live}
  BY DEF Filled
<1>2. f.links \subseteq [column : Columns, id : DOMAIN S]
  BY <1>1
<1>3. ASSUME S[f.id].live
      PROVE  /\ f.version <= S[f.id].version
             /\ f.version = S[f.id].version =>
                  /\ S[f.id].text = f.text /\ S[f.id].status = f.status
                  /\ S[f.id].links =
                       {l \in f.links : l.column = "character" => S[l.id].live}
  <2>1. R[f.id].live /\ f.version <= R[f.id].version
    BY <1>1, <1>3
  <2>2. /\ R[f.id].version \in Nat /\ S[f.id].version \in Nat
        /\ R[f.id].version <= S[f.id].version
    BY <1>1, <1>3
  <2>3. f.version <= S[f.id].version
    BY <1>1, <2>1, <2>2
  <2>4. ASSUME f.version = S[f.id].version
        PROVE  /\ S[f.id].text = f.text /\ S[f.id].status = f.status
               /\ S[f.id].links = {l \in f.links : l.column = "character" => S[l.id].live}
    <3>1. f.version = R[f.id].version /\ S[f.id].version = R[f.id].version
      BY <1>1, <2>1, <2>2, <2>4
    <3>2. /\ R[f.id].text = f.text /\ R[f.id].status = f.status
          /\ R[f.id].links = {l \in f.links : l.column = "character" => R[l.id].live}
      BY <1>1, <2>1, <3>1
    <3>3. /\ S[f.id].text = R[f.id].text /\ S[f.id].status = R[f.id].status
          /\ S[f.id].links = {l \in R[f.id].links : l.column = "character" => S[l.id].live}
      BY <1>1, <1>3, <3>1
    <3>4. \A l \in f.links : l.id \in DOMAIN R /\ (S[l.id].live => R[l.id].live)
      BY <1>1
    <3>5. S[f.id].links = {l \in f.links : l.column = "character" => S[l.id].live}
      BY <3>2, <3>3, <3>4, Zenon
    <3> QED
      BY <3>2, <3>3, <3>5
  <2> QED
    BY <2>3, <2>4
<1> QED
  BY <1>1, <1>2, <1>3 DEF Filled

\* A form stays true when no row of a sound table changes.
LEMMA FormKept ==
  ASSUME NEW R, NEW S, NEW c, SoundTable(R, c), NEW f, Filled(R, f),
         \A i \in DOMAIN R : i \in DOMAIN S /\ S[i] = R[i]
  PROVE  Filled(S, f)
<1>1. \A i \in DOMAIN R : R[i] \in AnyRow /\ (R[i].live => Fits(R, R[i]))
  BY TableRows
<1>2. ASSUME NEW i \in DOMAIN R, S[i].live
      PROVE  /\ R[i].version \in Nat
             /\ S[i].links = {l \in R[i].links : l.column = "character" => S[l.id].live}
  <2>1. R[i].live /\ Fits(R, R[i]) /\ R[i].version \in Nat /\ S[i] = R[i]
    BY <1>1, <1>2, RowFields
  <2>2. \A l \in R[i].links : l.column = "character" => S[l.id].live
    BY <2>1, LinkFields DEF IsRow
  <2> QED
    BY <2>1, <2>2
<1>3. \A i \in DOMAIN R : S[i].live =>
        /\ R[i].version \in Nat /\ S[i].version \in Nat /\ R[i].version <= S[i].version
        /\ S[i].version = R[i].version =>
             /\ S[i].text = R[i].text /\ S[i].status = R[i].status
             /\ S[i].links = {l \in R[i].links : l.column = "character" => S[l.id].live}
  BY <1>2
<1>4. DOMAIN R \subseteq DOMAIN S /\ \A i \in DOMAIN R : S[i].live => R[i].live
  OBVIOUS
<1> QED
  BY <1>3, <1>4, FormStays

\* A row is written: it stays of its kind and project, and in its place.
LEMMA TableWritten ==
  ASSUME NEW R, NEW c, SoundTable(R, c), NEW i \in DOMAIN R, R[i].live, NEW q, Fits(R, q),
         q.kind = R[i].kind, q.project = R[i].project,
         q.kind = "volume outline" =>
           \A l \in q.links : l.column = "volume" => l \in R[i].links
  PROVE  SoundTable([R EXCEPT ![i] = q], c)
<1> DEFINE S == [R EXCEPT ![i] = q]
<1>1. q \in LiveRow /\ q \in AnyRow /\ q.live
  BY DEF Fits, AnyRow, LiveRow
<1>2. /\ DOMAIN R = 1..Len(R) /\ R \in [1..Len(R) -> AnyRow] /\ Len(R) \in Nat
      /\ \A j \in DOMAIN R : R[j] \in AnyRow
  BY TableRows
<1>3. S \in Seq(AnyRow) /\ DOMAIN S = DOMAIN R /\ S[i] = q
      /\ \A j \in DOMAIN R : j # i => S[j] = R[j]
  <2> HIDE DEF AnyRow
  <2>1. S \in [1..Len(R) -> AnyRow] /\ DOMAIN S = DOMAIN R
    BY <1>1, <1>2
  <2>2. S[i] = q /\ \A j \in DOMAIN R : j # i => S[j] = R[j]
    BY <1>2
  <2> HIDE DEF S
  <2>3. S \in Seq(AnyRow)
    BY <1>2, <2>1, SeqDef
  <2> QED
    BY <2>1, <2>2, <2>3
<1> HIDE DEF S
<1>4. \A j \in DOMAIN R : (S[j].live <=> R[j].live)
        /\ (R[j].live => S[j].kind = R[j].kind /\ S[j].project = R[j].project)
  BY <1>1, <1>3
<1>5. ASSUME NEW j, NEW kinds, NEW p, IsRow(R, j, kinds, p)
      PROVE  IsRow(S, j, kinds, p)
  BY <1>3, <1>4, <1>5 DEF IsRow
<1>6. ASSUME NEW j \in DOMAIN S, S[j].live
      PROVE  /\ Fits(S, S[j])
             /\ IsRow(S, S[j].project, {"project"}, S[j].project)
             /\ S[j].kind = "project" => S[j].project = j
  <2>1. Fits(R, S[j])
    BY <1>3, <1>6, TableRows
  <2>2. Fits(S, S[j])
    BY <1>3, <1>4, <2>1, StillFits
  <2>3. R[j].live /\ S[j].kind = R[j].kind /\ S[j].project = R[j].project
    BY <1>3, <1>4, <1>6
  <2> QED
    BY <1>3, <1>5, <2>2, <2>3, TableRows
<1>7. ASSUME NEW j \in DOMAIN S, NEW k \in DOMAIN S, S[j].live, S[k].live,
             S[j].kind = "volume outline", S[k].kind = "volume outline",
             NEW l \in S[j].links, l.column = "volume", l \in S[k].links
      PROVE  j = k
  <2>1. R[j].live /\ R[k].live /\ R[j].kind = "volume outline" /\ R[k].kind = "volume outline"
    BY <1>3, <1>4, <1>7
  <2>2. l \in R[j].links /\ l \in R[k].links
    BY <1>3, <1>7
  <2> QED
    BY <1>3, <1>7, <2>1, <2>2 DEF SoundTable
<1>8. c = 0 \/ IsRow(S, c, {"project"}, c)
  BY <1>5 DEF SoundTable
<1>9. SoundTable(S, c)
  BY <1>3, <1>6, <1>7, <1>8 DEF SoundTable
<1> QED
  BY <1>9 DEF S

\* The volume of a volume outline has no other.
FirstOfItsVolume(R, q) ==
  q.kind = "volume outline" =>
    \A j \in DOMAIN R : R[j].live /\ R[j].kind = "volume outline" =>
      \A l \in q.links : l.column = "volume" => l \notin R[j].links

\* A row is made: in a project that is there, or as a project of its own.
LEMMA TableGrows ==
  ASSUME NEW R, NEW c, SoundTable(R, c), NEW q, Fits(R, q),
         \/ q.kind # "project" /\ IsRow(R, q.project, {"project"}, q.project)
         \/ q.kind = "project" /\ q.project = Len(R) + 1,
         FirstOfItsVolume(R, q)
  PROVE  /\ SoundTable(Append(R, q), c)
         /\ q.kind = "project" => SoundTable(Append(R, q), Len(R) + 1)
<1> DEFINE S == Append(R, q)
           n == Len(R) + 1
<1>1. q \in LiveRow /\ q \in AnyRow /\ q.live
  BY DEF Fits, AnyRow, LiveRow
<1>2. DOMAIN R = 1..Len(R) /\ Len(R) \in Nat /\ R \in Seq(AnyRow)
  BY TableRows DEF SoundTable
<1>3. /\ S \in Seq(AnyRow) /\ S[n] = q /\ n \in DOMAIN S /\ n \notin DOMAIN R
      /\ \A j \in DOMAIN R : S[j] = R[j] /\ j \in DOMAIN S
      /\ \A j \in DOMAIN S : j \in DOMAIN R \/ j = n
  <2> HIDE DEF AnyRow
  <2>1. S \in Seq(AnyRow) /\ Len(S) = n /\ S[n] = q
    BY <1>1, <1>2
  <2>2. \A j \in 1..Len(R) : S[j] = R[j]
    BY <1>1, <1>2
  <2>3. DOMAIN S = 1..n
    BY <2>1
  <2> HIDE DEF S
  <2> QED
    BY <1>2, <2>1, <2>2, <2>3
<1> HIDE DEF S, n
<1>4. ASSUME NEW j, NEW kinds, NEW p, IsRow(R, j, kinds, p)
      PROVE  IsRow(S, j, kinds, p)
  BY <1>3, <1>4 DEF IsRow
<1>5. ASSUME NEW r, Fits(R, r)
      PROVE  Fits(S, r)
  BY <1>3, <1>5, StillFits
<1>6. ASSUME NEW j \in DOMAIN S, S[j].live
      PROVE  /\ Fits(S, S[j])
             /\ IsRow(S, S[j].project, {"project"}, S[j].project)
             /\ S[j].kind = "project" => S[j].project = j
  <2>1. CASE j \in DOMAIN R
    BY <1>3, <1>4, <1>5, <1>6, <2>1, TableRows
  <2>2. CASE j = n
    <3>1. CASE q.kind # "project"
      BY <1>3, <1>4, <1>5, <2>2, <3>1
    <3>2. CASE q.kind = "project"
      BY <1>1, <1>3, <1>5, <2>2, <3>2 DEF IsRow, n
    <3> QED
      BY <3>1, <3>2
  <2> QED
    BY <1>3, <2>1, <2>2
<1>7. ASSUME NEW j \in DOMAIN S, NEW k \in DOMAIN S, S[j].live, S[k].live,
             S[j].kind = "volume outline", S[k].kind = "volume outline",
             NEW l \in S[j].links, l.column = "volume", l \in S[k].links
      PROVE  j = k
  <2>1. CASE j \in DOMAIN R /\ k \in DOMAIN R
    BY <1>3, <1>7, <2>1 DEF SoundTable
  <2>2. CASE j = n \/ k = n
    BY <1>3, <1>7, <2>2 DEF FirstOfItsVolume
  <2> QED
    BY <1>3, <2>1, <2>2
<1>8. c = 0 \/ IsRow(S, c, {"project"}, c)
  BY <1>4 DEF SoundTable
<1>9. q.kind = "project" => IsRow(S, n, {"project"}, n)
  BY <1>1, <1>3 DEF IsRow, n
<1>10. SoundTable(S, c)
  BY <1>3, <1>6, <1>7, <1>8 DEF SoundTable
<1>11. q.kind = "project" => SoundTable(S, n)
  BY <1>3, <1>6, <1>7, <1>9 DEF SoundTable
<1> QED
  BY <1>10, <1>11 DEF S, n

\* What goes with a row: the rows of a project with it, relations with their ends.
LEMMA GoesWith ==
  ASSUME SoundRows, NEW i \in Live
  PROVE  /\ i \in DeletedWith(i) /\ DeletedWith(i) \subseteq Live
         /\ \A j \in Live : row[j].project = i => j \in DeletedWith(i)
         /\ \A j \in DeletedWith(i) : j = i \/ row[j].project = i \/ row[j].kind = "relation"
         /\ \A j \in Live : \A l \in row[j].links :
              l.column \in {"source", "target"} /\ l.id \in DeletedWith(i)
                => j \in DeletedWith(i)
<1> DEFINE owned == {i} \cup {j \in Live : row[j].project = i}
<1>1. DeletedWith(i) =
        owned \cup {j \in Live : /\ row[j].kind = "relation"
                                 /\ (Linked(j, "source") \cup Linked(j, "target"))
                                      \cap owned # {}}
  BY DEF DeletedWith
<1>2. ASSUME NEW j \in Live, NEW l \in row[j].links, l.column \in {"source", "target"},
             l.id \in DeletedWith(i)
      PROVE  j \in DeletedWith(i)
  <2>1. Fits(row, row[j])
    BY TableRows DEF SoundRows, Live, RowId
  <2>2. row[j].kind = "relation" /\ row[l.id].kind \in {"character", "organization", "worldview"}
    BY <1>2, <2>1, LinkFields DEF IsRow, Target
  <2>3. l.id \in owned
    BY <1>1, <1>2, <2>2
  <2>4. l.id \in Linked(j, "source") \cup Linked(j, "target")
    BY <1>2 DEF Linked
  <2> HIDE DEF owned
  <2> QED
    BY <1>1, <2>2, <2>3, <2>4
<1> QED
  BY <1>1, <1>2

\* What stays of a row when others go.
Stays(r, gone) == [r EXCEPT !.links = Unlinked(@, gone)]

\* It keeps its place, if none of its own rows goes but characters.
LEMMA StaysInPlace ==
  ASSUME NEW R, NEW r, Fits(R, r), NEW gone
  PROVE  LET q == Stays(r, gone) IN
         /\ q \in LiveRow /\ q.kind = r.kind /\ q.project = r.project /\ q.version = r.version
         /\ q.text = r.text /\ q.status = r.status /\ q.live /\ q.links \subseteq r.links
         /\ q.links = {l \in r.links : ~(l.column = "character" /\ l.id \in gone)}
         /\ Fits(R, q)
<1> DEFINE q == Stays(r, gone)
<1>1. r \in LiveRow
  BY DEF Fits
<1>2. q.links = {l \in r.links : ~(l.column = "character" /\ l.id \in gone)}
  BY <1>1 DEF Stays, Unlinked, LiveRow
<1>3. /\ q \in LiveRow /\ q.kind = r.kind /\ q.project = r.project /\ q.version = r.version
      /\ q.text = r.text /\ q.status = r.status /\ q.live
  <2>1. \A L \in SUBSET [column : Columns, id : Nat] : [r EXCEPT !.links = L] \in LiveRow
    BY <1>1 DEF LiveRow
  <2>2. Unlinked(r.links, gone) \in SUBSET [column : Columns, id : Nat]
    BY <1>1 DEF Unlinked, LiveRow
  <2>3. q \in LiveRow
    BY <2>1, <2>2 DEF Stays
  <2> QED
    BY <1>1, <2>3 DEF Stays, LiveRow
<1> HIDE DEF q
<1>4. Shaped(q)
  <2>1. \A l \in r.links : l.column # "character" => l \in q.links
    BY <1>2
  <2>2. \A l \in q.links : l \in r.links
    BY <1>2
  <2>3. Shaped(r)
    BY DEF Fits
  <2>4. r.kind = "relation" => \A c \in {"source", "target"} : \E l \in q.links : l.column = c
    BY <2>1, <2>3 DEF Shaped
  <2>5. r.kind \in Outlines =>
          \E l \in q.links : l.column = "volume" /\ \A k \in q.links : k.column = "volume" => k = l
    BY <2>1, <2>2, <2>3 DEF Shaped
  <2> QED
    BY <1>3, <2>2, <2>3, <2>4, <2>5 DEF Shaped
<1>5. Fits(R, q)
  BY <1>2, <1>3, <1>4 DEF Fits
<1> QED
  BY <1>2, <1>3, <1>5 DEF q

\* A row is deleted with what goes with it: the rest stays sound, and the form true.
LEMMA TableShrinks ==
  ASSUME GraphInv, NEW i \in Live, i # current,
         \A j \in Live : row[j].kind \in Outlines => i \notin Linked(j, "volume"),
         row' = [j \in RowId |-> IF j \in DeletedWith(i) THEN Gone
                                 ELSE [row[j] EXCEPT !.links = Unlinked(@, DeletedWith(i))]]
  PROVE  SoundTable(row', current) /\ Filled(row', form)
<1> DEFINE gone == DeletedWith(i)
           S == row'
<1>1. SoundTable(row, current) /\ SoundRows /\ Filled(row, form)
  BY DEF GraphInv, SoundRows
<1>2. /\ DOMAIN row = 1..Len(row) /\ Len(row) \in Nat
      /\ \A j \in DOMAIN row : row[j] \in AnyRow /\ row[j].live \in BOOLEAN
      /\ \A j \in DOMAIN row : row[j].live => Fits(row, row[j])
  BY <1>1, TableRows
<1>3. /\ i \in gone /\ gone \subseteq Live
      /\ \A j \in Live : row[j].project = i => j \in gone
      /\ \A j \in gone : j = i \/ row[j].project = i \/ row[j].kind = "relation"
      /\ \A j \in Live : \A l \in row[j].links :
           l.column \in {"source", "target"} /\ l.id \in gone => j \in gone
  BY <1>1, GoesWith
<1>4. /\ DOMAIN S = DOMAIN row
      /\ \A j \in DOMAIN row : S[j] = IF j \in gone THEN Gone ELSE Stays(row[j], gone)
  BY DEF Stays, RowId
<1> HIDE DEF gone, S
<1>5. ASSUME NEW j \in DOMAIN row, ~row[j].live
      PROVE  S[j] = Gone
  <2>1. row[j] = Gone /\ j \notin gone
    BY <1>2, <1>3, <1>5, RowFields DEF Live
  <2>2. S[j] = Stays(Gone, gone)
    BY <1>4, <2>1
  <2>3. Unlinked({}, gone) = {}
    BY DEF Unlinked
  <2>4. Stays(Gone, gone) = Gone
    <3>1. Gone.links = {}
      BY DEF Gone
    <3>2. Stays(Gone, gone) = [Gone EXCEPT !.links = {}]
      BY <2>3, <3>1 DEF Stays
    <3>3. PICK g : g = Gone
      OBVIOUS
    <3>4. [g EXCEPT !.links = {}] = g
      BY <3>3 DEF Gone
    <3> QED
      BY <3>2, <3>3, <3>4
  <2> QED
    BY <2>2, <2>4
<1>6. ~Gone.live
  BY DEF Gone
<1>7. \A j \in DOMAIN row : S[j].live <=> row[j].live /\ j \notin gone
  <2> SUFFICES ASSUME NEW j \in DOMAIN row
               PROVE  S[j].live <=> row[j].live /\ j \notin gone
    OBVIOUS
  <2>1. CASE ~row[j].live
    BY <1>5, <1>6, <2>1
  <2>2. CASE j \in gone
    BY <1>4, <1>6, <2>2
  <2>3. CASE row[j].live /\ j \notin gone
    BY <1>2, <1>4, <2>3, StaysInPlace
  <2> QED
    BY <2>1, <2>2, <2>3
<1>8. ASSUME NEW j \in DOMAIN row, S[j].live
      PROVE  /\ row[j].live /\ j \notin gone /\ S[j] = Stays(row[j], gone)
             /\ S[j] \in LiveRow /\ S[j].kind = row[j].kind /\ S[j].project = row[j].project
             /\ S[j].version = row[j].version /\ S[j].text = row[j].text
             /\ S[j].status = row[j].status /\ S[j].links \subseteq row[j].links
             /\ S[j].links = {l \in row[j].links : ~(l.column = "character" /\ l.id \in gone)}
             /\ Fits(row, S[j]) /\ Fits(row, row[j])
  <2>1. row[j].live /\ j \notin gone
    BY <1>7, <1>8
  <2>2. Fits(row, row[j]) /\ S[j] = Stays(row[j], gone)
    BY <1>2, <1>4, <2>1
  <2> QED
    BY <2>1, <2>2, StaysInPlace
<1>9. ASSUME NEW k, NEW kinds, NEW p, IsRow(row, k, kinds, p), k \notin gone
      PROVE  IsRow(S, k, kinds, p)
  BY <1>4, <1>7, <1>8, <1>9 DEF IsRow
<1>10. ASSUME NEW j \in DOMAIN row, S[j].live, NEW l \in S[j].links, l.column # "cites"
       PROVE  l.id \notin gone
  <2> SUFFICES ASSUME l.id \in gone
               PROVE  FALSE
    OBVIOUS
  <2>1. l \in row[j].links /\ Fits(row, row[j]) /\ j \notin gone /\ j \in Live
    BY <1>8, <1>10 DEF Live, RowId
  <2>2. IsRow(row, l.id, Target[l.column], row[j].project) /\ l.column \in Columns
    BY <1>10, <2>1, LinkFields
  <2>3. CASE l.column = "character"
    BY <1>8, <1>10, <2>3
  <2>4. CASE l.column \in {"source", "target"}
    BY <1>3, <2>1, <2>4
  <2>5. CASE l.column = "volume"
    <3>1. row[l.id].kind = "volume" /\ row[l.id].project = row[j].project
      BY <2>2, <2>5 DEF IsRow, Target
    <3>2. row[j].kind \in Outlines /\ l.id \in Linked(j, "volume")
      BY <2>1, <2>5, LinkFields DEF Linked
    <3> QED
      BY <1>3, <2>1, <3>1, <3>2
  <2> QED
    BY <1>10, <2>2, <2>3, <2>4, <2>5 DEF Columns
<1>11. ASSUME NEW j \in DOMAIN S, S[j].live
       PROVE  /\ Fits(S, S[j])
              /\ IsRow(S, S[j].project, {"project"}, S[j].project)
              /\ S[j].kind = "project" => S[j].project = j
  <2>1. Fits(row, S[j]) /\ row[j].live /\ j \notin gone /\ j \in Live
        /\ S[j].kind = row[j].kind /\ S[j].project = row[j].project
    BY <1>4, <1>8, <1>11 DEF Live, RowId
  <2>2. ASSUME NEW k \in DOMAIN row, row[k].live, NEW l \in S[j].links, l.id = k,
               l.column # "cites"
        PROVE  S[k].live /\ S[k].kind = row[k].kind /\ S[k].project = row[k].project
    <3>1. k \notin gone
      BY <1>4, <1>10, <1>11, <2>2
    <3>2. S[k].live
      BY <1>7, <2>2, <3>1
    <3> QED
      BY <1>8, <2>2, <3>2
  <2>3. \A k \in DOMAIN row : S[k].live =>
          row[k].live /\ S[k].kind = row[k].kind /\ S[k].project = row[k].project
    BY <1>8
  <2>4. Fits(S, S[j])
    BY <1>4, <2>1, <2>2, <2>3, StillFits
  <2>5. /\ IsRow(row, row[j].project, {"project"}, row[j].project)
        /\ row[j].kind = "project" => row[j].project = j
    BY <1>1, <1>4, <1>11, <2>1, TableRows
  <2>6. row[j].project \notin gone
    <3> SUFFICES ASSUME row[j].project \in gone
                 PROVE  FALSE
      OBVIOUS
    <3>1. /\ row[row[j].project].kind = "project" /\ row[row[j].project].live
          /\ row[j].project \in DOMAIN row
      BY <2>5 DEF IsRow
    <3>2. row[row[j].project].project = row[j].project
      BY <1>1, <3>1, TableRows
    <3>3. row[j].project = i
      BY <1>3, <3>1, <3>2
    <3> QED
      BY <1>3, <2>1, <3>3
  <2> QED
    BY <1>9, <2>1, <2>4, <2>5, <2>6
<1>12. ASSUME NEW j \in DOMAIN S, NEW k \in DOMAIN S, S[j].live, S[k].live,
              S[j].kind = "volume outline", S[k].kind = "volume outline",
              NEW l \in S[j].links, l.column = "volume", l \in S[k].links
       PROVE  j = k
  <2>1. /\ row[j].live /\ row[k].live /\ row[j].kind = "volume outline"
        /\ row[k].kind = "volume outline" /\ l \in row[j].links /\ l \in row[k].links
    BY <1>4, <1>8, <1>12
  <2> QED
    BY <1>1, <1>4, <1>12, <2>1 DEF SoundTable
<1>13. current = 0 \/ IsRow(S, current, {"project"}, current)
  <2> SUFFICES ASSUME current # 0
               PROVE  IsRow(S, current, {"project"}, current)
    OBVIOUS
  <2>1. IsRow(row, current, {"project"}, current)
    BY <1>1 DEF SoundTable
  <2>2. current \notin gone
    BY <1>3, <2>1 DEF IsRow
  <2> QED
    BY <1>9, <2>1, <2>2
<1>14. S \in Seq(AnyRow)
  <2>1. \A j \in DOMAIN row : S[j] \in AnyRow
    <3> SUFFICES ASSUME NEW j \in DOMAIN row
                 PROVE  S[j] \in AnyRow
      OBVIOUS
    <3>1. CASE S[j].live
      BY <1>8, <3>1 DEF AnyRow
    <3>2. CASE ~S[j].live
      <4>1. S[j] = Gone
        BY <1>2, <1>4, <1>5, <1>7, <3>2
      <4> QED
        BY <4>1 DEF AnyRow
    <3> QED
      BY <3>1, <3>2
  <2>2. S = [j \in DOMAIN row |-> S[j]]
    BY <1>4 DEF S, RowId
  <2> HIDE DEF AnyRow
  <2>3. S \in [1..Len(row) -> AnyRow]
    BY <1>2, <2>1, <2>2
  <2> QED
    BY <1>2, <2>3, SeqDef
<1>15. SoundTable(S, current)
  BY <1>11, <1>12, <1>13, <1>14 DEF SoundTable
<1>16. Filled(S, form)
  <2>1. ASSUME NEW j \in DOMAIN row, S[j].live
        PROVE  /\ row[j].version \in Nat /\ S[j].version = row[j].version
               /\ S[j].text = row[j].text /\ S[j].status = row[j].status
               /\ S[j].links = {l \in row[j].links : l.column = "character" => S[l.id].live}
    <3>1. row[j].version \in Nat
      BY <1>2, <1>8, <2>1, RowFields
    <3>2. \A l \in row[j].links : l.column = "character" => (S[l.id].live <=> l.id \notin gone)
      <4> SUFFICES ASSUME NEW l \in row[j].links, l.column = "character"
                   PROVE  S[l.id].live <=> l.id \notin gone
        OBVIOUS
      <4>1. IsRow(row, l.id, Target[l.column], row[j].project)
        BY <1>8, <2>1, LinkFields
      <4> QED
        BY <1>7, <4>1 DEF IsRow
    <3>3. S[j].links = {l \in row[j].links : l.column = "character" => S[l.id].live}
      BY <1>8, <2>1, <3>2
    <3> QED
      BY <1>8, <2>1, <3>1, <3>3
  <2>2. \A j \in DOMAIN row : S[j].live => row[j].live
    BY <1>8
  <2>3. \A j \in DOMAIN row : S[j].live =>
          /\ row[j].version \in Nat /\ S[j].version \in Nat /\ row[j].version <= S[j].version
          /\ S[j].version = row[j].version =>
               /\ S[j].text = row[j].text /\ S[j].status = row[j].status
               /\ S[j].links = {l \in row[j].links : l.column = "character" => S[l.id].live}
    <3> SUFFICES ASSUME NEW j \in DOMAIN row, S[j].live
                 PROVE  /\ row[j].version \in Nat /\ S[j].version \in Nat
                        /\ row[j].version <= S[j].version
                        /\ S[j].text = row[j].text /\ S[j].status = row[j].status
                        /\ S[j].links =
                             {l \in row[j].links : l.column = "character" => S[l.id].live}
      OBVIOUS
    <3> QED
      BY <2>1
  <2> QED
    BY <1>1, <1>4, <2>2, <2>3, FormStays
<1> QED
  BY <1>15, <1>16 DEF S

\* A project that is imported: its rows come behind the others, with new ids.
LEMMA TableImported ==
  ASSUME GraphInv, NEW p \in Projects, ReferencesValid(p), row' = row \o Renamed(p)
  PROVE  SoundTable(row', current) /\ Filled(row', form)
<1> DEFINE n == Len(row)
           S == row'
           Moved(l) == Link(l.column, n + l.id)
           Copy(k) == [Portable(row[k]) EXCEPT !.project = n + p,
                                               !.links = {Link(l.column, n + l.id) : l \in @}]
<1>1. SoundTable(row, current) /\ Filled(row, form)
  BY DEF GraphInv, SoundRows
<1>2. /\ DOMAIN row = 1..n /\ n \in Nat /\ row \in Seq(AnyRow)
      /\ \A j \in DOMAIN row : row[j] \in AnyRow /\ row[j].live \in BOOLEAN
      /\ \A j \in DOMAIN row : row[j].live =>
           /\ Fits(row, row[j]) /\ row[j] \in LiveRow
           /\ row[j].kind = "project" => row[j].project = j
  BY <1>1, TableRows DEF SoundTable
<1>3. /\ p \in DOMAIN row /\ row[p].live /\ row[p].kind = "project" /\ row[p].project = p
      /\ p \in Payload(p)
  <2>1. p \in DOMAIN row /\ row[p].live /\ row[p].kind = "project"
    BY DEF Projects, Live, RowId
  <2>2. row[p].project = p
    BY <1>2, <2>1
  <2> QED
    BY <2>1, <2>2 DEF Payload, Live, RowId
<1>4. \A k \in Payload(p) : k \in DOMAIN row /\ row[k].live /\ row[k].project = p
  BY DEF Payload, Live, RowId
<1>5. ASSUME NEW k \in Payload(p)
      PROVE  /\ Copy(k) \in LiveRow /\ Copy(k).kind = row[k].kind /\ Copy(k).project = n + p
             /\ Copy(k).live /\ Copy(k).links = {Moved(l) : l \in row[k].links}
  <2>1. row[k] \in LiveRow
    BY <1>2, <1>4
  <2>2. p \in Nat
    BY <1>2, <1>3
  <2>3. Portable(row[k]) \in LiveRow /\ Portable(row[k]).kind = row[k].kind
        /\ Portable(row[k]).links = row[k].links
    BY <2>1 DEF Portable, LiveRow, Source
  <2>4. {Moved(l) : l \in row[k].links} \in SUBSET [column : Columns, id : Nat]
    <3>1. \A l \in row[k].links : Moved(l) \in [column : Columns, id : Nat]
      <4> SUFFICES ASSUME NEW l \in row[k].links
                   PROVE  Moved(l) \in [column : Columns, id : Nat]
        OBVIOUS
      <4>1. l.column \in Columns /\ l.id \in Nat
        BY <1>2, <1>4, LinkFields
      <4>2. n + l.id \in Nat
        BY <1>2, <4>1
      <4> QED
        BY <4>1, <4>2 DEF Link
    <3> HIDE DEF Moved
    <3> QED
      BY <3>1
  <2>5. PICK r, L : r = Portable(row[k]) /\ L = {Moved(l) : l \in row[k].links}
    OBVIOUS
  <2>6. Copy(k) = [r EXCEPT !.project = n + p, !.links = L]
    BY <2>3, <2>5
  <2>7. n + p \in Nat
    BY <1>2, <2>2
  <2> HIDE DEF Moved, Copy, n
  <2>8. Copy(k) = [kind |-> r.kind, project |-> n + p, links |-> L, from |-> r.from,
                   live |-> TRUE, status |-> r.status, text |-> r.text,
                   version |-> r.version, config |-> r.config]
    BY <2>3, <2>5, <2>6 DEF LiveRow
  <2>9. /\ r.kind \in Kind /\ r.from \in Source /\ r.live = TRUE /\ r.status \in Status
        /\ r.text \in {1, 2} /\ r.version \in Nat /\ r.config \in Nat \ {0}
    BY <2>3, <2>5 DEF LiveRow
  <2>10. Copy(k) \in LiveRow
    <3>1. L \in SUBSET [column : Columns, id : Nat]
      BY <2>4, <2>5
    <3> QED
      BY <2>7, <2>8, <2>9, <3>1 DEF LiveRow
  <2> QED
    BY <2>3, <2>5, <2>8, <2>10
<1>6. /\ DOMAIN Renamed(p) = 1..n
      /\ \A k \in 1..n : Renamed(p)[k] = IF k \in Payload(p) THEN Copy(k) ELSE Gone
  BY <1>2 DEF Renamed, RowId
<1> HIDE DEF Copy, Moved
<1>7. Renamed(p) \in Seq(AnyRow) /\ Len(Renamed(p)) = n
  <2>1. \A k \in 1..n : Renamed(p)[k] \in AnyRow
    BY <1>5, <1>6 DEF AnyRow
  <2>2. Renamed(p) = [k \in 1..n |-> Renamed(p)[k]]
    BY <1>2 DEF Renamed, RowId
  <2> HIDE DEF AnyRow, n
  <2>3. Renamed(p) \in [1..n -> AnyRow]
    BY <2>1, <2>2
  <2>4. Renamed(p) \in Seq(AnyRow)
    BY <1>2, <2>3, SeqDef
  <2>5. Len(Renamed(p)) = n
    BY <1>2, <1>6, <2>4
  <2> QED
    BY <2>4, <2>5
<1>8. /\ S \in Seq(AnyRow) /\ DOMAIN S = 1..(n + n)
      /\ \A j \in 1..n : S[j] = row[j] /\ S[n + j] = Renamed(p)[j]
  <2> HIDE DEF AnyRow
  <2>1. row \in Seq(AnyRow) /\ Renamed(p) \in Seq(AnyRow) /\ Len(row) = n /\ Len(Renamed(p)) = n
    BY <1>2, <1>7
  <2>1a. /\ row \o Renamed(p) \in Seq(AnyRow)
         /\ Len(row \o Renamed(p)) = Len(row) + Len(Renamed(p))
    BY <2>1, ConcatProperties
  <2>2. S \in Seq(AnyRow) /\ Len(S) = n + n
    BY <2>1, <2>1a
  <2>3. \A j \in 1..(n + n) : S[j] = IF j <= n THEN row[j] ELSE Renamed(p)[j - n]
    BY <1>2, <2>1, <2>2, ConcatProperties
  <2> HIDE DEF n, S
  <2>4. \A j \in 1..n : j \in 1..(n + n) /\ n + j \in 1..(n + n) /\ ~(n + j <= n) /\ (n + j) - n = j
    BY <1>2
  <2>5. \A j \in 1..n : S[j] = row[j] /\ S[n + j] = Renamed(p)[j]
    BY <2>3, <2>4, <1>2
  <2>6. DOMAIN S = 1..(n + n)
    BY <2>2
  <2> QED
    BY <2>2, <2>5, <2>6
<1> HIDE DEF S, n
<1>9. ~Gone.live
  BY DEF Gone
<1>9a. \A a, b \in 1..n : n + a \notin 1..n /\ (n + a = n + b => a = b)
  BY <1>2
<1>10. ASSUME NEW j \in DOMAIN S, S[j].live
       PROVE  \/ j \in DOMAIN row /\ S[j] = row[j]
              \/ \E k \in Payload(p) : j = n + k /\ S[j] = Copy(k)
  <2>1. CASE j \in 1..n
    BY <1>2, <1>8, <2>1
  <2>2. CASE j \notin 1..n
    <3>1. PICK k \in 1..n : j = n + k
      <4>1. j - n \in 1..n /\ j = n + (j - n)
        BY <1>2, <1>8, <2>2
      <4> QED
        BY <4>1
    <3>2. S[j] = Renamed(p)[k]
      BY <1>8, <3>1
    <3>3. k \in Payload(p) /\ S[j] = Copy(k)
      BY <1>6, <1>9, <1>10, <3>2
    <3> QED
      BY <3>1, <3>3
  <2> QED
    BY <2>1, <2>2
<1>11. \A j \in DOMAIN row : j \in DOMAIN S /\ S[j] = row[j]
  BY <1>2, <1>8
<1>12. \A k \in Payload(p) : n + k \in DOMAIN S /\ S[n + k] = Copy(k) /\ k \in 1..n
  <2> SUFFICES ASSUME NEW k \in Payload(p)
               PROVE  n + k \in DOMAIN S /\ S[n + k] = Copy(k) /\ k \in 1..n
    OBVIOUS
  <2>1. k \in 1..n
    BY <1>2, <1>4
  <2>2. n + k \in 1..(n + n)
    BY <1>2, <2>1
  <2> QED
    BY <1>6, <1>8, <2>1, <2>2
<1>13. ASSUME NEW k \in Payload(p), NEW kinds, row[k].kind \in kinds
       PROVE  IsRow(S, n + k, kinds, n + p)
  BY <1>5, <1>12, <1>13 DEF IsRow
<1>14. ASSUME NEW j, NEW kinds, NEW q, IsRow(row, j, kinds, q)
       PROVE  IsRow(S, j, kinds, q)
  BY <1>11, <1>14 DEF IsRow
<1>15. ASSUME NEW k \in Payload(p)
       PROVE  Fits(S, Copy(k))
  <2>1. Copy(k) \in LiveRow /\ Copy(k).kind = row[k].kind /\ Copy(k).project = n + p
        /\ Copy(k).links = {Moved(l) : l \in row[k].links}
    BY <1>5
  <2>2. Fits(row, row[k]) /\ Shaped(row[k]) /\ row[k] \in LiveRow
    BY <1>2, <1>4 DEF Fits
  <2>3. \A l \in row[k].links : Moved(l).column = l.column /\ Moved(l).id = n + l.id /\ l.id \in Nat
    BY <1>2, <2>2, LinkFields DEF Moved, Link
  <2>4. \A l \in row[k].links : l.id \in Payload(p) /\ row[l.id].kind \in
          (IF l.column = "cites" THEN {"material"} ELSE Target[l.column])
    <3> SUFFICES ASSUME NEW l \in row[k].links
                 PROVE  l.id \in Payload(p) /\ row[l.id].kind \in
                          (IF l.column = "cites" THEN {"material"} ELSE Target[l.column])
      OBVIOUS
    <3>1. CASE l.column = "cites"
      <4>1. SourceIdsKnown(p, k)
        BY DEF ReferencesValid
      <4>2. l.id \in Linked(k, "cites")
        BY <3>1 DEF Linked
      <4> QED
        BY <3>1, <4>1, <4>2 DEF SourceIdsKnown
    <3>2. CASE l.column # "cites"
      BY <3>2 DEF ReferencesValid
    <3> QED
      BY <3>1, <3>2
  <2>5. ASSUME NEW m \in Copy(k).links
        PROVE  Refers(S, m, n + p)
    <3>1. PICK l \in row[k].links : m = Moved(l)
      BY <2>1, <2>5
    <3>2. m.column = l.column /\ m.id = n + l.id /\ l.id \in Payload(p)
      BY <2>3, <2>4, <3>1
    <3>3. IsRow(S, m.id, IF l.column = "cites" THEN {"material"} ELSE Target[l.column], n + p)
      BY <1>13, <2>4, <3>2
    <3> QED
      BY <3>2, <3>3 DEF Refers, IsRow
  <2>6. Shaped(Copy(k))
    <3>1. \A m \in Copy(k).links : \E l \in row[k].links : m = Moved(l)
      BY <2>1
    <3>2. \A l \in row[k].links : Moved(l) \in Copy(k).links
      BY <2>1
    <3>3. \A m \in Copy(k).links : Copy(k).kind \in Bearer[m.column]
      BY <2>1, <2>2, <2>3, <3>1 DEF Shaped
    <3>4. \A l, m \in Copy(k).links : l.column = "source" /\ m.column = "target" => l.id # m.id
      <4> SUFFICES ASSUME NEW l \in Copy(k).links, NEW m \in Copy(k).links,
                          l.column = "source", m.column = "target", l.id = m.id
                   PROVE  FALSE
        OBVIOUS
      <4>1. PICK x \in row[k].links : l = Moved(x)
        BY <3>1
      <4>2. PICK y \in row[k].links : m = Moved(y)
        BY <3>1
      <4>3. x.column = "source" /\ y.column = "target" /\ x.id = y.id
        BY <1>2, <2>3, <4>1, <4>2
      <4> QED
        BY <2>2, <4>3 DEF Shaped
    <3>5. Copy(k).kind = "relation" =>
            \A c \in {"source", "target"} : \E l \in Copy(k).links : l.column = c
      BY <2>1, <2>2, <2>3, <3>2 DEF Shaped
    <3>6. Copy(k).kind \in Outlines =>
            \E l \in Copy(k).links :
              l.column = "volume" /\ \A m \in Copy(k).links : m.column = "volume" => m = l
      <4> SUFFICES ASSUME Copy(k).kind \in Outlines
                   PROVE  \E l \in Copy(k).links :
                            /\ l.column = "volume"
                            /\ \A m \in Copy(k).links : m.column = "volume" => m = l
        OBVIOUS
      <4>1. PICK l \in row[k].links :
                   l.column = "volume" /\ \A m \in row[k].links : m.column = "volume" => m = l
        BY <2>1, <2>2 DEF Shaped
      <4>2. Moved(l) \in Copy(k).links /\ Moved(l).column = "volume"
        BY <2>3, <3>2, <4>1
      <4>3. \A m \in Copy(k).links : m.column = "volume" => m = Moved(l)
        BY <2>3, <3>1, <4>1
      <4> QED
        BY <4>2, <4>3
    <3> QED
      BY <3>3, <3>4, <3>5, <3>6 DEF Shaped
  <2> QED
    BY <2>1, <2>5, <2>6 DEF Fits
<1>16. ASSUME NEW j \in DOMAIN S, S[j].live
       PROVE  /\ Fits(S, S[j])
              /\ IsRow(S, S[j].project, {"project"}, S[j].project)
              /\ S[j].kind = "project" => S[j].project = j
  <2>1. CASE j \in DOMAIN row /\ S[j] = row[j]
    <3>1. Fits(row, row[j]) /\ row[j].live
      BY <1>2, <1>16, <2>1
    <3>2. Fits(S, row[j])
      BY <1>11, <3>1, StillFits
    <3>3. IsRow(row, row[j].project, {"project"}, row[j].project)
          /\ (row[j].kind = "project" => row[j].project = j)
      BY <1>1, <2>1, <3>1, TableRows
    <3> QED
      BY <1>14, <2>1, <3>2, <3>3
  <2>2. CASE \E k \in Payload(p) : j = n + k /\ S[j] = Copy(k)
    <3>1. PICK k \in Payload(p) : j = n + k /\ S[j] = Copy(k)
      BY <2>2
    <3>2. Fits(S, S[j]) /\ S[j].project = n + p /\ S[j].kind = row[k].kind
      BY <1>5, <1>15, <3>1
    <3>3. IsRow(S, n + p, {"project"}, n + p)
      BY <1>3, <1>13
    <3>4. row[k].kind = "project" => k = p
      BY <1>2, <1>4
    <3> QED
      BY <3>1, <3>2, <3>3, <3>4
  <2> QED
    BY <1>10, <1>16, <2>1, <2>2
<1>17. ASSUME NEW j \in DOMAIN S, NEW k \in DOMAIN S, S[j].live, S[k].live,
              S[j].kind = "volume outline", S[k].kind = "volume outline",
              NEW l \in S[j].links, l.column = "volume", l \in S[k].links
       PROVE  j = k
  <2>1. ASSUME NEW x \in Payload(p), S[j] = Copy(x)
        PROVE  \E y \in row[x].links : l = Moved(y) /\ y.column = "volume" /\ l.id = n + y.id
                                        /\ y.id \in 1..n /\ row[x].kind = "volume outline"
    <3>1. PICK y \in row[x].links : l = Moved(y)
      BY <1>5, <1>17, <2>1
    <3>2. Fits(row, row[x]) /\ row[x].kind = "volume outline"
      BY <1>2, <1>4, <1>5, <1>17, <2>1
    <3>3. y.id \in 1..n
      BY <1>2, <3>2, LinkFields
    <3> QED
      BY <1>17, <3>1, <3>2, <3>3 DEF Moved, Link
  <2>2. ASSUME NEW x \in Payload(p), S[k] = Copy(x)
        PROVE  \E y \in row[x].links : l = Moved(y) /\ y.column = "volume" /\ l.id = n + y.id
                                        /\ y.id \in 1..n /\ row[x].kind = "volume outline"
    <3>1. PICK y \in row[x].links : l = Moved(y)
      BY <1>5, <1>17, <2>2
    <3>2. Fits(row, row[x]) /\ row[x].kind = "volume outline"
      BY <1>2, <1>4, <1>5, <1>17, <2>2
    <3>3. y.id \in 1..n
      BY <1>2, <3>2, LinkFields
    <3> QED
      BY <1>17, <3>1, <3>2, <3>3 DEF Moved, Link
  <2>3. ASSUME NEW x \in DOMAIN row, row[x].live, l \in row[x].links
        PROVE  l.id \in 1..n
    BY <1>2, <2>3, LinkFields
  <2>4. CASE j \in DOMAIN row /\ S[j] = row[j]
    <3>1. CASE k \in DOMAIN row /\ S[k] = row[k]
      BY <1>1, <1>17, <2>4, <3>1 DEF SoundTable
    <3>2. CASE \E x \in Payload(p) : k = n + x /\ S[k] = Copy(x)
      <4>1. l.id \in 1..n
        BY <1>17, <2>3, <2>4
      <4>2. \E m \in 1..n : l.id = n + m
        BY <2>2, <3>2
      <4> QED
        BY <1>9a, <4>1, <4>2
    <3> QED
      BY <1>10, <1>17, <3>1, <3>2
  <2>5. CASE \E x \in Payload(p) : j = n + x /\ S[j] = Copy(x)
    <3>1. PICK x \in Payload(p) : j = n + x /\ S[j] = Copy(x)
      BY <2>5
    <3>2. PICK y \in row[x].links : y.column = "volume" /\ l.id = n + y.id
                                     /\ y.id \in 1..n /\ row[x].kind = "volume outline"
      BY <2>1, <3>1
    <3>3. CASE k \in DOMAIN row /\ S[k] = row[k]
      <4>1. l.id \in 1..n
        BY <1>17, <2>3, <3>3
      <4> QED
        BY <1>9a, <3>2, <4>1
    <3>4. CASE \E z \in Payload(p) : k = n + z /\ S[k] = Copy(z)
      <4>1. PICK z \in Payload(p) : k = n + z /\ S[k] = Copy(z)
        BY <3>4
      <4>2. PICK w \in row[z].links : w.column = "volume" /\ l.id = n + w.id
                                       /\ w.id \in 1..n /\ row[z].kind = "volume outline"
        BY <2>2, <4>1
      <4>3. w.id = y.id
        BY <1>9a, <3>2, <4>2
      <4>4. Fits(row, row[x]) /\ Fits(row, row[z]) /\ row[x].live /\ row[z].live
            /\ x \in DOMAIN row /\ z \in DOMAIN row
        BY <1>2, <1>4
      <4>5. w = y
        BY <3>2, <4>2, <4>3, <4>4, LinkFields
      <4>6. x = z
        BY <1>1, <3>2, <4>2, <4>4, <4>5 DEF SoundTable
      <4> QED
        BY <3>1, <4>1, <4>6
    <3> QED
      BY <1>10, <1>17, <3>3, <3>4
  <2> QED
    BY <1>10, <1>17, <2>4, <2>5
<1>18. current = 0 \/ IsRow(S, current, {"project"}, current)
  BY <1>1, <1>14 DEF SoundTable
<1>19. SoundTable(S, current)
  BY <1>8, <1>16, <1>17, <1>18 DEF SoundTable
<1>20. Filled(S, form)
  BY <1>1, <1>2, <1>11, FormKept
<1> QED
  BY <1>19, <1>20 DEF S

-----------------------------------------------------------------------------
(* What the repositories write.                                            *)

\* A save or a deletion takes a form away that shows the row as it is stored.
FormUsed ==
  \/ form' = form
  \/ form' = NoForm /\ form.id \in Live /\ form.version = row[form.id].version

\* What Append leaves of the rows.
LEMMA Appended ==
  ASSUME NEW T, NEW R \in Seq(T), NEW q \in T
  PROVE  \A j \in DOMAIN R : j \in DOMAIN Append(R, q) /\ Append(R, q)[j] = R[j]
<1>1. DOMAIN R = 1..Len(R) /\ Len(R) \in Nat
  OBVIOUS
<1>2. /\ Append(R, q) \in Seq(T) /\ Len(Append(R, q)) = Len(R) + 1
      /\ \A j \in 1..Len(R) : Append(R, q)[j] = R[j]
  BY AppendProperties
<1>3. DOMAIN Append(R, q) = 1..(Len(R) + 1)
  BY <1>2
<1>4. \A j \in 1..Len(R) : j \in 1..(Len(R) + 1)
  BY <1>1
<1> QED
  BY <1>1, <1>2, <1>3, <1>4

\* Versions only grow.
LEMMA NextVersion == \A v \in Nat : v <= v /\ v + 1 \in Nat /\ v <= v + 1 /\ v + 1 # v
  OBVIOUS

\* A row with the links of one that fits fits as well.
LEMMA SameLinksFit ==
  ASSUME NEW R, NEW r, Fits(R, r), NEW q \in LiveRow, q.kind = r.kind, q.project = r.project,
         q.links = r.links
  PROVE  Fits(R, q)
  BY DEF Fits, Shaped

\* The fields of a row that was written.
LEMMA FieldsWritten ==
  ASSUME NEW r \in LiveRow, NEW q,
         \/ q = [r EXCEPT !.version = @ + 1]
         \/ q = [[r EXCEPT !.text = 3 - @] EXCEPT !.version = @ + 1]
  PROVE  /\ q \in LiveRow /\ q.kind = r.kind /\ q.project = r.project /\ q.links = r.links
         /\ q.version = r.version + 1
<1>1. /\ r.kind \in Kind /\ r.project \in Nat /\ r.status \in Status /\ r.text \in {1, 2}
      /\ r.from \in Source /\ r.config \in Nat \ {0} /\ r.version \in Nat
      /\ r.links \in SUBSET [column : Columns, id : Nat]
      /\ r = [kind |-> r.kind, project |-> r.project, links |-> r.links, from |-> r.from,
              live |-> TRUE, status |-> r.status, text |-> r.text, version |-> r.version,
              config |-> r.config]
  BY DEF LiveRow
<1>2. \E t \in {1, 2} :
        q = [kind |-> r.kind, project |-> r.project, links |-> r.links, from |-> r.from,
             live |-> TRUE, status |-> r.status, text |-> t, version |-> r.version + 1,
             config |-> r.config]
  <2>1. CASE q = [r EXCEPT !.version = @ + 1]
    <3>1. q = [kind |-> r.kind, project |-> r.project, links |-> r.links, from |-> r.from,
               live |-> TRUE, status |-> r.status, text |-> r.text, version |-> r.version + 1,
               config |-> r.config]
      BY <1>1, <2>1 DEF LiveRow
    <3> QED
      BY <1>1, <3>1
  <2>2. CASE q = [[r EXCEPT !.text = 3 - @] EXCEPT !.version = @ + 1]
    <3>1. 3 - r.text \in {1, 2}
      BY <1>1
    <3>2. q = [kind |-> r.kind, project |-> r.project, links |-> r.links, from |-> r.from,
               live |-> TRUE, status |-> r.status, text |-> 3 - r.text,
               version |-> r.version + 1, config |-> r.config]
      BY <1>1, <2>2 DEF LiveRow
    <3> QED
      BY <3>1, <3>2
  <2> QED
    BY <2>1, <2>2
<1>3. r.version + 1 \in Nat
  BY <1>1
<1>4. q \in LiveRow
  <2>1. PICK n : n = r.version + 1
    OBVIOUS
  <2>2. n \in Nat
    BY <1>3, <2>1
  <2>3. PICK t \in {1, 2} :
             q = [kind |-> r.kind, project |-> r.project, links |-> r.links, from |-> r.from,
                  live |-> TRUE, status |-> r.status, text |-> t, version |-> n,
                  config |-> r.config]
    BY <1>2, <2>1
  <2> QED
    BY <1>1, <2>2, <2>3, RowMade
<1> QED
  BY <1>2, <1>4

\* A row is written with its version: what it names is right, and the form true.
LEMMA WriteKeeps ==
  ASSUME GraphInv, NEW i \in Live, NEW change, Fits(row, change),
         change.kind = row[i].kind, change.project = row[i].project,
         change.version = row[i].version,
         change.kind = "volume outline" =>
           \A l \in change.links : l.column = "volume" => l \in row[i].links,
         Write(i, change) \/ SetText(i, change)
  PROVE  GraphInv' /\ FormUsed
<1>1. SoundTable(row, current) /\ Filled(row, form)
  BY DEF GraphInv, SoundRows
<1>2. i \in DOMAIN row /\ row[i].live
  BY DEF Live, RowId
<1>3. /\ DOMAIN row = 1..Len(row) /\ \A j \in DOMAIN row : row[j] \in AnyRow /\ j # 0
      /\ \A j \in DOMAIN row : row[j].live => row[j] \in LiveRow /\ Fits(row, row[j])
  BY <1>1, TableRows
<1>4. PICK q : /\ \/ q = [change EXCEPT !.version = @ + 1]
                  \/ q = [[change EXCEPT !.text = 3 - @] EXCEPT !.version = @ + 1]
               /\ row' = [row EXCEPT ![i] = q]
  <2>1. CASE Write(i, change)
    BY <2>1 DEF Write
  <2>2. CASE SetText(i, change)
    BY <2>2 DEF Write, SetText
  <2> QED
    BY <2>1, <2>2
<1>5. Expected(i) /\ current' = current
  BY DEF Write, SetText
<1>6. change \in LiveRow
  BY DEF Fits
<1>7. /\ q \in LiveRow /\ q.kind = row[i].kind /\ q.project = row[i].project
      /\ q.links = change.links /\ q.version = row[i].version + 1
  <2>1. /\ q \in LiveRow /\ q.kind = change.kind /\ q.project = change.project
        /\ q.links = change.links /\ q.version = change.version + 1
    BY <1>4, <1>6, FieldsWritten
  <2> QED
    BY <2>1
<1>8. Fits(row, q)
  BY <1>7, SameLinksFit
<1>9. SoundTable(row', current)
  BY <1>1, <1>2, <1>4, <1>7, <1>8, TableWritten
<1>10. FormUsed
  BY <1>2, <1>5 DEF Expected, FormUsed, Live, RowId
<1>11. Filled(row', form')
  <2>1. CASE form' = form
    <3> DEFINE S == row'
    <3>1. DOMAIN S = DOMAIN row /\ S[i] = q /\ \A j \in DOMAIN row : j # i => S[j] = row[j]
      BY <1>2, <1>3, <1>4
    <3> HIDE DEF S
    <3>2. q.live
      BY <1>7 DEF LiveRow
    <3>3. \A j \in DOMAIN row : S[j].live <=> row[j].live
      BY <1>2, <3>1, <3>2
    <3>4. ASSUME NEW j \in DOMAIN row, S[j].live
          PROVE  /\ row[j].version \in Nat /\ S[j].version \in Nat
                 /\ row[j].version <= S[j].version
                 /\ S[j].version = row[j].version =>
                      /\ S[j].text = row[j].text /\ S[j].status = row[j].status
                      /\ S[j].links = {l \in row[j].links : l.column = "character" => S[l.id].live}
      <4>1. row[j].version \in Nat /\ Fits(row, row[j]) /\ row[j].live
        BY <1>3, <3>3, <3>4, RowFields
      <4>2. CASE j = i
        <5>1. S[j].version = row[j].version + 1
          BY <1>7, <3>1, <4>2
        <5>2. /\ S[j].version \in Nat /\ row[j].version <= S[j].version
              /\ S[j].version # row[j].version
          BY <4>1, <5>1, NextVersion
        <5> QED
          BY <4>1, <5>2
      <4>3. CASE j # i
        <5>1. \A l \in row[j].links : l.column = "character" => S[l.id].live
          BY <3>3, <4>1, LinkFields DEF IsRow
        <5>2. row[j].links = {l \in row[j].links : l.column = "character" => S[l.id].live}
          BY <5>1
        <5>3. S[j] = row[j] /\ row[j].version <= row[j].version
          BY <3>1, <4>1, <4>3, NextVersion
        <5> QED
          BY <4>1, <5>2, <5>3
      <4> QED
        BY <4>2, <4>3
    <3>5. \A j \in DOMAIN row : S[j].live =>
            /\ row[j].version \in Nat /\ S[j].version \in Nat
            /\ row[j].version <= S[j].version
            /\ S[j].version = row[j].version =>
                 /\ S[j].text = row[j].text /\ S[j].status = row[j].status
                 /\ S[j].links = {l \in row[j].links : l.column = "character" => S[l.id].live}
      BY <3>4
    <3>6. DOMAIN row \subseteq DOMAIN S /\ \A j \in DOMAIN row : S[j].live => row[j].live
      BY <3>1, <3>3
    <3>7. Filled(S, form)
      BY <1>1, <3>5, <3>6, FormStays
    <3> QED
      BY <2>1, <3>7 DEF S
  <2>2. CASE form' = NoForm
    BY <2>2 DEF Filled
  <2> QED
    BY <1>10, <2>1, <2>2 DEF FormUsed
<1> QED
  BY <1>5, <1>9, <1>10, <1>11 DEF GraphInv, SoundRows

\* A row comes behind the others: the form stays true.
LEMMA FormOutlives ==
  ASSUME NEW R, NEW c, SoundTable(R, c), NEW q \in LiveRow, NEW f, Filled(R, f)
  PROVE  Filled(Append(R, q), f)
<1>1. R \in Seq(AnyRow)
  BY DEF SoundTable
<1>2. q \in AnyRow
  BY DEF AnyRow
<1>3. \A j \in DOMAIN R : j \in DOMAIN Append(R, q) /\ Append(R, q)[j] = R[j]
  BY <1>1, <1>2, Appended
<1> QED
  BY <1>3, FormKept

\* A row is made in a project.
LEMMA InsertKeeps ==
  ASSUME GraphInv, NEW q, Fits(row, q), q.kind # "project", q.project \in Projects,
         row' = Append(row, q), UNCHANGED <<current, form>>, FirstOfItsVolume(row, q)
  PROVE  GraphInv' /\ FormUsed
<1>1. SoundTable(row, current) /\ Filled(row, form)
  BY DEF GraphInv, SoundRows
<1>2. IsRow(row, q.project, {"project"}, q.project)
  BY <1>1, TableRows DEF IsRow, Projects, Live, RowId
<1>4. SoundTable(Append(row, q), current)
  BY <1>1, <1>2, TableGrows
<1>5. Filled(Append(row, q), form)
  BY <1>1, FormOutlives DEF Fits
<1>6. row' = Append(row, q) /\ current' = current /\ form' = form
  OBVIOUS
<1>7. SoundTable(row', current') /\ Filled(row', form')
  BY <1>4, <1>5, <1>6
<1>8. GraphInv'
  BY <1>7 DEF GraphInv, SoundRows
<1>9. FormUsed
  BY <1>6 DEF FormUsed
<1> QED
  BY <1>8, <1>9

\* A project is made.
LEMMA InsertProjectKeeps ==
  ASSUME GraphInv, NEW selected, InsertProject(selected)
  PROVE  GraphInv' /\ FormUsed
<1> DEFINE n == Len(row) + 1
           q == NewProject(n)
<1>1. SoundTable(row, current) /\ Filled(row, form)
  BY DEF GraphInv, SoundRows
<1>2. n \in Nat /\ row \in Seq(AnyRow)
  <2>1. Len(row) \in Nat /\ row \in Seq(AnyRow)
    BY <1>1, TableRows DEF SoundTable
  <2> HIDE DEF AnyRow
  <2> QED
    BY <2>1
<1>3. /\ q.kind = "project" /\ q.project = n /\ q.links = {} /\ q \in LiveRow
  <2> HIDE DEF n
  <2> QED
    BY <1>2 DEF NewProject, New, LiveRow, Kind, Source, Status
<1>4. row' = Append(row, q) /\ current' \in {current, n} /\ form' = form
  BY DEF InsertProject
<1> HIDE DEF q
<1>5. Fits(row, q)
  BY <1>3 DEF Fits, Shaped, Outlines
<1>6. SoundTable(row', current')
  BY <1>1, <1>3, <1>4, <1>5, TableGrows DEF FirstOfItsVolume
<1>7. \A j \in DOMAIN row : j \in DOMAIN row' /\ row'[j] = row[j]
  <2>1. q \in AnyRow
    BY <1>3 DEF AnyRow
  <2> QED
    BY <1>2, <1>4, <2>1, Appended
<1>8. Filled(row', form)
  BY <1>1, <1>7, FormKept
<1> QED
  BY <1>4, <1>6, <1>8 DEF GraphInv, SoundRows, FormUsed

\* The settings of a project are written; its row is as it was.
LEMMA SaveConfigKeeps ==
  ASSUME GraphInv, NEW p \in Projects, SaveConfig(p)
  PROVE  GraphInv' /\ FormUsed
<1>1. SoundTable(row, current) /\ Filled(row, form)
  BY DEF GraphInv, SoundRows
<1>2. p \in DOMAIN row /\ row[p].live /\ row[p] \in LiveRow /\ Fits(row, row[p])
      /\ row[p].kind = "project"
  <2>1. p \in DOMAIN row /\ row[p].live /\ row[p].kind = "project"
    BY DEF Projects, Live, RowId
  <2> QED
    BY <1>1, <2>1, TableRows
<1>3. PICK q : q = [row[p] EXCEPT !.config = @ + 1]
  OBVIOUS
<1>4. row' = [row EXCEPT ![p] = q] /\ current' = current /\ form' = form
  BY <1>3 DEF SaveConfig
<1>5. /\ q \in LiveRow /\ q.kind = row[p].kind /\ q.project = row[p].project
      /\ q.links = row[p].links /\ q.version = row[p].version /\ q.text = row[p].text
      /\ q.status = row[p].status /\ q.live
  <2>1. PICK r : r = row[p]
    OBVIOUS
  <2>2. r \in LiveRow /\ q = [r EXCEPT !.config = @ + 1]
    BY <1>2, <1>3, <2>1
  <2>2a. /\ r.kind \in Kind /\ r.project \in Nat /\ r.status \in Status /\ r.text \in {1, 2}
         /\ r.from \in Source /\ r.config + 1 \in Nat \ {0} /\ r.version \in Nat
         /\ r.links \in SUBSET [column : Columns, id : Nat]
         /\ q = [kind |-> r.kind, project |-> r.project, links |-> r.links, from |-> r.from,
                 live |-> TRUE, status |-> r.status, text |-> r.text, version |-> r.version,
                 config |-> r.config + 1]
    <3>1. /\ r.kind \in Kind /\ r.project \in Nat /\ r.status \in Status /\ r.text \in {1, 2}
          /\ r.from \in Source /\ r.config \in Nat \ {0} /\ r.version \in Nat
          /\ r.links \in SUBSET [column : Columns, id : Nat]
      BY <2>2 DEF LiveRow
    <3>2. r.config + 1 \in Nat \ {0}
      BY <3>1, NextVersion
    <3>3. q = [kind |-> r.kind, project |-> r.project, links |-> r.links, from |-> r.from,
               live |-> TRUE, status |-> r.status, text |-> r.text, version |-> r.version,
               config |-> r.config + 1]
      BY <2>2 DEF LiveRow
    <3> QED
      BY <3>1, <3>2, <3>3
  <2>3. /\ q \in LiveRow /\ q.kind = r.kind /\ q.project = r.project
        /\ q.links = r.links /\ q.version = r.version /\ q.text = r.text
        /\ q.status = r.status /\ q.live
    BY <2>2a, RowMade
  <2> QED
    BY <2>1, <2>3
<1>6. Fits(row, q)
  BY <1>2, <1>5, SameLinksFit
<1>7. SoundTable(row', current)
  BY <1>1, <1>2, <1>4, <1>5, <1>6, TableWritten
<1>8. Filled(row', form)
  <2> DEFINE S == row'
  <2>1. DOMAIN row = 1..Len(row) /\ \A j \in DOMAIN row : row[j].live =>
          row[j] \in LiveRow /\ Fits(row, row[j])
    BY <1>1, TableRows
  <2>2. DOMAIN S = DOMAIN row /\ S[p] = q /\ \A j \in DOMAIN row : j # p => S[j] = row[j]
    BY <1>2, <1>4, <2>1
  <2> HIDE DEF S
  <2>3. \A j \in DOMAIN row : S[j].live <=> row[j].live
    BY <1>2, <1>5, <2>2
  <2>4. ASSUME NEW j \in DOMAIN row, S[j].live
        PROVE  /\ row[j].version \in Nat /\ S[j].version = row[j].version
               /\ S[j].text = row[j].text /\ S[j].status = row[j].status
               /\ S[j].links = {l \in row[j].links : l.column = "character" => S[l.id].live}
    <3>1. row[j].live /\ Fits(row, row[j]) /\ row[j].version \in Nat
      BY <2>1, <2>3, <2>4 DEF LiveRow
    <3>2. \A l \in row[j].links : l.column = "character" => S[l.id].live
      BY <2>3, <3>1, LinkFields DEF IsRow
    <3>3. row[j].links = {l \in row[j].links : l.column = "character" => S[l.id].live}
      BY <3>2
    <3>4. /\ S[j].version = row[j].version /\ S[j].text = row[j].text
          /\ S[j].status = row[j].status /\ S[j].links = row[j].links
      BY <1>5, <2>2
    <3> QED
      BY <3>1, <3>3, <3>4
  <2>5. ASSUME NEW j \in DOMAIN row, S[j].live
        PROVE  /\ row[j].version \in Nat /\ S[j].version \in Nat
               /\ row[j].version <= S[j].version
               /\ S[j].version = row[j].version =>
                    /\ S[j].text = row[j].text /\ S[j].status = row[j].status
                    /\ S[j].links = {l \in row[j].links : l.column = "character" => S[l.id].live}
    BY <2>4, <2>5
  <2>6. Filled(S, form)
    BY <1>1, <2>2, <2>3, <2>5, FormStays
  <2> QED
    BY <2>6 DEF S
<1> QED
  BY <1>4, <1>7, <1>8 DEF GraphInv, SoundRows, FormUsed

\* A row is deleted that is not the current project nor a volume with outlines.
LEMMA DeleteKeeps ==
  ASSUME GraphInv, NEW i \in Live, Delete(i), i # current,
         \A j \in Live : row[j].kind \in Outlines => i \notin Linked(j, "volume")
  PROVE  GraphInv' /\ FormUsed
<1>1. row' = [j \in RowId |-> IF j \in DeletedWith(i) THEN Gone
                              ELSE [row[j] EXCEPT !.links = Unlinked(@, DeletedWith(i))]]
      /\ Expected(i) /\ current' = current
  BY DEF Delete
<1>2. SoundTable(row', current) /\ Filled(row', form)
  BY <1>1, TableShrinks
<1>3. FormUsed
  BY <1>1 DEF Expected, FormUsed
<1>4. Filled(row', form')
  BY <1>2, <1>3 DEF FormUsed, Filled
<1> QED
  BY <1>1, <1>2, <1>3, <1>4 DEF GraphInv, SoundRows

-----------------------------------------------------------------------------
(* What the service asks of the ids it is given makes the rows fit.        *)

Links == SUBSET [column : Columns, id : Nat]

\* A row with other links, another status or another source.
LEMMA RowWithLinks ==
  ASSUME NEW r \in LiveRow, NEW L \in Links
  PROVE  LET q == [r EXCEPT !.links = L] IN
         /\ q \in LiveRow /\ q.kind = r.kind /\ q.project = r.project /\ q.version = r.version
         /\ q.links = L
  BY DEF LiveRow, Links

\* A row with another status.
LEMMA RowWithStatus ==
  ASSUME NEW r \in LiveRow, NEW to \in Status
  PROVE  LET q == [r EXCEPT !.status = to] IN
         /\ q \in LiveRow /\ q.kind = r.kind /\ q.project = r.project /\ q.version = r.version
         /\ q.links = r.links
  BY DEF LiveRow

\* A row of another source.
LEMMA RowWithSource ==
  ASSUME NEW r \in LiveRow, NEW from \in Source
  PROVE  LET q == [r EXCEPT !.from = from] IN
         /\ q \in LiveRow /\ q.kind = r.kind /\ q.project = r.project /\ q.version = r.version
         /\ q.links = r.links
  BY DEF LiveRow

\* The rows that are there.
LEMMA LiveRows ==
  ASSUME GraphInv, NEW i \in Live
  PROVE  /\ i \in DOMAIN row /\ i \in Nat /\ i # 0 /\ row[i] \in LiveRow /\ row[i].live
         /\ Fits(row, row[i]) /\ row[i].project \in Projects /\ row[i].project \in Nat
         /\ IsRow(row, i, {row[i].kind}, row[i].project)
<1>1. SoundTable(row, current) /\ i \in DOMAIN row /\ row[i].live
  BY DEF GraphInv, SoundRows, Live, RowId
<1>2. /\ i \in Nat /\ i # 0 /\ row[i] \in LiveRow /\ Fits(row, row[i])
      /\ IsRow(row, row[i].project, {"project"}, row[i].project)
  BY <1>1, TableRows
<1>3. row[i].project \in Projects
  BY <1>2 DEF IsRow, Projects, Live, RowId
<1>4. row[i].project \in Nat
  BY <1>2 DEF LiveRow
<1> QED
  BY <1>1, <1>2, <1>3, <1>4 DEF IsRow

\* A project is a row of its own.
LEMMA ProjectRows ==
  ASSUME GraphInv, NEW p \in Projects
  PROVE  p \in Live /\ p \in DOMAIN row /\ p \in Nat /\ p # 0 /\ IsRow(row, p, {"project"}, p)
<1>1. SoundTable(row, current) /\ p \in DOMAIN row /\ row[p].live /\ row[p].kind = "project"
      /\ p \in Live
  BY DEF GraphInv, SoundRows, Projects, Live, RowId
<1>2. row[p].project = p /\ p \in Nat /\ p # 0
  BY <1>1, TableRows
<1> QED
  BY <1>1, <1>2 DEF IsRow

\* A new row.
LEMMA NewRow ==
  ASSUME GraphInv, NEW kind \in Kind, NEW p \in Projects, NEW L \in Links, NEW from \in Source
  PROVE  LET q == New(kind, p, L, from) IN
         q \in LiveRow /\ q.kind = kind /\ q.project = p /\ q.links = L
<1>1. "draft" \in Status /\ 1 \in {1, 2} /\ 1 \in Nat /\ 0 \in Nat
  BY DEF Status
<1>2. p \in Nat
  BY ProjectRows
<1>3. New(kind, p, L, from) \in LiveRow
  BY <1>1, <1>2, RowMade DEF New, Links
<1> QED
  BY <1>3 DEF New

\* A row that names no other fits in any table.
LEMMA PlainFits ==
  ASSUME NEW R, NEW r \in LiveRow, r.links = {}, r.kind # "relation", r.kind \notin Outlines
  PROVE  Fits(R, r)
  BY DEF Fits, Shaped

\* assertDistinctEndpoints, assertEndpointBelongsToProject
LEMMA EndsFit ==
  ASSUME GraphInv, NEW p \in Projects, NEW a, NEW b, EndpointsAllowed(p, a, b)
  PROVE  /\ Ends(a, b) \in Links
         /\ \A r \in LiveRow : r.kind = "relation" /\ r.project = p /\ r.links = Ends(a, b)
              => Fits(row, r)
<1>1. /\ a # b
      /\ a \in Live /\ row[a].kind \in Target["source"] /\ row[a].project = p
      /\ b \in Live /\ row[b].kind \in Target["target"] /\ row[b].project = p
  <2>1. \A x \in {a, b} : x \in Live /\ row[x].project = p
          /\ row[x].kind \in {"character", "organization", "worldview"}
    BY DEF EndpointsAllowed, LiveOf
  <2> QED
    BY <2>1 DEF EndpointsAllowed, Target
<1>2. a \in Nat /\ b \in Nat /\ IsRow(row, a, Target["source"], p)
      /\ IsRow(row, b, Target["target"], p)
  <2>1. a \in Nat /\ b \in Nat
    BY <1>1, LiveRows
  <2> QED
    BY <1>1, <2>1 DEF IsRow, Live, RowId
<1>3. /\ \A l \in Ends(a, b) : l \in [column : Columns, id : Nat]
      /\ \A l \in Ends(a, b) :
           (l.column = "source" /\ l.id = a) \/ (l.column = "target" /\ l.id = b)
      /\ Link("source", a) \in Ends(a, b) /\ Link("source", a).column = "source"
      /\ Link("target", b) \in Ends(a, b) /\ Link("target", b).column = "target"
  <2>1. /\ Link("source", a) \in [column : Columns, id : Nat]
        /\ Link("target", b) \in [column : Columns, id : Nat]
        /\ Link("source", a).column = "source" /\ Link("source", a).id = a
        /\ Link("target", b).column = "target" /\ Link("target", b).id = b
    BY <1>2 DEF Link, Columns
  <2>2. \A l : l \in Ends(a, b) <=> l = Link("source", a) \/ l = Link("target", b)
    BY DEF Ends
  <2>3. ASSUME NEW l \in Ends(a, b)
        PROVE  /\ l \in [column : Columns, id : Nat]
               /\ (l.column = "source" /\ l.id = a) \/ (l.column = "target" /\ l.id = b)
    <3>1. CASE l = Link("source", a)
      BY <2>1, <3>1
    <3>2. CASE l = Link("target", b)
      BY <2>1, <3>2
    <3> QED
      BY <2>2, <3>1, <3>2
  <2>4. Link("source", a) \in Ends(a, b) /\ Link("target", b) \in Ends(a, b)
    BY <2>2
  <2> QED
    BY <2>1, <2>3, <2>4
<1>4. ASSUME NEW r \in LiveRow, r.kind = "relation", r.project = p, r.links = Ends(a, b)
      PROVE  Fits(row, r)
  <2>1. \A l \in r.links : r.kind \in Bearer[l.column] /\ Refers(row, l, p)
    BY <1>2, <1>3, <1>4 DEF Bearer, Refers
  <2>2. \A l, k \in r.links : l.column = "source" /\ k.column = "target" => l.id # k.id
    BY <1>1, <1>3, <1>4
  <2>3. \A c \in {"source", "target"} : \E l \in r.links : l.column = c
    BY <1>3, <1>4
  <2> QED
    BY <1>4, <2>1, <2>2, <2>3 DEF Fits, Shaped, Outlines
<1> QED
  BY <1>3, <1>4 DEF Links

\* OptionalCharacterOwned
LEMMA CharacterFits ==
  ASSUME GraphInv, NEW p \in Projects, NEW c, OptionalCharacterOwned(p, c)
  PROVE  /\ OfCharacter(c) \in Links
         /\ \A r \in LiveRow : r.kind = "material" /\ r.project = p /\ r.links = OfCharacter(c)
              => Fits(row, r)
<1>1. CASE c = 0
  BY <1>1, PlainFits DEF OfCharacter, Outlines, Links
<1>2. CASE c # 0
  <2>1. c \in Live /\ row[c].kind = "character" /\ row[c].project = p
    BY <1>2 DEF OptionalCharacterOwned, GetCharacter, Owns, LiveOf
  <2>2. c \in Nat /\ IsRow(row, c, Target["character"], p)
    <3>1. c \in Nat
      BY <2>1, LiveRows
    <3> QED
      BY <2>1, <3>1 DEF IsRow, Live, RowId, Target
  <2>3. /\ OfCharacter(c) \in Links
        /\ \A l \in OfCharacter(c) : l.column = "character" /\ l.id = c
    BY <1>2, <2>2 DEF OfCharacter, Link, Columns, Links
  <2>4. ASSUME NEW r \in LiveRow, r.kind = "material", r.project = p, r.links = OfCharacter(c)
        PROVE  Fits(row, r)
    <3>1. \A l \in r.links : r.kind \in Bearer[l.column] /\ Refers(row, l, p)
      BY <2>2, <2>3, <2>4 DEF Bearer, Refers
    <3> QED
      BY <2>3, <2>4, <3>1 DEF Fits, Shaped, Outlines
  <2> QED
    BY <2>3, <2>4
<1> QED
  BY <1>1, <1>2

\* The ids an outline may cite: materials of its project, or ids of what is gone.
Citable(p, ms) ==
  \A m \in ms : m \in DOMAIN row /\ (row[m].live => IsRow(row, m, {"material"}, p))

\* An outline of a volume of its project, with materials it may cite, fits.
LEMMA VolumeFits ==
  ASSUME GraphInv, NEW p \in Projects, NEW v, VolumeOfProject(p, v), NEW ms, Citable(p, ms)
  PROVE  LET L == {Link("volume", v)} \cup Cites(ms) IN
         /\ L \in Links
         /\ \A l \in L : l.column = "volume" => l = Link("volume", v)
         /\ \A r \in LiveRow : r.kind \in Outlines /\ r.project = p /\ r.links = L
              => Fits(row, r)
<1> DEFINE L == {Link("volume", v)} \cup Cites(ms)
<1>1. v \in Nat /\ IsRow(row, v, Target["volume"], p)
  <2>1. v \in Live /\ row[v].kind = "volume" /\ row[v].project = p
    BY DEF VolumeOfProject, LiveOf
  <2>2. v \in Nat
    BY <2>1, LiveRows
  <2> QED
    BY <2>1, <2>2 DEF IsRow, Live, RowId, Target
<1>2. \A m \in ms : m \in Nat
  BY TableRows DEF Citable, GraphInv, SoundRows
<1>3. \A l \in L : l = Link("volume", v) \/ \E m \in ms : l = Link("cites", m)
  BY DEF Cites
<1>4. Link("volume", v) \in L
  OBVIOUS
<1> HIDE DEF L
<1>5. \A l \in L : /\ l \in [column : Columns, id : Nat]
                   /\ l.column = "volume" => l = Link("volume", v)
                   /\ l.column \in {"volume", "cites"}
                   /\ Refers(row, l, p)
  <2> SUFFICES ASSUME NEW l \in L
               PROVE  /\ l \in [column : Columns, id : Nat]
                      /\ l.column = "volume" => l = Link("volume", v)
                      /\ l.column \in {"volume", "cites"}
                      /\ Refers(row, l, p)
    OBVIOUS
  <2>1. CASE l = Link("volume", v)
    BY <1>1, <2>1 DEF Link, Columns, Refers
  <2>2. CASE \E m \in ms : l = Link("cites", m)
    <3>1. PICK m \in ms : l = Link("cites", m)
      BY <2>2
    <3>2. m \in Nat /\ m \in DOMAIN row /\ (row[m].live => IsRow(row, m, {"material"}, p))
      BY <1>2 DEF Citable
    <3> QED
      BY <3>1, <3>2 DEF Link, Columns, Refers
  <2> QED
    BY <1>3, <2>1, <2>2
<1>6. Link("volume", v).column = "volume"
  BY DEF Link
<1>7. ASSUME NEW r \in LiveRow, r.kind \in Outlines, r.project = p, r.links = L
      PROVE  Fits(row, r)
  <2>1. \A l \in r.links : r.kind \in Bearer[l.column]
    BY <1>5, <1>7 DEF Bearer
  <2>2. \A l, k \in r.links : l.column = "source" /\ k.column = "target" => l.id # k.id
    BY <1>5, <1>7
  <2>3. r.kind # "relation"
    BY <1>7 DEF Outlines
  <2>4. \E l \in r.links : l.column = "volume" /\ \A k \in r.links : k.column = "volume" => k = l
    BY <1>4, <1>5, <1>6, <1>7
  <2> QED
    BY <1>5, <1>7, <2>1, <2>2, <2>3, <2>4 DEF Fits, Shaped
<1> QED
  BY <1>5, <1>7 DEF L, Links

\* What is selected may be cited.
LEMMA SelectedAreCitable ==
  ASSUME NEW p, NEW ms, SelectSourceMaterials(p, ms)
  PROVE  Citable(p, ms)
  BY DEF SelectSourceMaterials, GetSourceMaterial, Owns, LiveOf, Live, RowId, Citable, IsRow

\* What an outline cites already may be cited again, unread.
LEMMA CitedAreCitable ==
  ASSUME GraphInv, NEW i \in Live
  PROVE  Citable(row[i].project, Linked(i, "cites"))
<1> SUFFICES ASSUME NEW m \in Linked(i, "cites")
             PROVE  /\ m \in DOMAIN row
                    /\ row[m].live => IsRow(row, m, {"material"}, row[i].project)
  BY DEF Citable
<1>1. PICK l \in row[i].links : l.column = "cites" /\ l.id = m
  BY DEF Linked
<1>2. Fits(row, row[i])
  BY LiveRows
<1> QED
  BY <1>1, <1>2, LinkFields

\* An outline has one volume, of its project.
LEMMA TheVolume ==
  ASSUME GraphInv, NEW o \in Live, row[o].kind \in Outlines
  PROVE  /\ Linked(o, "volume") = {VolumeOf(o)}
         /\ VolumeOf(o) \in LiveOf("volume", row[o].project)
         /\ {l \in row[o].links : l.column = "volume"} = {Link("volume", VolumeOf(o))}
         /\ Link("volume", VolumeOf(o)) \in row[o].links
<1>1. Fits(row, row[o])
  BY LiveRows
<1>2. PICK l \in row[o].links :
        l.column = "volume" /\ \A k \in row[o].links : k.column = "volume" => k = l
  BY <1>1 DEF Fits, Shaped
<1>3. {k \in row[o].links : k.column = "volume"} = {l}
  BY <1>2
<1>4. Linked(o, "volume") = {l.id}
  BY <1>3 DEF Linked
<1>5. VolumeOf(o) = l.id
  BY <1>4 DEF VolumeOf
<1>6. l = Link("volume", VolumeOf(o))
  BY <1>1, <1>2, <1>5, LinkFields DEF Link
<1>7. VolumeOf(o) \in LiveOf("volume", row[o].project)
  <2>1. IsRow(row, l.id, Target["volume"], row[o].project)
    BY <1>1, <1>2, LinkFields
  <2> QED
    BY <1>5, <2>1 DEF IsRow, Target, LiveOf, Live, RowId
<1> QED
  BY <1>3, <1>4, <1>5, <1>6, <1>7

-----------------------------------------------------------------------------
(* The requests, one table at a time.                                      *)

\* A row other than a volume that is not the current project is in no outline's way.
LEMMA DeleteRow ==
  ASSUME GraphInv, NEW i \in Live, Delete(i), row[i].kind # "volume",
         row[i].kind = "project" => i # current
  PROVE  GraphInv' /\ FormUsed
<1>1. i # current
  <2>1. current = 0 \/ IsRow(row, current, {"project"}, current)
    BY DEF GraphInv, SoundRows, SoundTable
  <2>2. i # 0
    BY LiveRows
  <2> QED
    BY <2>1, <2>2 DEF IsRow
<1>2. ASSUME NEW j \in Live, i \in Linked(j, "volume")
      PROVE  FALSE
  <2>1. PICK l \in row[j].links : l.column = "volume" /\ l.id = i
    BY <1>2 DEF Linked
  <2>2. IsRow(row, i, Target["volume"], row[j].project)
    BY <2>1, LiveRows, LinkFields
  <2> QED
    BY <2>2 DEF IsRow, Target
<1> QED
  BY <1>1, <1>2, DeleteKeeps

\* A row's text is written, its links are as they were.
LEMMA TextKeeps ==
  ASSUME GraphInv, NEW i \in Live, SetText(i, row[i])
  PROVE  GraphInv' /\ FormUsed
<1>1. Fits(row, row[i])
  BY LiveRows
<1> QED
  BY <1>1, WriteKeeps

\* A row is written with other links that fit.
LEMMA LinksKeep ==
  ASSUME GraphInv, NEW i \in Live, NEW L \in Links,
         \A r \in LiveRow : r.kind = row[i].kind /\ r.project = row[i].project /\ r.links = L
           => Fits(row, r),
         row[i].kind = "volume outline" => \A l \in L : l.column = "volume" => l \in row[i].links,
         SetText(i, [row[i] EXCEPT !.links = L])
  PROVE  GraphInv' /\ FormUsed
<1>1. row[i] \in LiveRow
  BY LiveRows
<1>2. PICK q : q = [row[i] EXCEPT !.links = L]
  OBVIOUS
<1>3. /\ q \in LiveRow /\ q.kind = row[i].kind /\ q.project = row[i].project
      /\ q.version = row[i].version /\ q.links = L
  BY <1>1, <1>2, RowWithLinks
<1>4. Fits(row, q)
  BY <1>3
<1>5. SetText(i, q)
  BY <1>2
<1>6. q.kind = "volume outline" => \A l \in q.links : l.column = "volume" => l \in row[i].links
  BY <1>3
<1> QED
  BY <1>3, <1>4, <1>5, <1>6, WriteKeeps

\* The tables of a project, and those whose rows name no other.
OwnedKind == Kind \ {"project"}
PlainKind == {"character", "worldview", "organization", "material", "volume"}

\* A row is made whose links fit.
LEMMA NewKeeps ==
  ASSUME GraphInv, NEW p \in Projects, NEW kind \in OwnedKind, NEW L \in Links,
         NEW from \in Source, Insert(kind, p, L, from),
         \A r \in LiveRow : r.kind = kind /\ r.project = p /\ r.links = L => Fits(row, r),
         FirstOfItsVolume(row, New(kind, p, L, from))
  PROVE  GraphInv' /\ FormUsed
<1>1. PICK q : q = New(kind, p, L, from)
  OBVIOUS
<1>2. kind \in Kind
  BY DEF OwnedKind
<1>3. q \in LiveRow /\ q.kind = kind /\ q.project = p /\ q.links = L
  BY <1>1, <1>2, NewRow
<1>4. Fits(row, q)
  BY <1>3
<1>5. row' = Append(row, q) /\ current' = current /\ form' = form
  BY <1>1 DEF Insert
<1>6. FirstOfItsVolume(row, q)
  BY <1>1
<1>7. q.kind # "project"
  BY <1>3 DEF OwnedKind
<1> QED
  BY <1>3, <1>4, <1>5, <1>6, <1>7, InsertKeeps

\* A row without links is made.
LEMMA NewPlainKeeps ==
  ASSUME GraphInv, NEW p \in Projects, NEW from \in Source, NEW kind \in PlainKind,
         Insert(kind, p, {}, from)
  PROVE  GraphInv' /\ FormUsed
<1>1. kind # "volume outline" /\ kind # "relation" /\ kind \notin Outlines
  BY DEF Outlines, PlainKind
<1>2. kind \in OwnedKind
  BY DEF Kind, Outlines, OwnedKind, PlainKind
<1>3. \A r \in LiveRow : r.kind = kind /\ r.project = p /\ r.links = {} => Fits(row, r)
  BY <1>1, PlainFits
<1>4. {} \in Links
  BY DEF Links
<1>5. FirstOfItsVolume(row, New(kind, p, {}, from))
  BY <1>1 DEF FirstOfItsVolume, New
<1> QED
  BY <1>2, <1>3, <1>4, <1>5, NewKeeps

\* CreateProject, SelectProject, UpdateProject, DeleteProject.
LEMMA ProjectSteps ==
  ASSUME GraphInv, ProjectRequest
  PROVE  GraphInv' /\ FormUsed
<1>1. ASSUME NEW selected \in BOOLEAN, CreateProject(selected)
      PROVE  GraphInv' /\ FormUsed
  BY <1>1, InsertProjectKeeps DEF CreateProject
<1>2. ASSUME NEW p \in Projects, SelectProject(p)
      PROVE  GraphInv' /\ FormUsed
  <2>1. row' = row /\ current' = p /\ form' = form
    BY <1>2 DEF SelectProject, Select
  <2>2. IsRow(row, p, {"project"}, p)
    BY ProjectRows
  <2>3. SoundTable(row, p) /\ Filled(row, form)
    BY <2>2 DEF GraphInv, SoundRows, SoundTable
  <2>4. SoundTable(row', current') /\ Filled(row', form')
    BY <2>1, <2>3
  <2> QED
    BY <2>1, <2>4 DEF GraphInv, SoundRows, FormUsed
<1>3. ASSUME NEW p \in Projects, UpdateProject(p)
      PROVE  GraphInv' /\ FormUsed
  BY <1>3, ProjectRows, TextKeeps DEF UpdateProject, SetProject
<1>4. ASSUME NEW p \in Projects, DeleteProject(p)
      PROVE  GraphInv' /\ FormUsed
  <2>1. p \in Live /\ p # current /\ Delete(p) /\ row[p].kind = "project"
    BY <1>4, ProjectRows DEF DeleteProject, DropProject, Projects
  <2> QED
    BY <2>1, DeleteRow
<1> QED
  BY <1>1, <1>2, <1>3, <1>4 DEF ProjectRequest

\* UpdateProjectConfig.
LEMMA ConfigSteps ==
  ASSUME GraphInv, ConfigRequest
  PROVE  GraphInv' /\ FormUsed
  BY SaveConfigKeeps DEF ConfigRequest, UpdateProjectConfig

\* CreateCharacter.
LEMMA CharacterMade ==
  ASSUME GraphInv, NEW p \in Projects, NEW from \in Source, CreateCharacter(p, from)
  PROVE  GraphInv' /\ FormUsed
  BY NewPlainKeeps DEF PlainKind, CreateCharacter, InsertCharacter

\* UpdateCharacter.
LEMMA CharacterWritten ==
  ASSUME GraphInv, NEW p, NEW i, NEW from \in Source, UpdateCharacter(p, i, from)
  PROVE  GraphInv' /\ FormUsed
<1>1. i \in Live /\ row[i].kind = "character" /\ SetText(i, [row[i] EXCEPT !.from = from])
  BY DEF UpdateCharacter, GetCharacter, Owns, LiveOf, SetCharacter
<1>2. row[i] \in LiveRow /\ Fits(row, row[i])
  BY <1>1, LiveRows
<1>3. PICK q : q = [row[i] EXCEPT !.from = from]
  OBVIOUS
<1>4. /\ q \in LiveRow /\ q.kind = row[i].kind /\ q.project = row[i].project
      /\ q.version = row[i].version /\ q.links = row[i].links
  BY <1>2, <1>3, RowWithSource
<1>5. Fits(row, q)
  BY <1>2, <1>4, SameLinksFit
<1>6. SetText(i, q)
  BY <1>1, <1>3
<1> QED
  BY <1>1, <1>4, <1>5, <1>6, WriteKeeps

\* The requests about characters, and a crush that becomes one.
LEMMA CharacterSteps ==
  ASSUME GraphInv, CharacterChange \/ CharacterRemoval \/ CrushRequest
  PROVE  GraphInv' /\ FormUsed
<1>1. CASE CharacterChange
  BY <1>1, CharacterMade, CharacterWritten DEF CharacterChange, Source
<1>2. CASE CharacterRemoval
  <2>1. PICK p \in Projects, i \in Live : DeleteCharacter(p, i)
    BY <1>2 DEF CharacterRemoval
  <2>2. Delete(i) /\ row[i].kind = "character"
    BY <2>1 DEF DeleteCharacter, DropCharacter, GetCharacter, Owns, LiveOf
  <2> QED
    BY <2>2, DeleteRow
<1>3. CASE CrushRequest
  BY <1>3, CharacterMade, CharacterWritten DEF CrushRequest, MapCrushToCharacter, Source
<1> QED
  BY <1>1, <1>2, <1>3

\* The requests about worldview entries.
LEMMA WorldviewSteps ==
  ASSUME GraphInv, WorldviewRequest
  PROVE  GraphInv' /\ FormUsed
<1>1. Own \in Source
  BY DEF Source
<1>2. ASSUME NEW p \in Projects, CreateWorldviewEntry(p)
      PROVE  GraphInv' /\ FormUsed
  BY <1>1, <1>2, NewPlainKeeps DEF PlainKind, CreateWorldviewEntry, InsertWorldviewEntry
<1>3. ASSUME NEW p \in Projects, NEW i \in Live, UpdateWorldviewEntry(p, i)
      PROVE  GraphInv' /\ FormUsed
  BY <1>3, TextKeeps DEF UpdateWorldviewEntry, SetWorldviewEntry
<1>4. ASSUME NEW p \in Projects, NEW i \in Live, DeleteWorldviewEntry(p, i)
      PROVE  GraphInv' /\ FormUsed
  <2>1. Delete(i) /\ row[i].kind = "worldview"
    BY <1>4 DEF DeleteWorldviewEntry, DropWorldviewEntry, GetWorldviewEntry, Owns, LiveOf
  <2> QED
    BY <2>1, DeleteRow
<1> QED
  BY <1>2, <1>3, <1>4 DEF WorldviewRequest

\* The requests about organizations.
LEMMA OrganizationSteps ==
  ASSUME GraphInv, OrganizationRequest
  PROVE  GraphInv' /\ FormUsed
<1>1. Own \in Source
  BY DEF Source
<1>2. ASSUME NEW p \in Projects, CreateOrganization(p)
      PROVE  GraphInv' /\ FormUsed
  BY <1>1, <1>2, NewPlainKeeps DEF PlainKind, CreateOrganization, InsertOrganization
<1>3. ASSUME NEW p \in Projects, NEW i \in Live, UpdateOrganization(p, i)
      PROVE  GraphInv' /\ FormUsed
  BY <1>3, TextKeeps DEF UpdateOrganization, SetOrganization
<1>4. ASSUME NEW p \in Projects, NEW i \in Live, DeleteOrganization(p, i)
      PROVE  GraphInv' /\ FormUsed
  <2>1. Delete(i) /\ row[i].kind = "organization"
    BY <1>4 DEF DeleteOrganization, DropOrganization, GetOrganization, Owns, LiveOf
  <2> QED
    BY <2>1, DeleteRow
<1> QED
  BY <1>2, <1>3, <1>4 DEF OrganizationRequest

\* The requests about relations: assertDistinctEndpoints makes their ends fit.
LEMMA RelationSteps ==
  ASSUME GraphInv, RelationRequest
  PROVE  GraphInv' /\ FormUsed
<1>1. ASSUME NEW p \in Projects, NEW a, NEW b, CreateRelation(p, a, b)
      PROVE  GraphInv' /\ FormUsed
  <2>1. EndpointsAllowed(p, a, b) /\ Insert("relation", p, Ends(a, b), Own)
    BY <1>1 DEF CreateRelation, InsertRelation
  <2>2. /\ Ends(a, b) \in Links
        /\ \A r \in LiveRow : r.kind = "relation" /\ r.project = p /\ r.links = Ends(a, b)
             => Fits(row, r)
    BY <2>1, EndsFit
  <2>3. "relation" \in OwnedKind /\ Own \in Source
    BY DEF OwnedKind, Kind, Source
  <2>4. FirstOfItsVolume(row, New("relation", p, Ends(a, b), Own))
    BY DEF FirstOfItsVolume, New
  <2> QED
    BY <2>1, <2>2, <2>3, <2>4, NewKeeps
<1>2. ASSUME NEW p \in Projects, NEW a, NEW b, NEW i \in Live, UpdateRelation(p, i, a, b)
      PROVE  GraphInv' /\ FormUsed
  <2>1. /\ row[i].kind = "relation" /\ row[i].project = p /\ EndpointsAllowed(p, a, b)
        /\ SetText(i, [row[i] EXCEPT !.links = Ends(a, b)])
    BY <1>2 DEF UpdateRelation, GetRelation, Owns, LiveOf, SetRelation
  <2>2. /\ Ends(a, b) \in Links
        /\ \A r \in LiveRow : r.kind = "relation" /\ r.project = p /\ r.links = Ends(a, b)
             => Fits(row, r)
    BY <2>1, EndsFit
  <2>3. \A r \in LiveRow : r.kind = row[i].kind /\ r.project = row[i].project
          /\ r.links = Ends(a, b) => Fits(row, r)
    BY <2>1, <2>2
  <2>4. row[i].kind # "volume outline"
    BY <2>1
  <2> QED
    BY <2>1, <2>2, <2>3, <2>4, LinksKeep
<1>3. ASSUME NEW p \in Projects, NEW i \in Live, DeleteRelation(p, i)
      PROVE  GraphInv' /\ FormUsed
  <2>1. Delete(i) /\ row[i].kind = "relation"
    BY <1>3 DEF DeleteRelation, DropRelation, GetRelation, Owns, LiveOf
  <2> QED
    BY <2>1, DeleteRow
<1> QED
  BY <1>1, <1>2, <1>3 DEF RelationRequest

\* CreateSourceMaterial.
LEMMA MaterialMade ==
  ASSUME GraphInv, NEW p \in Projects, NEW c, NEW from \in Source,
         CreateSourceMaterial(p, c, from)
  PROVE  GraphInv' /\ FormUsed
<1>1. OptionalCharacterOwned(p, c) /\ Insert("material", p, OfCharacter(c), from)
  BY DEF CreateSourceMaterial, InsertMaterial
<1>2. /\ OfCharacter(c) \in Links
      /\ \A r \in LiveRow : r.kind = "material" /\ r.project = p /\ r.links = OfCharacter(c)
           => Fits(row, r)
  BY <1>1, CharacterFits
<1>3. "material" \in OwnedKind
  BY DEF OwnedKind, Kind
<1>4. FirstOfItsVolume(row, New("material", p, OfCharacter(c), from))
  BY DEF FirstOfItsVolume, New
<1> QED
  BY <1>1, <1>2, <1>3, <1>4, NewKeeps

\* The requests about source materials, and a fragment that becomes one.
LEMMA MaterialSteps ==
  ASSUME GraphInv, MaterialRequest \/ FragmentRequest
  PROVE  GraphInv' /\ FormUsed
<1>1. ASSUME NEW p \in Projects, NEW c, NEW i \in Live, UpdateSourceMaterial(p, i, c)
      PROVE  GraphInv' /\ FormUsed
  <2>1. /\ row[i].kind = "material" /\ row[i].project = p /\ OptionalCharacterOwned(p, c)
        /\ SetText(i, [row[i] EXCEPT !.links = OfCharacter(c)])
    BY <1>1 DEF UpdateSourceMaterial, GetSourceMaterial, Owns, LiveOf, SetMaterial
  <2>2. /\ OfCharacter(c) \in Links
        /\ \A r \in LiveRow : r.kind = "material" /\ r.project = p /\ r.links = OfCharacter(c)
             => Fits(row, r)
    BY <2>1, CharacterFits
  <2>3. \A r \in LiveRow : r.kind = row[i].kind /\ r.project = row[i].project
          /\ r.links = OfCharacter(c) => Fits(row, r)
    BY <2>1, <2>2
  <2>4. row[i].kind # "volume outline"
    BY <2>1
  <2> QED
    BY <2>1, <2>2, <2>3, <2>4, LinksKeep
<1>2. ASSUME NEW p \in Projects, NEW i \in Live, DeleteSourceMaterial(p, i)
      PROVE  GraphInv' /\ FormUsed
  <2>1. Delete(i) /\ row[i].kind = "material"
    BY <1>2 DEF DeleteSourceMaterial, DropMaterial, GetSourceMaterial, Owns, LiveOf
  <2> QED
    BY <2>1, DeleteRow
<1>3. CASE MaterialRequest
  BY <1>1, <1>2, <1>3, MaterialMade DEF MaterialRequest, Source
<1>4. CASE FragmentRequest
  BY <1>4, MaterialMade DEF FragmentRequest, CreateSourceMaterialFromFragment, Source
<1> QED
  BY <1>3, <1>4

\* The requests about volumes: one with outlines is not deleted.
LEMMA VolumeSteps ==
  ASSUME GraphInv, VolumeRequest
  PROVE  GraphInv' /\ FormUsed
<1>1. Own \in Source
  BY DEF Source
<1>2. ASSUME NEW p \in Projects, CreateVolume(p)
      PROVE  GraphInv' /\ FormUsed
  BY <1>1, <1>2, NewPlainKeeps DEF PlainKind, CreateVolume, InsertVolume
<1>3. ASSUME NEW p \in Projects, NEW i \in Live, UpdateVolume(p, i)
      PROVE  GraphInv' /\ FormUsed
  BY <1>3, TextKeeps DEF UpdateVolume, SetVolume
<1>4. ASSUME NEW p \in Projects, NEW i \in Live, DeleteVolume(p, i)
      PROVE  GraphInv' /\ FormUsed
  <2>1. Delete(i) /\ row[i].kind = "volume" /\ OutlinesOf(i) = {}
    BY <1>4 DEF DeleteVolume, DropVolume, GetVolume, Owns, LiveOf
  <2>2. \A j \in Live : row[j].kind \in Outlines => i \notin Linked(j, "volume")
    BY <2>1 DEF OutlinesOf
  <2>3. i # current
    <3>1. current = 0 \/ IsRow(row, current, {"project"}, current)
      BY DEF GraphInv, SoundRows, SoundTable
    <3>2. i # 0
      BY LiveRows
    <3> QED
      BY <2>1, <3>1, <3>2 DEF IsRow
  <2> QED
    BY <2>1, <2>2, <2>3, DeleteKeeps
<1> QED
  BY <1>2, <1>3, <1>4 DEF VolumeRequest

\* A request that names an outline names one of a volume of its project.
LEMMA OutlineNamed ==
  ASSUME GraphInv, NEW p, NEW i, GetVolumeOutline(p, i) \/ GetChapterOutline(p, i)
  PROVE  i \in Live /\ row[i].kind \in Outlines /\ row[i].project = p
  BY DEF GetVolumeOutline, GetChapterOutline, Owns, LiveOf, Outlines

\* An outline is made in a volume of its project.
LEMMA OutlineMade ==
  ASSUME GraphInv, NEW p \in Projects, NEW v, VolumeOfProject(p, v), NEW ms, Citable(p, ms),
         NEW L, L = {Link("volume", v)} \cup Cites(ms), NEW kind \in Outlines,
         Insert(kind, p, L, Own), FirstOfItsVolume(row, New(kind, p, L, Own))
  PROVE  GraphInv' /\ FormUsed
<1>1. /\ L \in Links
      /\ \A r \in LiveRow : r.kind \in Outlines /\ r.project = p /\ r.links = L => Fits(row, r)
  BY VolumeFits
<1>2. kind \in OwnedKind /\ Own \in Source
  BY DEF OwnedKind, Kind, Outlines, Source
<1>3. \A r \in LiveRow : r.kind = kind /\ r.project = p /\ r.links = L => Fits(row, r)
  BY <1>1
<1> QED
  BY <1>1, <1>2, <1>3, NewKeeps

\* CreateVolumeOutline: the volume has no other.
LEMMA VolumeOutlineMade ==
  ASSUME GraphInv, NEW p \in Projects, NEW v, NEW ms, CreateVolumeOutline(p, v, ms)
  PROVE  GraphInv' /\ FormUsed
<1> DEFINE L == {Link("volume", v)} \cup Cites(ms)
<1>1. /\ VolumeOfProject(p, v) /\ Citable(p, ms) /\ Insert("volume outline", p, L, Own)
      /\ \A i \in OutlinesOf(v) : row[i].kind # "volume outline"
  BY SelectedAreCitable DEF CreateVolumeOutline, InsertVolumeOutline
<1>2. /\ L \in Links /\ \A l \in L : l.column = "volume" => l = Link("volume", v)
      /\ \A r \in LiveRow : r.kind \in Outlines /\ r.project = p /\ r.links = L => Fits(row, r)
  BY <1>1, VolumeFits
<1>3. ASSUME NEW j \in Live, row[j].kind = "volume outline", Link("volume", v) \in row[j].links
      PROVE  FALSE
  <2>1. Link("volume", v).column = "volume" /\ Link("volume", v).id = v
    BY DEF Link
  <2>2. v \in Linked(j, "volume") /\ row[j].kind \in Outlines
    BY <1>3, <2>1 DEF Linked, Outlines
  <2> QED
    BY <1>1, <1>3, <2>2 DEF OutlinesOf
<1> HIDE DEF L
<1>4. FirstOfItsVolume(row, New("volume outline", p, L, Own))
  <2>1. New("volume outline", p, L, Own).links = L
    BY DEF New
  <2>2. \A j \in DOMAIN row : row[j].live /\ row[j].kind = "volume outline" =>
          \A l \in L : l.column = "volume" => l \notin row[j].links
    BY <1>2, <1>3 DEF Live, RowId
  <2> QED
    BY <2>1, <2>2 DEF FirstOfItsVolume
<1>5. "volume outline" \in Outlines /\ L = {Link("volume", v)} \cup Cites(ms)
  BY DEF Outlines, L
<1> QED
  BY <1>1, <1>4, <1>5, OutlineMade

\* UpdateVolumeOutline keeps the volume.
LEMMA VolumeOutlineWritten ==
  ASSUME GraphInv, NEW p, NEW i, NEW ms, GetVolumeOutline(p, i), Citable(p, ms),
         SetVolumeOutline(i, ms)
  PROVE  GraphInv' /\ FormUsed
<1>1. /\ i \in Live /\ row[i].kind = "volume outline" /\ row[i].project = p
      /\ row[i].kind \in Outlines /\ p \in Projects
  <2>1. i \in Live /\ row[i].kind = "volume outline" /\ row[i].project = p
    BY DEF GetVolumeOutline, Owns, LiveOf
  <2> QED
    BY <2>1, LiveRows DEF Outlines
<1>2. PICK v : /\ {l \in row[i].links : l.column = "volume"} = {Link("volume", v)}
               /\ Link("volume", v) \in row[i].links /\ VolumeOfProject(p, v)
  BY <1>1, TheVolume DEF VolumeOfProject
<1>3. PICK L : L = {Link("volume", v)} \cup Cites(ms)
  OBVIOUS
<1>4. /\ L \in Links /\ \A l \in L : l.column = "volume" => l = Link("volume", v)
      /\ \A r \in LiveRow : r.kind \in Outlines /\ r.project = p /\ r.links = L => Fits(row, r)
  BY <1>1, <1>2, <1>3, VolumeFits
<1>5. SetText(i, [row[i] EXCEPT !.links = L])
  <2>1. SetText(i, [row[i] EXCEPT !.links = {l \in @ : l.column = "volume"} \cup Cites(ms)])
    BY DEF SetVolumeOutline
  <2>2. row[i] \in LiveRow
    BY <1>1, LiveRows
  <2>3. [row[i] EXCEPT !.links = {l \in @ : l.column = "volume"} \cup Cites(ms)]
          = [row[i] EXCEPT !.links = L]
    BY <1>2, <1>3, <2>2 DEF LiveRow
  <2> QED
    BY <2>1, <2>3
<1>6. \A l \in L : l.column = "volume" => l \in row[i].links
  BY <1>2, <1>4
<1>7. \A r \in LiveRow : r.kind = row[i].kind /\ r.project = row[i].project /\ r.links = L
        => Fits(row, r)
  BY <1>1, <1>4
<1> QED
  BY <1>1, <1>4, <1>5, <1>6, <1>7, LinksKeep

\* CreateChapterOutline.
LEMMA ChapterOutlineMade ==
  ASSUME GraphInv, NEW p \in Projects, NEW v, NEW ms, CreateChapterOutline(p, v, ms)
  PROVE  GraphInv' /\ FormUsed
<1> DEFINE L == {Link("volume", v)} \cup Cites(ms)
<1>1. VolumeOfProject(p, v) /\ Citable(p, ms) /\ Insert("chapter outline", p, L, Own)
  BY SelectedAreCitable DEF CreateChapterOutline, InsertChapterOutline
<1> HIDE DEF L
<1>2. FirstOfItsVolume(row, New("chapter outline", p, L, Own))
  BY DEF FirstOfItsVolume, New
<1>3. "chapter outline" \in Outlines /\ L = {Link("volume", v)} \cup Cites(ms)
  BY DEF Outlines, L
<1> QED
  BY <1>1, <1>2, <1>3, OutlineMade

\* UpdateChapterOutline, to any volume of the project.
LEMMA ChapterOutlineWritten ==
  ASSUME GraphInv, NEW p, NEW i, NEW v, NEW ms, GetChapterOutline(p, i), Citable(p, ms),
         SetChapterOutline(i, v, ms)
  PROVE  GraphInv' /\ FormUsed
<1>1. /\ i \in Live /\ row[i].kind = "chapter outline" /\ row[i].project = p
      /\ row[i].kind \in Outlines /\ p \in Projects
  <2>1. i \in Live /\ row[i].kind = "chapter outline" /\ row[i].project = p
    BY DEF GetChapterOutline, Owns, LiveOf
  <2> QED
    BY <2>1, LiveRows DEF Outlines
<1>2. PICK L : L = {Link("volume", v)} \cup Cites(ms)
  OBVIOUS
<1>3. VolumeOfProject(p, v) /\ SetText(i, [row[i] EXCEPT !.links = L])
  BY <1>1, <1>2 DEF SetChapterOutline
<1>4. /\ L \in Links
      /\ \A r \in LiveRow : r.kind \in Outlines /\ r.project = p /\ r.links = L => Fits(row, r)
  BY <1>1, <1>2, <1>3, VolumeFits
<1>5. \A r \in LiveRow : r.kind = row[i].kind /\ r.project = row[i].project /\ r.links = L
        => Fits(row, r)
  BY <1>1, <1>4
<1>6. row[i].kind # "volume outline"
  BY <1>1
<1> QED
  BY <1>1, <1>3, <1>4, <1>5, <1>6, LinksKeep

\* An outline is in no other row's way when it is deleted.
LEMMA OutlineDropped ==
  ASSUME GraphInv, NEW p, NEW i, Delete(i), GetVolumeOutline(p, i) \/ GetChapterOutline(p, i)
  PROVE  GraphInv' /\ FormUsed
<1>1. i \in Live /\ row[i].kind # "volume" /\ row[i].kind # "project"
  BY OutlineNamed DEF Outlines
<1> QED
  BY <1>1, DeleteRow

\* The requests about volume outlines.
LEMMA VolumeOutlineSteps ==
  ASSUME GraphInv, VolumeOutlineRequest
  PROVE  GraphInv' /\ FormUsed
<1>1. ASSUME NEW p \in Projects, NEW i \in Live, NEW listed \in BOOLEAN, NEW ms,
             UpdateVolumeOutline(p, i, listed, ms)
      PROVE  GraphInv' /\ FormUsed
  <2>1. GetVolumeOutline(p, i) /\ i \in Live /\ row[i].project = p
    BY <1>1, OutlineNamed DEF UpdateVolumeOutline
  <2>2. CASE listed
    BY <1>1, <2>1, <2>2, SelectedAreCitable, VolumeOutlineWritten DEF UpdateVolumeOutline
  <2>3. CASE ~listed
    <3>1. SetVolumeOutline(i, Linked(i, "cites")) /\ Citable(p, Linked(i, "cites"))
      BY <1>1, <2>1, <2>3, CitedAreCitable DEF UpdateVolumeOutline
    <3> QED
      BY <2>1, <3>1, VolumeOutlineWritten
  <2> QED
    BY <2>2, <2>3
<1>2. ASSUME NEW p \in Projects, NEW i \in Live, DeleteVolumeOutline(p, i)
      PROVE  GraphInv' /\ FormUsed
  BY <1>2, OutlineDropped DEF DeleteVolumeOutline, DropVolumeOutline
<1> QED
  BY <1>1, <1>2, VolumeOutlineMade DEF VolumeOutlineRequest

\* The requests about chapter outlines.
LEMMA ChapterOutlineSteps ==
  ASSUME GraphInv, ChapterOutlineRequest
  PROVE  GraphInv' /\ FormUsed
<1>1. ASSUME NEW p \in Projects, NEW i \in Live, NEW v, NEW listed \in BOOLEAN, NEW ms,
             UpdateChapterOutline(p, i, v, listed, ms)
      PROVE  GraphInv' /\ FormUsed
  <2>1. GetChapterOutline(p, i) /\ i \in Live /\ row[i].project = p
    BY <1>1, OutlineNamed DEF UpdateChapterOutline
  <2>2. CASE listed
    BY <1>1, <2>1, <2>2, SelectedAreCitable, ChapterOutlineWritten DEF UpdateChapterOutline
  <2>3. CASE ~listed
    <3>1. SetChapterOutline(i, v, Linked(i, "cites")) /\ Citable(p, Linked(i, "cites"))
      BY <1>1, <2>1, <2>3, CitedAreCitable DEF UpdateChapterOutline
    <3> QED
      BY <2>1, <3>1, ChapterOutlineWritten
  <2> QED
    BY <2>2, <2>3
<1>2. ASSUME NEW p \in Projects, NEW i \in Live, DeleteChapterOutline(p, i)
      PROVE  GraphInv' /\ FormUsed
  BY <1>2, OutlineDropped DEF DeleteChapterOutline, DropChapterOutline
<1> QED
  BY <1>1, <1>2, ChapterOutlineMade DEF ChapterOutlineRequest

\* ChangeVolumeOutlineStatus, ChangeChapterOutlineStatus.
LEMMA StatusSteps ==
  ASSUME GraphInv, StatusRequest
  PROVE  GraphInv' /\ FormUsed
<1>1. PICK p \in Projects, i \in Live, to \in Status :
        /\ GetVolumeOutline(p, i) \/ GetChapterOutline(p, i)
        /\ Write(i, [row[i] EXCEPT !.status = to])
  BY DEF StatusRequest, ChangeVolumeOutlineStatus, ChangeChapterOutlineStatus,
         SetVolumeOutlineStatus, SetChapterOutlineStatus, SetStatus, Status
<1>2. row[i] \in LiveRow /\ Fits(row, row[i])
  BY LiveRows
<1>3. PICK q : q = [row[i] EXCEPT !.status = to]
  OBVIOUS
<1>4. /\ q \in LiveRow /\ q.kind = row[i].kind /\ q.project = row[i].project
      /\ q.version = row[i].version /\ q.links = row[i].links
  BY <1>2, <1>3, RowWithStatus
<1>5. Fits(row, q)
  BY <1>2, <1>4, SameLinksFit
<1>6. Write(i, q)
  BY <1>1, <1>3
<1> QED
  BY <1>4, <1>5, <1>6, WriteKeeps

-----------------------------------------------------------------------------
(* Every step.                                                             *)

\* A form is filled with what its row shows.
LEMMA FormFilled ==
  ASSUME GraphInv, NEW i \in Live
  PROVE  Filled(row, Shown(i))
<1>1. /\ i \in DOMAIN row /\ i # 0 /\ row[i].live /\ Fits(row, row[i]) /\ row[i] \in LiveRow
      /\ row[i].version \in Nat
  BY LiveRows, RowFields DEF AnyRow
<1>2. PICK f : f = Shown(i)
  OBVIOUS
<1>3. /\ f.id = i /\ f.version = row[i].version /\ f.text = row[i].text
      /\ f.status = row[i].status /\ f.links = row[i].links
  BY <1>2 DEF Shown
<1>4. f.links \subseteq [column : Columns, id : DOMAIN row]
  <2> SUFFICES ASSUME NEW l \in row[i].links
               PROVE  l \in [column : Columns, id : DOMAIN row]
    BY <1>3
  <2> QED
    BY <1>1, LinkFields
<1>5. row[i].links = {l \in row[i].links : l.column = "character" => row[l.id].live}
  <2>1. \A l \in row[i].links : l.column = "character" => row[l.id].live
    BY <1>1, LinkFields DEF IsRow
  <2> QED
    BY <2>1
<1>6. row[i].version <= row[i].version
  BY <1>1, NextVersion
<1>7. Filled(row, f)
  BY <1>1, <1>3, <1>4, <1>5, <1>6 DEF Filled
<1> QED
  BY <1>2, <1>7

\* Every step keeps the invariant, and uses a form only for the row it shows.
LEMMA GraphStep ==
  ASSUME GraphInv, [GraphNext]_graphVars
  PROVE  GraphInv' /\ (form # NoForm => FormUsed)
<1>1. CASE UNCHANGED graphVars
  BY <1>1 DEF graphVars, GraphInv, SoundRows, FormUsed
<1>2. CASE FillForm
  <2>1. PICK i \in Live : form' = Shown(i)
    BY <1>2 DEF FillForm
  <2>2. row' = row /\ current' = current /\ form = NoForm
    BY <1>2 DEF FillForm
  <2>3. SoundTable(row, current) /\ Filled(row, form')
    BY <2>1, FormFilled DEF GraphInv, SoundRows
  <2>4. SoundTable(row', current') /\ Filled(row', form')
    BY <2>2, <2>3
  <2> QED
    BY <2>2, <2>4 DEF GraphInv, SoundRows
<1>3. CASE \E p \in Projects : ImportProject(p)
  <2>1. PICK p \in Projects : ImportProject(p)
    BY <1>3
  <2>2. /\ ReferencesValid(p) /\ row' = row \o Renamed(p)
        /\ current' = current /\ form' = form
    BY <2>1 DEF ImportProject
  <2>3. SoundTable(row', current) /\ Filled(row', form)
    BY <2>2, TableImported
  <2>4. SoundTable(row', current') /\ Filled(row', form')
    BY <2>2, <2>3
  <2> QED
    BY <2>2, <2>4 DEF GraphInv, SoundRows, FormUsed
<1>4. CASE Request /\ ~FillForm
  BY <1>4, ProjectSteps, ConfigSteps, CharacterSteps, WorldviewSteps, OrganizationSteps,
     RelationSteps, MaterialSteps, VolumeSteps, VolumeOutlineSteps, ChapterOutlineSteps,
     StatusSteps, Zenon DEF Request
<1> QED
  BY <1>1, <1>2, <1>3, <1>4, Zenon DEF GraphNext

\* A new project alone is sound, as StartsAssumption asks.
LEMMA NewProjectIsSound == SoundTable(<<NewProject(1)>>, 1)
<1> DEFINE q == NewProject(1)
           R == <<q>>
<1>1. q \in LiveRow /\ q.kind = "project" /\ q.project = 1 /\ q.links = {} /\ q.live
  <2>1. /\ "project" \in Kind /\ "draft" \in Status /\ Own \in Source /\ 1 \in {1, 2}
        /\ 1 \in Nat \ {0} /\ {} \in SUBSET [column : Columns, id : Nat]
    BY DEF Kind, Status, Source
  <2>2. q \in LiveRow
    BY <2>1, RowMade DEF NewProject, New
  <2> QED
    BY <2>2 DEF NewProject, New
<1> HIDE DEF q
<1>2. Fits(R, q)
  BY <1>1, PlainFits DEF Outlines
<1>3. q \in AnyRow
  BY <1>1 DEF AnyRow
<1>4. R \in Seq(AnyRow) /\ DOMAIN R = {1} /\ R[1] = q
  <2> HIDE DEF AnyRow
  <2> QED
    BY <1>3
<1> HIDE DEF R
<1>5. IsRow(R, 1, {"project"}, 1)
  BY <1>1, <1>4 DEF IsRow
<1>6. SoundTable(R, 1)
  BY <1>1, <1>2, <1>4, <1>5 DEF SoundTable
<1> QED
  BY <1>6 DEF R, q

\* The invariant holds of every behaviour.
LEMMA GraphInvHolds ==
  GraphSpec => []GraphInv
<1>1. GraphInit => GraphInv
  BY StartsAssumption DEF GraphInit, GraphInv, SoundRows, Filled
<1>2. GraphInv /\ [GraphNext]_graphVars => GraphInv'
  BY GraphStep
<1> QED
  BY <1>1, <1>2, PTL DEF GraphSpec

\* A form that is saved takes the place of the row that it shows: assertExpectedVersion
\* and the version that every update counts suffice for it, for any number of rows,
\* projects, changes and imports.
THEOREM SavedFormsReplaceWhatTheyShow ==
  GraphSpec => SavedFormReplacesWhatItShows
<1> DEFINE Replaces ==
      form # NoForm /\ form' = NoForm =>
        LET i == form.id IN
          /\ row[i].live
          /\ row[i].text = form.text /\ row[i].status = form.status
          /\ row[i].links = {l \in form.links : l.column = "character" => row[l.id].live}
<1>1. GraphInv /\ [GraphNext]_graphVars => Replaces
  <2> SUFFICES ASSUME GraphInv, [GraphNext]_graphVars, form # NoForm, form' = NoForm
               PROVE  /\ row[form.id].live
                      /\ row[form.id].text = form.text /\ row[form.id].status = form.status
                      /\ row[form.id].links =
                           {l \in form.links : l.column = "character" => row[l.id].live}
    OBVIOUS
  <2>1. form.id \in Live /\ form.version = row[form.id].version
    BY GraphStep DEF FormUsed
  <2> QED
    BY <2>1 DEF GraphInv, Filled, Live, RowId
<1>2. GraphSpec => [][Replaces]_graphVars
  BY <1>1, GraphInvHolds, PTL DEF GraphSpec
<1> QED
  BY <1>2, PTL DEF SavedFormReplacesWhatItShows

\* Whatever the renderer asks for, in whatever order, a project can be exported, if its
\* settings were ever read and no outline cites a material that is gone.
THEOREM ProjectsStayExportable ==
  GraphSpec => []ExportBlockedOnlyByDeletedMaterial
<1>1. ASSUME GraphInv
      PROVE  GraphTypeInv
  <2>1. ASSUME NEW i \in Live
        PROVE  /\ row[i].kind \in {"project", "character", "worldview", "organization",
                                   "relation", "material", "volume"} \cup Outlines
               /\ row[i].status \in {"draft", "confirmed", "locked"}
               /\ row[i].from \in {Own} \cup Legacy
               /\ \A l \in row[i].links : l.id \in RowId
               /\ row[i].project \in Projects
    <3>1. row[i] \in LiveRow /\ Fits(row, row[i]) /\ row[i].project \in Projects
      BY <1>1, LiveRows
    <3>2. row[i].kind \in Kind /\ row[i].status \in Status /\ row[i].from \in Source
      BY <3>1, RowFields DEF AnyRow
    <3>3. \A l \in row[i].links : l.id \in RowId
      BY <3>1, LinkFields DEF RowId
    <3> QED
      BY <3>1, <3>2, <3>3 DEF Kind, Status, Source
  <2>2. current \in {0} \cup Projects
    BY <1>1 DEF GraphInv, SoundRows, SoundTable, IsRow, Projects, Live, RowId
  <2> QED
    BY <2>1, <2>2 DEF GraphTypeInv
<1>2. ASSUME GraphInv, NEW p \in Projects, ~CitesDeleted(p)
      PROVE  ReferencesValid(p)
  <2>1. \A i \in Payload(p) : i \in Live /\ row[i].project = p /\ Fits(row, row[i])
    BY <1>2, LiveRows DEF Payload
  <2>2. ASSUME NEW i \in Payload(p), NEW l \in row[i].links, l.column # "cites"
        PROVE  l.id \in Payload(p) /\ row[l.id].kind \in Target[l.column]
    BY <2>1, <2>2, LinkFields DEF IsRow, Payload, Live, RowId
  <2>3. ASSUME NEW i \in Payload(p)
        PROVE  SourceIdsKnown(p, i)
    <3> SUFFICES ASSUME NEW l \in row[i].links, l.column = "cites"
                 PROVE  l.id \in Payload(p) /\ row[l.id].kind = "material"
      BY DEF SourceIdsKnown, Linked
    <3>1. row[i].kind \in Outlines /\ (row[l.id].live => IsRow(row, l.id, {"material"}, p))
      BY <2>1, LinkFields
    <3>2. l.id \in Linked(i, "cites")
      BY DEF Linked
    <3>3. row[l.id].live
      BY <1>2, <2>1, <3>1, <3>2 DEF CitesDeleted
    <3> QED
      BY <3>1, <3>3 DEF IsRow, Payload, Live, RowId
  <2>4. ASSUME NEW i \in Payload(p)
        PROVE  Linked(i, "source") \cap Linked(i, "target") = {}
    BY <2>1 DEF Fits, Shaped, Linked
  <2>5. ASSUME NEW i \in Payload(p), NEW j \in Payload(p), row[i].kind = "volume outline",
               row[j].kind = "volume outline", VolumeOf(i) = VolumeOf(j)
        PROVE  i = j
    <3>1. /\ Link("volume", VolumeOf(i)) \in row[i].links
          /\ Link("volume", VolumeOf(i)) \in row[j].links
      BY <1>2, <2>1, <2>5, TheVolume DEF Outlines
    <3>2. Link("volume", VolumeOf(i)).column = "volume"
      BY DEF Link
    <3> QED
      BY <1>2, <2>1, <2>5, <3>1, <3>2 DEF GraphInv, SoundRows, SoundTable, Live, RowId
  <2>6. row[p].config > 0
    <3>1. row[p] \in LiveRow
      BY <1>2, LiveRows DEF Projects
    <3>2. PICK n : n = row[p].config
      OBVIOUS
    <3>3. n \in Nat \ {0}
      BY <3>1, <3>2 DEF LiveRow
    <3> QED
      BY <3>2, <3>3
  <2> QED
    BY <1>2, <2>2, <2>3, <2>4, <2>5, <2>6 DEF ReferencesValid
<1>3. GraphInv => ExportBlockedOnlyByDeletedMaterial
  BY <1>1, <1>2 DEF ExportBlockedOnlyByDeletedMaterial
<1> QED
  BY <1>3, GraphInvHolds, PTL

-----------------------------------------------------------------------------
(* The way to the first chapter.                                           *)

\* The first of some rows is one of them.
LEMMA FirstIsOne ==
  ASSUME NEW S, S \subseteq Nat, 0 \notin S
  PROVE  /\ S = {} => FirstOf(S) = NoRow
         /\ S # {} => FirstOf(S) \in S /\ FirstOf(S) # NoRow
<1>1. CASE S = {}
  BY <1>1 DEF FirstOf
<1>2. CASE S # {}
  <2>1. PICK x \in S : \A y \in S : ~(<<y, x>> \in OpToRel(<, Nat))
    BY <1>2, NatLessThanWellFounded, WFMin
  <2>2. \A y \in S : x <= y
    <3> SUFFICES ASSUME NEW y \in S
                 PROVE  x <= y
      OBVIOUS
    <3>1. x \in Nat /\ y \in Nat
      OBVIOUS
    <3>2. ~(y < x)
      BY <2>1, <3>1 DEF OpToRel
    <3> QED
      BY <3>1, <3>2
  <2>3. FirstOf(S) \in S
    BY <1>2, <2>1, <2>2 DEF FirstOf
  <2> QED
    BY <1>2, <2>3 DEF NoRow
<1> QED
  BY <1>1, <1>2

\* The rows of a table.
LEMMA TableIds ==
  ASSUME GraphInv, NEW kind, NEW p
  PROVE  LiveOf(kind, p) \subseteq Nat /\ 0 \notin LiveOf(kind, p)
<1>1. \A i \in Live : i \in Nat /\ i # 0
  BY LiveRows
<1> QED
  BY <1>1 DEF LiveOf

\* The first of some rows of a table.
LEMMA FirstOfTable ==
  ASSUME GraphInv, NEW kind, NEW p, NEW S, S \subseteq LiveOf(kind, p)
  PROVE  /\ S = {} => FirstOf(S) = NoRow
         /\ S # {} => FirstOf(S) \in S /\ FirstOf(S) # NoRow
<1>1. S \subseteq Nat /\ 0 \notin S
  BY TableIds
<1> QED
  BY <1>1, FirstIsOne

\* The outline the evaluator finds for a volume is one of it.
LEMMA FoundVolumeOutline ==
  ASSUME GraphInv, NEW p, NEW v, VolumeOutlineFor(p, v) # NoRow
  PROVE  LET o == VolumeOutlineFor(p, v) IN
         o \in LiveOf("volume outline", p) /\ VolumeOf(o) = v /\ v \in LiveOf("volume", p)
<1> DEFINE S == {o \in LiveOf("volume outline", p) : VolumeOf(o) = v}
<1>1. S \subseteq LiveOf("volume outline", p) /\ VolumeOutlineFor(p, v) = FirstOf(S)
  BY DEF VolumeOutlineFor
<1>2. VolumeOutlineFor(p, v) \in S
  <2> HIDE DEF S
  <2> QED
    BY <1>1, FirstOfTable
<1>3. PICK o : o = VolumeOutlineFor(p, v)
  OBVIOUS
<1>4. o \in Live /\ row[o].kind \in Outlines /\ row[o].project = p /\ VolumeOf(o) = v
  BY <1>2, <1>3 DEF LiveOf, Outlines
<1>5. v \in LiveOf("volume", p)
  BY <1>4, TheVolume
<1> QED
  BY <1>2, <1>5

\* So is the chapter it finds: of the volume it was told, of the one it looks for.
LEMMA FoundChapter ==
  ASSUME GraphInv, NEW p, NEW v, SelectFirstChapterOutline(p, v, NoRow) # NoRow
  PROVE  LET o == SelectFirstChapterOutline(p, v, NoRow) IN
         /\ o \in LiveOf("chapter outline", p) /\ o # NoRow
         /\ VolumeOf(o) \in LiveOf("volume", p) /\ VolumeOf(o) # NoRow
         /\ v \in {NoRow, VolumeOf(o)}
<1> DEFINE S == {o \in LiveOf("chapter outline", p) : v \in {NoRow, VolumeOf(o)}}
<1>1. /\ S \subseteq LiveOf("chapter outline", p)
      /\ SelectFirstChapterOutline(p, v, NoRow) = FirstOf(S)
  BY DEF SelectFirstChapterOutline
<1>2. SelectFirstChapterOutline(p, v, NoRow) \in S
  <2> HIDE DEF S
  <2> QED
    BY <1>1, FirstOfTable
<1>3. PICK o : o = SelectFirstChapterOutline(p, v, NoRow)
  OBVIOUS
<1>4. o \in Live /\ row[o].kind \in Outlines /\ row[o].project = p /\ v \in {NoRow, VolumeOf(o)}
  BY <1>2, <1>3 DEF LiveOf, Outlines
<1>5. VolumeOf(o) \in LiveOf("volume", p)
  BY <1>4, TheVolume
<1>6. VolumeOf(o) # NoRow
  BY <1>5, TableIds DEF NoRow
<1> QED
  BY <1>2, <1>3, <1>4, <1>5, <1>6

\* Which volume and chapter the evaluator takes.
LEMMA TargetIsTaken ==
  ASSUME GraphInv, NEW p, NEW o \in LiveOf("chapter outline", p)
  PROVE  /\ o # NoRow
         /\ SelectFirstChapterVolume(p, o) = VolumeOf(o)
         /\ VolumeOf(o) \in LiveOf("volume", p) /\ VolumeOf(o) # NoRow
         /\ SelectFirstChapterOutline(p, VolumeOf(o), o) = o
<1>1. o # NoRow
  BY TableIds DEF NoRow
<1>2. SelectFirstChapterVolume(p, o) = VolumeOf(o)
  BY DEF SelectFirstChapterVolume
<1>3. VolumeOf(o) \in LiveOf("volume", p)
  <2>1. o \in Live /\ row[o].kind \in Outlines /\ row[o].project = p
    BY DEF LiveOf, Outlines
  <2> QED
    BY <2>1, TheVolume
<1>4. VolumeOf(o) # NoRow
  BY <1>3, TableIds DEF NoRow
<1>5. SelectFirstChapterOutline(p, VolumeOf(o), o) = o
  <2> DEFINE S == {c \in LiveOf("chapter outline", p) : VolumeOf(o) \in {NoRow, VolumeOf(c)}}
                    \cap {o}
  <2>1. S = {o} /\ S \subseteq LiveOf("chapter outline", p)
    OBVIOUS
  <2>2. SelectFirstChapterOutline(p, VolumeOf(o), o) = FirstOf(S)
    BY <1>1 DEF SelectFirstChapterOutline
  <2> HIDE DEF S
  <2>3. FirstOf(S) \in S
    BY <2>1, FirstOfTable
  <2> QED
    BY <2>1, <2>2, <2>3
<1> QED
  BY <1>1, <1>2, <1>3, <1>4, <1>5

\* What is missing, as a condition on the rows.
NothingMissing(p, volume, chapter) ==
  /\ ActiveWithConcept(p) /\ ProtagonistOf(p) # NoRow /\ HasCoreRelation(p)
  /\ LiveOf("worldview", p) # {} /\ volume # NoRow
  /\ VolumeOutlineReady(volume, VolumeOutlineFor(p, volume)) /\ Confirmed(chapter)

\* The preflight passes when nothing is missing.
LEMMA PreflightAsks ==
  ASSUME NEW p, NEW target
  PROVE  LET volume == SelectFirstChapterVolume(p, target) IN
         PreflightPasses(p, target) <=>
           NothingMissing(p, volume, SelectFirstChapterOutline(p, volume, target))
<1> DEFINE volume == SelectFirstChapterVolume(p, target)
           chapter == SelectFirstChapterOutline(p, volume, target)
           outline == VolumeOutlineFor(p, volume)
           met == [concept |-> ActiveWithConcept(p), protagonist |-> ProtagonistOf(p) # NoRow,
                   relationship |-> HasCoreRelation(p),
                   worldview |-> LiveOf("worldview", p) # {}, volume |-> volume # NoRow,
                   volumeOutline |-> VolumeOutlineReady(volume, outline),
                   chapterOutline |-> Confirmed(chapter)]
<1>1. BlockingChecks(p, target) = {c \in DOMAIN met : ~met[c]}
  BY DEF BlockingChecks
<1>2. /\ DOMAIN met = {"concept", "protagonist", "relationship", "worldview", "volume",
                       "volumeOutline", "chapterOutline"}
      /\ met["concept"] <=> ActiveWithConcept(p)
      /\ met["protagonist"] <=> ProtagonistOf(p) # NoRow
      /\ met["relationship"] <=> HasCoreRelation(p)
      /\ met["worldview"] <=> LiveOf("worldview", p) # {}
      /\ met["volume"] <=> volume # NoRow
      /\ met["volumeOutline"] <=> VolumeOutlineReady(volume, outline)
      /\ met["chapterOutline"] <=> Confirmed(chapter)
  OBVIOUS
<1> HIDE DEF met
<1>3. PreflightPasses(p, target) <=> \A c \in DOMAIN met : met[c]
  BY <1>1 DEF PreflightPasses
<1> QED
  BY <1>2, <1>3 DEF NothingMissing

\* The steps the wizard shows as done, as a condition on the rows.
LEMMA StepsDone ==
  ASSUME NEW p
  PROVE  LET volume == SelectFirstChapterVolume(p, NoRow) IN
         CompletedSteps(p) = StepsToGeneration <=>
           /\ ActiveWithConcept(p)
           /\ \E c \in LiveOf("character", p) : ProtagonistOf(p) \notin {NoRow, c}
           /\ HasCoreRelation(p) /\ LiveOf("worldview", p) # {}
           /\ Confirmed(VolumeOutlineFor(p, volume))
           /\ Confirmed(SelectFirstChapterOutline(p, volume, NoRow))
<1> DEFINE volume == SelectFirstChapterVolume(p, NoRow)
           done == [concept |-> ActiveWithConcept(p),
                    characters |-> \E c \in LiveOf("character", p) :
                                      ProtagonistOf(p) \notin {NoRow, c},
                    relationship |-> HasCoreRelation(p),
                    worldview |-> LiveOf("worldview", p) # {},
                    volumeOutline |-> Confirmed(VolumeOutlineFor(p, volume)),
                    chapterOutline |-> Confirmed(SelectFirstChapterOutline(p, volume, NoRow))]
<1>1. CompletedSteps(p) = {s \in DOMAIN done : done[s]}
  BY DEF CompletedSteps
<1>2. /\ DOMAIN done = StepsToGeneration
      /\ done["concept"] <=> ActiveWithConcept(p)
      /\ done["characters"] <=> \E c \in LiveOf("character", p) :
                                   ProtagonistOf(p) \notin {NoRow, c}
      /\ done["relationship"] <=> HasCoreRelation(p)
      /\ done["worldview"] <=> LiveOf("worldview", p) # {}
      /\ done["volumeOutline"] <=> Confirmed(VolumeOutlineFor(p, volume))
      /\ done["chapterOutline"] <=> Confirmed(SelectFirstChapterOutline(p, volume, NoRow))
  BY DEF StepsToGeneration
<1> HIDE DEF done
<1>3. CompletedSteps(p) = StepsToGeneration <=> \A s \in StepsToGeneration : done[s]
  BY <1>1, <1>2
<1> QED
  BY <1>2, <1>3 DEF StepsToGeneration

\* The protagonist's relation is with another character.
LEMMA CoreRelationIsWithAnother ==
  ASSUME GraphInv, NEW p, HasCoreRelation(p)
  PROVE  \E c \in LiveOf("character", p) : c # ProtagonistOf(p)
<1>1. PICK r \in LiveOf("relation", p) :
        /\ ProtagonistOf(p) \in Linked(r, "source") \cup Linked(r, "target")
        /\ Linked(r, "source") \cup Linked(r, "target") \subseteq LiveOf("character", p)
  BY DEF HasCoreRelation
<1>2. r \in Live /\ row[r].kind = "relation" /\ Fits(row, row[r])
  BY <1>1, LiveRows DEF LiveOf
<1>3. PICK l \in row[r].links : l.column = "source"
  BY <1>2 DEF Fits, Shaped
<1>4. PICK k \in row[r].links : k.column = "target"
  BY <1>2 DEF Fits, Shaped
<1>5. l.id # k.id
  BY <1>2, <1>3, <1>4 DEF Fits, Shaped
<1>6. l.id \in Linked(r, "source") /\ k.id \in Linked(r, "target")
  BY <1>3, <1>4 DEF Linked
<1> QED
  BY <1>1, <1>5, <1>6

\* The preflight of a chapter lets only start what the generation prepares, unless a
\* material that is told to it is gone.
LEMMA StartsArePrepared ==
  ASSUME GraphInv, NEW p \in Projects, NEW o \in LiveOf("chapter outline", p),
         PreflightPasses(p, o), \A m \in MaterialsToldTo(o) : row[m].live
  PROVE  Prepares(p, o)
<1> DEFINE v == VolumeOf(o)
           outline == VolumeOutlineFor(p, v)
<1>1. NothingMissing(p, v, o) /\ v # NoRow /\ v \in LiveOf("volume", p)
  BY PreflightAsks, TargetIsTaken
<1>2. o \in Live /\ row[o].project = p /\ row[o].kind \in Outlines
  BY DEF LiveOf, Outlines
<1>3. Confirmed(outline) /\ outline # NoRow /\ Confirmed(o) /\ ActiveWithConcept(p)
  BY <1>1 DEF NothingMissing, VolumeOutlineReady, Confirmed
<1>4. outline \in Live /\ row[outline].project = p /\ row[outline].kind \in Outlines
  <2>1. outline \in LiveOf("volume outline", p)
    BY <1>3, FoundVolumeOutline
  <2> QED
    BY <2>1 DEF LiveOf, Outlines
<1>5. GetChapterOutline(p, o)
  BY <1>1 DEF GetChapterOutline, GetVolume, Owns
<1>6. ASSUME NEW m \in MaterialsToldTo(o)
      PROVE  m \in LiveOf("material", p)
  <2>1. PICK i \in {o, outline} : m \in Linked(i, "cites")
    BY <1>2, <1>6 DEF MaterialsToldTo
  <2>2. i \in Live /\ row[i].project = p
    BY <1>2, <1>4, <2>1
  <2>3. Citable(p, Linked(i, "cites"))
    BY <2>2, CitedAreCitable
  <2>4. row[m].live
    BY <1>6
  <2> QED
    BY <2>1, <2>3, <2>4 DEF Citable, IsRow, LiveOf, Live, RowId
<1>7. SelectSourceMaterials(p, MaterialsToldTo(o))
  BY <1>6 DEF SelectSourceMaterials, RequireProject, GetSourceMaterial, Owns
<1> QED
  BY <1>3, <1>5, <1>7 DEF Prepares

\* The chapter the wizard chose is judged as it is when it is named.
LEMMA ChosenIsJudgedAlike ==
  ASSUME GraphInv, NEW p,
         SelectFirstChapterOutline(p, SelectFirstChapterVolume(p, NoRow), NoRow) # NoRow
  PROVE  LET chosen == SelectFirstChapterOutline(p, SelectFirstChapterVolume(p, NoRow), NoRow)
         IN  /\ SelectFirstChapterVolume(p, chosen) = SelectFirstChapterVolume(p, NoRow)
             /\ SelectFirstChapterOutline(p, SelectFirstChapterVolume(p, chosen), chosen) = chosen
<1> DEFINE v == SelectFirstChapterVolume(p, NoRow)
           chosen == SelectFirstChapterOutline(p, v, NoRow)
<1>1. /\ chosen \in LiveOf("chapter outline", p) /\ VolumeOf(chosen) \in LiveOf("volume", p)
      /\ v \in {NoRow, VolumeOf(chosen)}
  BY FoundChapter
<1>2. v # NoRow
  <2>1. NoRow \notin LiveOf("chapter outline", p)
    BY TableIds DEF NoRow
  <2>2. v = FirstOf(LiveOf("volume", p))
    BY <2>1 DEF SelectFirstChapterVolume
  <2> QED
    BY <1>1, <2>2, FirstOfTable
<1>3. v = VolumeOf(chosen)
  BY <1>1, <1>2
<1> HIDE DEF v, chosen
<1>4. /\ SelectFirstChapterVolume(p, chosen) = v
      /\ SelectFirstChapterOutline(p, v, chosen) = chosen
  BY <1>1, <1>3, TargetIsTaken
<1> QED
  BY <1>4 DEF v, chosen

\* The wizard shows its steps as done just when the preflight lets the first chapter start.
LEMMA StepsAreThePreflight ==
  ASSUME GraphInv, NEW p
  PROVE  CompletedSteps(p) = StepsToGeneration <=> PreflightPasses(p, NoRow)
<1> DEFINE v == SelectFirstChapterVolume(p, NoRow)
           outline == VolumeOutlineFor(p, v)
<1>1. ASSUME HasCoreRelation(p)
      PROVE  (\E c \in LiveOf("character", p) : ProtagonistOf(p) \notin {NoRow, c})
               <=> ProtagonistOf(p) # NoRow
  <2>1. \E c \in LiveOf("character", p) : c # ProtagonistOf(p)
    BY <1>1, CoreRelationIsWithAnother
  <2> QED
    BY <2>1
<1>2. Confirmed(outline) <=> v # NoRow /\ VolumeOutlineReady(v, outline)
  <2>1. ASSUME Confirmed(outline)
        PROVE  v # NoRow
    <3>1. outline # NoRow
      BY <2>1 DEF Confirmed
    <3>2. v \in LiveOf("volume", p)
      BY <3>1, FoundVolumeOutline
    <3> QED
      BY <3>2, TableIds DEF NoRow
  <2> QED
    BY <2>1 DEF VolumeOutlineReady
<1> HIDE DEF v, outline
<1>3. PreflightPasses(p, NoRow) <=>
        NothingMissing(p, v, SelectFirstChapterOutline(p, v, NoRow))
  BY PreflightAsks DEF v
<1>4. CompletedSteps(p) = StepsToGeneration <=>
           /\ ActiveWithConcept(p)
           /\ \E c \in LiveOf("character", p) : ProtagonistOf(p) \notin {NoRow, c}
           /\ HasCoreRelation(p) /\ LiveOf("worldview", p) # {}
           /\ Confirmed(outline)
           /\ Confirmed(SelectFirstChapterOutline(p, v, NoRow))
  BY StepsDone DEF v, outline
<1>5. outline = VolumeOutlineFor(p, v)
  BY DEF outline
<1> QED
  BY <1>1, <1>2, <1>3, <1>4, <1>5 DEF NothingMissing

\* The preflight of a chapter task and the generation agree on what a project needs, as
\* do the wizard and the preflight, for any rows that the service and the schema let be.
THEOREM StartsArePreparedFor ==
  GraphSpec => []StartsOnlyWhatCanBePrepared
<1>1. ASSUME GraphInv
      PROVE  StartsOnlyWhatCanBePrepared
  <2> SUFFICES ASSUME NEW p \in Projects
               PROVE
         /\ \A o \in LiveOf("chapter outline", p) :
              PreflightPasses(p, o) =>
                Prepares(p, o) \/ \E m \in MaterialsToldTo(o) : ~row[m].live
         /\ LET chosen == SelectFirstChapterOutline(p, SelectFirstChapterVolume(p, NoRow), NoRow)
            IN chosen # NoRow => BlockingChecks(p, NoRow) = BlockingChecks(p, chosen)
         /\ CompletedSteps(p) = StepsToGeneration <=> PreflightPasses(p, NoRow)
    BY DEF StartsOnlyWhatCanBePrepared
  <2>1. \A o \in LiveOf("chapter outline", p) :
          PreflightPasses(p, o) =>
            Prepares(p, o) \/ \E m \in MaterialsToldTo(o) : ~row[m].live
    BY <1>1, StartsArePrepared
  <2>2. LET chosen == SelectFirstChapterOutline(p, SelectFirstChapterVolume(p, NoRow), NoRow)
        IN chosen # NoRow => BlockingChecks(p, NoRow) = BlockingChecks(p, chosen)
    <3> DEFINE v == SelectFirstChapterVolume(p, NoRow)
               chosen == SelectFirstChapterOutline(p, v, NoRow)
    <3> SUFFICES ASSUME chosen # NoRow
                 PROVE  BlockingChecks(p, NoRow) = BlockingChecks(p, chosen)
      OBVIOUS
    <3>1. /\ SelectFirstChapterVolume(p, chosen) = v
          /\ SelectFirstChapterOutline(p, v, chosen) = chosen
      BY <1>1, ChosenIsJudgedAlike
    <3>2. SelectFirstChapterOutline(p, v, NoRow) = chosen
      OBVIOUS
    <3>3. SelectFirstChapterVolume(p, NoRow) = v
      OBVIOUS
    <3> HIDE DEF v, chosen
    <3> QED
      BY <3>1, <3>2, <3>3 DEF BlockingChecks
  <2>3. CompletedSteps(p) = StepsToGeneration <=> PreflightPasses(p, NoRow)
    BY <1>1, StepsAreThePreflight
  <2> QED
    BY <2>1, <2>2, <2>3
<1>2. GraphInv => StartsOnlyWhatCanBePrepared
  BY <1>1
<1> QED
  BY <1>2, GraphInvHolds, PTL
=============================================================================
