----------------------------- MODULE OfflineProofs -----------------------------
(***************************************************************************)
(* Of OfflineImport.tla, for any tables, keys, contents, scripts and       *)
(* number of commands, faults and commits: no file and no script made      *)
(* under a mask in place brings the column into the database in clear;     *)
(* a session with a snapshot reads one state of the source; and a command  *)
(* that exits with zero has done what it was given to do.                  *)
(***************************************************************************)
EXTENDS OfflineImport, TLAPS

(***************************************************************************)
(* Commands                                                                *)
(***************************************************************************)

CmdShape == DOMAIN cmd = {"name", "at", "left", "saw", "counts", "bound", "again"}

LEMMA OnwardShape ==
  ASSUME CmdShape
  PROVE  /\ DOMAIN Onward = DOMAIN cmd /\ Onward.left = Tail(cmd.left)
         /\ Onward.name = cmd.name /\ Onward.at = cmd.at /\ Onward.saw = cmd.saw
         /\ Onward.counts = cmd.counts /\ Onward.bound = cmd.bound /\ Onward.again = cmd.again
  BY DEF CmdShape, Onward

LEMMA EndShape ==
  ASSUME CmdShape, EndsWell \/ Fails
  PROVE  /\ cmd'.name = cmd.name /\ cmd'.saw = cmd.saw /\ cmd'.counts = cmd.counts
         /\ cmd'.bound = cmd.bound /\ cmd'.again = cmd.again
         /\ EndsWell => cmd'.at = "ok" /\ cmd'.left = cmd.left
         /\ Fails => cmd'.at = "failed"
  BY DEF CmdShape, EndsWell, Fails

(* A command that begins has read nothing yet.                             *)
Begins(name) ==
  /\ cmd.at # "running" /\ cmd'.name = name /\ cmd'.at \in {"running", "ok", "failed"}
  /\ cmd'.saw = <<>> /\ cmd'.counts = <<>> /\ cmd'.bound \in BOOLEAN
  /\ cmd'.bound => name = "load"

LEMMA GiveShape ==
  ASSUME NEW name, NEW left, Give(name, left)
  PROVE  Begins(name) /\ cmd'.at = "running" /\ cmd'.left = left
  BY DEF Give, Ended, Begins

(* Loads and dumps, whatever they read.                                    *)
Reading ==
  \/ BeginLoad \/ LoadCounts \/ LoadStreams \/ LoadRaises
  \/ BeginDump \/ Connects \/ DumpTable \/ DumpRaises \/ DumpCut \/ EndReads
  \/ BeginDumpTables \/ CopyTable \/ EndDumpTables

(* A command has a name and a state, whatever else is noted of it.         *)
LEMMA CmdNext == CmdShape /\ [Next]_vars => CmdShape'
  <1> SUFFICES ASSUME CmdShape, [Next]_vars PROVE CmdShape' OBVIOUS
  <1> USE DEF CmdShape, Ended, Onward, Fails, EndsWell, Give
  <1>1. CASE BeginLoad BY <1>1 DEF BeginLoad
  <1>2. CASE LoadCounts BY <1>2 DEF LoadCounts
  <1>3. CASE LoadStreams BY <1>3 DEF LoadStreams
  <1>4. CASE LoadRaises BY <1>4 DEF LoadRaises
  <1>5. CASE BeginDump BY <1>5 DEF BeginDump
  <1>6. CASE DumpTable BY <1>6 DEF DumpTable
  <1>7. CASE DumpRaises BY <1>7 DEF DumpRaises
  <1>8. CASE DumpCut BY <1>8 DEF DumpCut
  <1>9. CASE EndReads BY <1>9 DEF EndReads
  <1>10. CASE BeginDumpTables BY <1>10 DEF BeginDumpTables
  <1>11. CASE CopyTable BY <1>11 DEF CopyTable
  <1>12. CASE EndDumpTables BY <1>12 DEF EndDumpTables
  <1>13. CASE BeginTransformAll BY <1>13 DEF BeginTransformAll
  <1>14. CASE TransformAll BY <1>14 DEF TransformAll
  <1>15. CASE EndTransformAll BY <1>15 DEF EndTransformAll
  <1>16. CASE TransformNodes \/ TransformEdges
    BY <1>16 DEF TransformNodes, TransformEdges, TransformOne
  <1>17. CASE GenerateImport \/ GenerateCsvImport \/ PreviewArangoimport
    BY <1>17 DEF GenerateImport, GenerateCsvImport, PreviewArangoimport, Generate
  <1>18. CASE RunScript BY <1>18 DEF RunScript
  <1>19. CASE Import BY <1>19 DEF Import
  <1>20. CASE CreateGraph BY <1>20 DEF CreateGraph
  <1>21. CASE EndScript BY <1>21 DEF EndScript
  <1>22. CASE CreateGraphByHand BY <1>22 DEF CreateGraphByHand
  <1>24. CASE EditMapping BY <1>24 DEF EditMapping
  <1>23. CASE SourceCommits \/ Introspects \/ Connects \/ UNCHANGED vars
    BY <1>23 DEF SourceCommits, Introspects, Connects, vars
  <1> QED BY <1>1, <1>2, <1>3, <1>4, <1>5, <1>6, <1>7, <1>8, <1>9, <1>10, <1>11, <1>12, <1>13,
     <1>14, <1>15, <1>16, <1>17, <1>18, <1>19, <1>20, <1>21, <1>22, <1>23, <1>24 DEF Next

(* What a command other than a script or a transform-all is called.        *)
LEMMA OtherNames ==
  ASSUME CmdShape,
         \/ (Reading /\ ~Connects) \/ TransformNodes \/ TransformEdges
         \/ GenerateImport \/ GenerateCsvImport \/ PreviewArangoimport \/ EditMapping
         \/ CreateGraphByHand
  PROVE  UNCHANGED db /\ cmd'.name \notin {"script", "transform-all"}
  <1> USE DEF Running, Ended, Give, targetVars
  <1>1. CASE BeginLoad BY <1>1 DEF BeginLoad
  <1>2. CASE LoadCounts BY <1>2 DEF LoadCounts, CmdShape
  <1>3. CASE LoadStreams BY <1>3 DEF LoadStreams, CmdShape, Onward
  <1>4. CASE LoadRaises BY <1>4, EndShape DEF LoadRaises
  <1>5. CASE BeginDump BY <1>5 DEF BeginDump
  <1>6. CASE DumpTable BY <1>6 DEF DumpTable, CmdShape, Onward
  <1>7. CASE DumpRaises \/ DumpCut BY <1>7, OnwardShape DEF DumpRaises, DumpCut
  <1>8. CASE EndReads BY <1>8, EndShape DEF EndReads
  <1>9. CASE BeginDumpTables BY <1>9 DEF BeginDumpTables
  <1>10. CASE CopyTable BY <1>10 DEF CopyTable, CmdShape, Onward, Fails
  <1>11. CASE EndDumpTables BY <1>11, EndShape DEF EndDumpTables
  <1>12. CASE TransformNodes \/ TransformEdges
    BY <1>12 DEF TransformNodes, TransformEdges, TransformOne
  <1>13. CASE GenerateImport \/ GenerateCsvImport \/ PreviewArangoimport
    BY <1>13 DEF GenerateImport, GenerateCsvImport, PreviewArangoimport, Generate
  <1>14. CASE CreateGraphByHand BY <1>14 DEF CreateGraphByHand
  <1>15. CASE EditMapping BY <1>15 DEF EditMapping
  <1> QED BY <1>1, <1>2, <1>3, <1>4, <1>5, <1>6, <1>7, <1>8, <1>9, <1>10, <1>11, <1>12, <1>13, <1>14, <1>15
     DEF Reading

LEMMA IntoCollections ==
  /\ \A j \in JobNames : Into[j] \in Collections
  /\ Tables \subseteq JobNames /\ LinkNames \subseteq JobNames
  BY DEF Collections, JobNames

(* A job that writes where a table's documents are is one of documents.    *)
LEMMA IntoDocuments ==
  ASSUME NEW j \in JobNames, NEW t \in Tables, Into[j] = Into[t] PROVE j \in Tables
  BY OfflineAssumption DEF JobNames

LEMMA ToSetTail ==
  ASSUME NEW S, NEW s \in Seq(S), s # <<>>
  PROVE  /\ Tail(s) \in Seq(S) /\ Head(s) \in S
         /\ \A x \in ToSet(s) : x = Head(s) \/ x \in ToSet(Tail(s))
         /\ \A x \in ToSet(Tail(s)) : x \in ToSet(s)
  <1>1. /\ Len(s) \in Nat \ {0} /\ DOMAIN s = 1 .. Len(s) /\ Tail(s) \in Seq(S)
        /\ DOMAIN Tail(s) = 1 .. Len(s) - 1 /\ \A i \in DOMAIN Tail(s) : Tail(s)[i] = s[i + 1]
        /\ Head(s) = s[1] /\ Head(s) \in S
    OBVIOUS
  <1>2. ASSUME NEW x \in ToSet(s) PROVE x = Head(s) \/ x \in ToSet(Tail(s))
    <2>1. PICK i \in DOMAIN s : s[i] = x BY DEF ToSet
    <2>2. CASE i = 1 BY <1>1, <2>1, <2>2
    <2>3. CASE i # 1
      <3>1. i - 1 \in DOMAIN Tail(s) /\ Tail(s)[i - 1] = x BY <1>1, <2>1, <2>3
      <3> QED BY <3>1 DEF ToSet
    <2> QED BY <2>2, <2>3
  <1>3. ASSUME NEW x \in ToSet(Tail(s)) PROVE x \in ToSet(s)
    <2>1. PICK i \in DOMAIN Tail(s) : Tail(s)[i] = x BY DEF ToSet
    <2>2. i + 1 \in DOMAIN s /\ s[i + 1] = x BY <1>1, <2>1
    <2> QED BY <2>2 DEF ToSet
  <1> QED BY <1>1, <1>2, <1>3

(***************************************************************************)
(* What is left of the jobs                                                *)
(***************************************************************************)

Earlier(j, k) == \E m, n \in DOMAIN Jobs : m < n /\ Jobs[m] = j /\ Jobs[n] = k

(* A script imports documents before edges; jobs are done in their order,  *)
(* and what is left comes after what is done.                              *)
TablesFirst(s) == \A i, j \in DOMAIN s : i < j /\ s[j] \in Tables => s[i] \in Tables
JobsInOrder(s) ==
  \A m, n \in DOMAIN s : m < n /\ s[m] \in JobNames /\ s[n] \in JobNames => Earlier(s[m], s[n])
AfterDone(s) == \A j \in JobNames \ ToSet(s), k \in ToSet(s) \cap JobNames : Earlier(j, k)

Rest(s) ==
  /\ s \in Seq(JobNames \cup {"graph"})
  /\ TablesFirst(s) /\ JobsInOrder(s) /\ AfterDone(s)

LEMMA RestTail ==
  ASSUME NEW s, Rest(s), s # <<>>
  PROVE  /\ Rest(Tail(s)) /\ Head(s) \in JobNames \cup {"graph"} /\ Head(s) \in ToSet(s)
         /\ \A x \in ToSet(s) : x = Head(s) \/ x \in ToSet(Tail(s))
         /\ \A x \in ToSet(Tail(s)) : x \in ToSet(s)
         /\ Head(s) \notin Tables => \A t \in Tables : t \notin ToSet(s)
  <1>0. s \in Seq(JobNames \cup {"graph"}) BY DEF Rest
  <1>1. /\ Len(s) \in Nat \ {0} /\ DOMAIN s = 1 .. Len(s)
        /\ DOMAIN Tail(s) = 1 .. Len(s) - 1 /\ \A i \in DOMAIN Tail(s) : Tail(s)[i] = s[i + 1]
        /\ Head(s) = s[1]
    BY <1>0
  <1>2. /\ Tail(s) \in Seq(JobNames \cup {"graph"}) /\ Head(s) \in JobNames \cup {"graph"}
        /\ \A x \in ToSet(s) : x = Head(s) \/ x \in ToSet(Tail(s))
        /\ \A x \in ToSet(Tail(s)) : x \in ToSet(s)
    BY <1>0, ToSetTail
  <1>3. Head(s) \in ToSet(s) BY <1>1 DEF ToSet
  <1>4. TablesFirst(Tail(s)) BY <1>1 DEF Rest, TablesFirst
  <1>5. JobsInOrder(Tail(s)) BY <1>1 DEF Rest, JobsInOrder
  <1>6. AfterDone(Tail(s))
    <2> SUFFICES ASSUME NEW j \in JobNames \ ToSet(Tail(s)), NEW k \in ToSet(Tail(s)) \cap JobNames
                 PROVE  Earlier(j, k)
      BY DEF AfterDone
    <2>1. CASE j \notin ToSet(s) BY <1>2, <2>1 DEF Rest, AfterDone
    <2>2. CASE j \in ToSet(s)
      <3>1. j = s[1] BY <1>1, <1>2, <2>2
      <3>2. PICK i \in DOMAIN Tail(s) : Tail(s)[i] = k BY DEF ToSet
      <3>3. 1 \in DOMAIN s /\ i + 1 \in DOMAIN s /\ 1 < i + 1 /\ s[i + 1] = k BY <1>1, <3>2
      <3> QED BY <3>1, <3>3 DEF Rest, JobsInOrder
    <2> QED BY <2>1, <2>2
  <1>7. ASSUME Head(s) \notin Tables, NEW t \in Tables, t \in ToSet(s) PROVE FALSE
    <2>1. PICK j \in DOMAIN s : s[j] = t BY <1>7 DEF ToSet
    <2>2. j # 1 /\ 1 \in DOMAIN s /\ 1 < j BY <1>1, <1>7, <2>1
    <2> QED BY <1>1, <1>7, <2>1, <2>2 DEF Rest, TablesFirst
  <1> QED BY <1>2, <1>3, <1>4, <1>5, <1>6, <1>7 DEF Rest

LEMMA JobsShape ==
  /\ Jobs \in Seq(JobNames) /\ ToSet(Jobs) = JobNames /\ Rest(Jobs)
  /\ Rest(Jobs \o <<"graph">>) /\ \A j \in JobNames : j \in ToSet(Jobs \o <<"graph">>)
  <1> DEFINE names == [i \in DOMAIN Links |-> Links[i].name]
  <1>1. Order \in Seq(Tables) /\ ToSet(Order) = Tables /\ Tables \cap LinkNames = {}
    BY OfflineAssumption
  <1>2. Links \in Seq([name : LinkNames, from : {t \in Tables : Parent[t] \in Tables}])
    BY OfflineAssumption
  <1>3. Len(Links) \in Nat /\ DOMAIN Links = 1 .. Len(Links) BY <1>2
  <1>4. \A i \in DOMAIN Links : Links[i].name \in LinkNames BY DEF LinkNames
  <1>5. names \in Seq(LinkNames) /\ Len(names) = Len(Links) BY <1>3, <1>4
  <1>6. \A l \in LinkNames : \E i \in 1 .. Len(names) : names[i] = l BY <1>3, <1>5 DEF LinkNames
  <1>7. Jobs = Order \o names BY DEF Jobs
  <1> HIDE DEF names
  <1>8. /\ Len(Order) \in Nat /\ Len(names) \in Nat /\ DOMAIN Order = 1 .. Len(Order)
        /\ \A i \in 1 .. Len(Order) : Order[i] \in Tables
        /\ \A i \in 1 .. Len(names) : names[i] \in LinkNames
    BY <1>1, <1>5
  <1>9. /\ DOMAIN Jobs = 1 .. Len(Order) + Len(names) /\ Len(Jobs) = Len(Order) + Len(names)
        /\ \A i \in DOMAIN Jobs :
             Jobs[i] = IF i <= Len(Order) THEN Order[i] ELSE names[i - Len(Order)]
        /\ Jobs \in Seq(JobNames)
    BY <1>1, <1>5, <1>7, <1>8 DEF JobNames
  <1>10. TablesFirst(Jobs)
    <2> SUFFICES ASSUME NEW i \in DOMAIN Jobs, NEW j \in DOMAIN Jobs, i < j, Jobs[j] \in Tables
                 PROVE  Jobs[i] \in Tables
      BY DEF TablesFirst
    <2>1. j <= Len(Order) BY <1>1, <1>8, <1>9
    <2> QED BY <1>8, <1>9, <2>1
  <1>11. ASSUME NEW c \in JobNames PROVE \E i \in DOMAIN Jobs : Jobs[i] = c
    <2>1. CASE c \in Tables
      <3>1. PICK i \in DOMAIN Order : Order[i] = c BY <1>1, <2>1 DEF ToSet
      <3> QED BY <1>8, <1>9, <3>1
    <2>2. CASE c \in LinkNames
      <3>1. PICK i \in 1 .. Len(names) : names[i] = c BY <1>6, <2>2
      <3>2. PICK k \in Int : k = Len(Order) + i BY <1>8
      <3>3. k \in DOMAIN Jobs /\ ~(k <= Len(Order)) /\ k - Len(Order) = i BY <1>8, <1>9, <3>2
      <3> QED BY <1>9, <3>1, <3>3
    <2> QED BY <2>1, <2>2 DEF JobNames
  <1>12. ToSet(Jobs) = JobNames BY <1>9, <1>11 DEF ToSet
  <1>13. JobsInOrder(Jobs) /\ AfterDone(Jobs) BY <1>12 DEF JobsInOrder, AfterDone, Earlier
  <1>14. Rest(Jobs) BY <1>9, <1>10, <1>13 DEF Rest
  <1> DEFINE all == Jobs \o <<"graph">>
  <1>15. /\ DOMAIN all = 1 .. Len(Jobs) + 1 /\ all \in Seq(JobNames \cup {"graph"})
         /\ \A i \in DOMAIN Jobs : i \in DOMAIN all /\ all[i] = Jobs[i]
         /\ all[Len(Jobs) + 1] = "graph"
    BY <1>9
  <1>16. \A i \in DOMAIN all : all[i] \in JobNames => i \in DOMAIN Jobs
    BY <1>8, <1>9, <1>15, OfflineAssumption
  <1> HIDE DEF all
  <1>17. TablesFirst(all)
    <2> SUFFICES ASSUME NEW i \in DOMAIN all, NEW j \in DOMAIN all, i < j, all[j] \in Tables
                 PROVE  all[i] \in Tables
      BY DEF TablesFirst
    <2>1. j \in DOMAIN Jobs BY <1>16, IntoCollections
    <2>2. i \in DOMAIN Jobs BY <1>8, <1>9, <1>15, <2>1
    <2> QED BY <1>10, <1>15, <2>1, <2>2 DEF TablesFirst
  <1>18. \A c \in JobNames : c \in ToSet(all) BY <1>11, <1>15 DEF ToSet
  <1>19. AfterDone(all) BY <1>18 DEF AfterDone
  <1>20. JobsInOrder(all) BY <1>15, <1>16 DEF JobsInOrder, Earlier
  <1>21. Rest(all) BY <1>15, <1>17, <1>19, <1>20 DEF Rest
  <1> QED BY <1>9, <1>12, <1>14, <1>18, <1>21 DEF all

LeftShape ==
  /\ Running("transform-all") => Rest(cmd.left) /\ cmd.left \in Seq(JobNames)
  /\ Running("script") => Rest(cmd.left)

LEMMA LeftNext == CmdShape /\ LeftShape /\ [Next]_vars => LeftShape'
  <1> SUFFICES ASSUME CmdShape, LeftShape, [Next]_vars PROVE LeftShape' OBVIOUS
  <1>1. CASE SourceCommits \/ Introspects \/ Connects \/ UNCHANGED vars
    BY <1>1 DEF SourceCommits, Introspects, Connects, vars, LeftShape, Running
  <1>2. CASE \/ (Reading /\ ~Connects) \/ TransformNodes \/ TransformEdges
             \/ GenerateImport \/ GenerateCsvImport \/ PreviewArangoimport \/ EditMapping
             \/ CreateGraphByHand
    BY <1>2, OtherNames DEF LeftShape, Running
  <1>3. CASE BeginTransformAll
    <2>1. cmd'.name = "transform-all" /\ cmd'.left = Jobs
      BY <1>3, GiveShape DEF BeginTransformAll, Begins
    <2> QED BY <2>1, JobsShape DEF LeftShape, Running
  <1>4. CASE TransformAll
    <2>1. /\ cmd.name = "transform-all" /\ cmd.at = "running" /\ cmd.left # <<>>
          /\ cmd' = Onward \/ Fails
      BY <1>4 DEF TransformAll, Running
    <2>2. Rest(cmd.left) /\ cmd.left \in Seq(JobNames) BY <2>1 DEF LeftShape, Running
    <2>3. Rest(Tail(cmd.left)) /\ Tail(cmd.left) \in Seq(JobNames) BY <2>1, <2>2, RestTail
    <2>4. CASE cmd' = Onward BY <2>1, <2>3, <2>4, OnwardShape DEF LeftShape, Running
    <2>5. CASE Fails BY <2>5, EndShape DEF LeftShape, Running
    <2> QED BY <2>1, <2>4, <2>5
  <1>5. CASE EndTransformAll \/ EndScript
    BY <1>5, EndShape DEF EndTransformAll, EndScript, LeftShape, Running
  <1>6. CASE RunScript
    <2>1. /\ cmd'.name = "script"
          /\ cmd'.left = Jobs \o IF script.graph THEN <<"graph">> ELSE <<>>
      BY <1>6 DEF RunScript, Ended
    <2>2. cmd'.left = Jobs \/ cmd'.left = Jobs \o <<"graph">> BY <2>1, JobsShape
    <2> QED BY <2>1, <2>2, JobsShape DEF LeftShape, Running
  <1>7. CASE Import \/ CreateGraph
    <2>1. /\ cmd.name = "script" /\ cmd.at = "running" /\ cmd.left # <<>>
          /\ cmd' = Onward \/ Fails
      BY <1>7 DEF Import, CreateGraph, Running
    <2>2. Rest(Tail(cmd.left)) BY <2>1, RestTail DEF LeftShape, Running
    <2>3. CASE cmd' = Onward BY <2>1, <2>2, <2>3, OnwardShape DEF LeftShape, Running
    <2>4. CASE Fails BY <2>4, EndShape DEF LeftShape, Running
    <2> QED BY <2>1, <2>3, <2>4
  <1> QED BY <1>1, <1>2, <1>3, <1>4, <1>5, <1>6, <1>7 DEF Next, Reading

(* The job that a transform-all or a script is at.                         *)
LEMMA JobAt ==
  ASSUME LeftShape, TransformAll \/ Import PROVE Head(cmd.left) \in JobNames
  BY RestTail, ToSetTail DEF LeftShape, TransformAll, Import, Running

(***************************************************************************)
(* Masks                                                                   *)
(***************************************************************************)

(* No document of these is in clear that should have been masked when its  *)
(* file or its script was made.                                            *)
Dressed(docs) == \A d \in docs : d.clear => d.under # "inPlace"

FilesShape == DOMAIN jsonl = Collections /\ DOMAIN db = Collections
FilesDressed == \A t \in Tables : Dressed(jsonl[Into[t]].rows)
ScriptFaithful ==
  /\ \/ script = NoScript \/ script.mode = "jsonl"
     \/ script.mode = "csv" /\ \A t \in Tables : script.masks[t] = "none"
  /\ Running("script") => script # NoScript
MaskInv == FilesShape /\ FilesDressed /\ ScriptFaithful /\ MaskedStaysMasked

LEMMA MaskInit == Init => MaskInv
  <1> SUFFICES ASSUME Init PROVE MaskInv OBVIOUS
  <1> USE IntoCollections DEF Init
  <1>1. FilesShape BY DEF FilesShape
  <1>2. FilesDressed BY DEF FilesDressed, Dressed, NoFile
  <1>3. ScriptFaithful BY DEF ScriptFaithful, Running, Ended
  <1>4. MaskedStaysMasked BY DEF MaskedStaysMasked
  <1> QED BY <1>1, <1>2, <1>3, <1>4 DEF MaskInv

(* The steps that touch neither files nor the database nor the script.     *)
LEMMA MaskElsewhere ==
  ASSUME MaskInv, UNCHANGED <<jsonl, db, script>>,
         Running("script")' => Running("script")
  PROVE  MaskInv'
  BY DEF MaskInv, FilesShape, FilesDressed, ScriptFaithful, MaskedStaysMasked, Dressed

(* A row that is transformed has its masks applied.                        *)
LEMMA TransformedDressed ==
  ASSUME NEW t \in Tables, NEW rows PROVE Dressed(Transformed(t, rows))
  <1> SUFFICES ASSUME NEW d \in Documents(t, rows), d.clear PROVE d.under # "inPlace"
    BY DEF Transformed, Dressed
  <1>1. PICK key, row : d = Document(key, row, masks[t] # "inPlace", masks[t]) BY DEF Documents
  <1>2. d.clear = (masks[t] # "inPlace") /\ d.under = masks[t] BY <1>1 DEF Document
  <1> QED BY <1>2

(* One file is written anew.                                               *)
LEMMA MaskFile ==
  ASSUME MaskInv, UNCHANGED <<db, script>>, ~Running("script")',
         NEW j \in JobNames, NEW f, jsonl' = [jsonl EXCEPT ![Into[j]] = f],
         j \in Tables => Dressed(f.rows)
  PROVE  MaskInv'
  <1>1. ASSUME NEW t \in Tables PROVE Dressed(jsonl'[Into[t]].rows)
    <2>1. CASE Into[t] = Into[j]
      <3>1. j \in Tables BY <2>1, IntoDocuments
      <3>2. jsonl'[Into[t]] = f BY <2>1, IntoCollections DEF MaskInv, FilesShape
      <3> QED BY <3>1, <3>2
    <2>2. CASE Into[t] # Into[j]
      <3>1. jsonl'[Into[t]] = jsonl[Into[t]] BY <2>2, IntoCollections DEF MaskInv, FilesShape
      <3> QED BY <3>1 DEF MaskInv, FilesDressed
    <2> QED BY <2>1, <2>2
  <1>2. FilesDressed' BY <1>1 DEF FilesDressed, Dressed
  <1>3. FilesShape' BY DEF MaskInv, FilesShape
  <1> QED BY <1>2, <1>3 DEF MaskInv, ScriptFaithful, MaskedStaysMasked

LEMMA MaskTransformAll ==
  ASSUME CmdShape, MaskInv, TransformAll, NEW j \in JobNames, j = Head(cmd.left) PROVE MaskInv'
  <1> DEFINE dump == dumps[TableOf(j)]
  <1>1. UNCHANGED <<db, script>> BY DEF TransformAll, targetVars
  <1>2. ~Running("script")'
    <2>1. cmd.name = "transform-all" BY DEF TransformAll, Running
    <2>2. cmd' = Onward \/ Fails BY DEF TransformAll
    <2> QED BY <2>1, <2>2 DEF Onward, Fails, Running, CmdShape
  <1>3. \/ jsonl' = jsonl
        \/ jsonl' = [jsonl EXCEPT ![Into[j]] = File(Transformed(j, dump.rows))]
        \/ jsonl' = [jsonl EXCEPT ![Into[j]] = Emptied]
        \/ \E part \in SUBSET Transformed(j, dump.rows) :
             jsonl' = [jsonl EXCEPT ![Into[j]] = File(part)]
    BY DEF TransformAll
  <1>4. j \in Tables => Dressed(Transformed(j, dump.rows)) BY TransformedDressed
  <1> HIDE DEF dump
  <1>5. CASE jsonl' = [jsonl EXCEPT ![Into[j]] = File(Transformed(j, dump.rows))]
    <2>1. j \in Tables => Dressed(File(Transformed(j, dump.rows)).rows) BY <1>4 DEF File
    <2> QED BY <1>1, <1>2, <1>5, <2>1, MaskFile
  <1>6. CASE jsonl' = [jsonl EXCEPT ![Into[j]] = Emptied]
    <2>1. Dressed(Emptied.rows) BY DEF Emptied, NoFile, Dressed
    <2> QED BY <1>1, <1>2, <1>6, <2>1, MaskFile
  <1>7. ASSUME NEW part \in SUBSET Transformed(j, dump.rows),
               jsonl' = [jsonl EXCEPT ![Into[j]] = File(part)]
        PROVE  MaskInv'
    <2>1. j \in Tables => Dressed(File(part).rows) BY <1>4 DEF File, Dressed
    <2> QED BY <1>1, <1>2, <1>7, <2>1, MaskFile
  <1>8. CASE jsonl' = jsonl BY <1>1, <1>2, <1>8, MaskElsewhere
  <1> QED BY <1>3, <1>5, <1>6, <1>7, <1>8

LEMMA MaskTransformOne ==
  ASSUME MaskInv, NEW name, name # "script", NEW j \in JobNames, NEW configured,
         configured \/ j \in Tables, TransformOne(name, j, configured)
  PROVE  MaskInv'
  <1> DEFINE dump == dumps[TableOf(j)]
             D(docs) == IF configured THEN docs
                        ELSE {[d EXCEPT !.clear = TRUE, !.under = "unconfigured"] : d \in docs}
  <1>1. UNCHANGED <<db, script>> BY DEF TransformOne, targetVars
  <1>2. ~Running("script")'
    <2>1. cmd' = [Ended EXCEPT !.name = name] \/ cmd' = [Ended EXCEPT !.name = name, !.at = "failed"]
      BY DEF TransformOne
    <2> QED BY <2>1 DEF Ended, Running
  <1>3. ASSUME NEW part, j \in Tables PROVE Dressed(D(Transformed(j, part)))
    <2>1. CASE configured BY <1>3, <2>1, TransformedDressed
    <2>2. CASE ~configured
      <3>1. \A d \in Transformed(j, part) :
              [d EXCEPT !.clear = TRUE, !.under = "unconfigured"].under = "unconfigured"
        BY <1>3 DEF Transformed, Documents, Document
      <3> QED BY <2>2, <3>1 DEF Dressed
    <2> QED BY <2>1, <2>2
  <1>4. \/ \E part \in Limited(dump.rows) :
             jsonl' = [jsonl EXCEPT ![Into[j]] = File(D(Transformed(j, part)))]
        \/ jsonl' = [jsonl EXCEPT ![Into[j]] = IF dump.there THEN Emptied ELSE @]
    BY DEF TransformOne
  <1> HIDE DEF D, dump
  <1>5. ASSUME NEW part, jsonl' = [jsonl EXCEPT ![Into[j]] = File(D(Transformed(j, part)))]
        PROVE  MaskInv'
    <2>1. j \in Tables => Dressed(File(D(Transformed(j, part))).rows) BY <1>3 DEF File
    <2> QED BY <1>1, <1>2, <1>5, <2>1, MaskFile
  <1>6. CASE jsonl' = [jsonl EXCEPT ![Into[j]] = IF dump.there THEN Emptied ELSE @]
    <2>1. CASE dump.there
      <3>1. jsonl' = [jsonl EXCEPT ![Into[j]] = Emptied] BY <1>6, <2>1
      <3>2. Dressed(Emptied.rows) BY DEF Emptied, NoFile, Dressed
      <3> QED BY <1>1, <1>2, <3>1, <3>2, MaskFile
    <2>2. CASE ~dump.there
      <3>1. jsonl' = [jsonl EXCEPT ![Into[j]] = jsonl[Into[j]]] BY <1>6, <2>2
      <3>2. j \in Tables => Dressed(jsonl[Into[j]].rows) BY DEF MaskInv, FilesDressed
      <3> QED BY <1>1, <1>2, <3>1, <3>2, MaskFile
    <2> QED BY <2>1, <2>2
  <1> QED BY <1>4, <1>5, <1>6

LEMMA MaskGenerate ==
  ASSUME MaskInv, NEW name, name # "script", NEW new, Generate(name, new),
         new.mode = "jsonl" \/ (new.mode = "csv" /\ \A t \in Tables : masks[t] = "none")
  PROVE  MaskInv'
  <1>1. /\ UNCHANGED <<jsonl, db>>
        /\ script'.mode = new.mode /\ script'.masks = masks
    BY DEF Generate, filesVars, targetVars
  <1>2. ~Running("script")' BY DEF Generate, Ended, Running
  <1> QED BY <1>1, <1>2 DEF MaskInv, FilesShape, FilesDressed, ScriptFaithful, MaskedStaysMasked, Dressed

(* A script offers no document in clear that it should have masked.        *)
LEMMA OfferedDressed ==
  ASSUME MaskInv, Running("script"), NEW t \in Tables PROVE Dressed(Offered(t))
  <1>1. CASE script.mode = "jsonl" BY <1>1 DEF Offered, MaskInv, FilesDressed
  <1>2. CASE script.mode # "jsonl"
    <2>1. script.masks[t] = "none" BY <1>2 DEF MaskInv, ScriptFaithful
    <2>2. TableOf(t) = t BY DEF TableOf
    <2>3. \A d \in Offered(t) : d.under = "none" BY <1>2, <2>1, <2>2 DEF Offered, Document
    <2> QED BY <2>3 DEF Dressed
  <1> QED BY <1>1, <1>2

LEMMA MaskImport ==
  ASSUME MaskInv, Import, NEW j \in JobNames, j = Head(cmd.left) PROVE MaskInv'
  <1> DEFINE c == Into[j]
             taken == Offered(j) \ Rejected(j)
  <1>1. UNCHANGED <<jsonl, script>> BY DEF Import, filesVars
  <1>2. Running("script") BY DEF Import
  <1>3. db' = db \/ \E part \in SUBSET taken : db' = [db EXCEPT ![c] = Stored(c, part)]
    BY DEF Import
  <1>4. ASSUME NEW part \in SUBSET taken, j \in Tables PROVE Dressed(Stored(c, part))
    <2>1. Dressed(Offered(j)) BY <1>2, <1>4, OfferedDressed
    <2>2. Dressed(db[c]) BY <1>4 DEF MaskInv, MaskedStaysMasked, Dressed
    <2> QED BY <2>1, <2>2 DEF Stored, Dressed
  <1> HIDE DEF taken
  <1>5. ASSUME NEW t \in Tables PROVE Dressed(db'[Into[t]])
    <2>1. Dressed(db[Into[t]]) BY DEF MaskInv, MaskedStaysMasked, Dressed
    <2>2. CASE db' = db BY <2>1, <2>2
    <2>3. ASSUME NEW part \in SUBSET taken, db' = [db EXCEPT ![c] = Stored(c, part)]
          PROVE  Dressed(db'[Into[t]])
      <3>1. CASE Into[t] = c
        <4>1. j \in Tables BY <3>1, IntoDocuments
        <4>2. db'[Into[t]] = Stored(c, part) BY <2>3, <3>1, IntoCollections DEF MaskInv, FilesShape
        <4> QED BY <1>4, <4>1, <4>2
      <3>2. CASE Into[t] # c
        <4>1. db'[Into[t]] = db[Into[t]] BY <2>3, <3>2, IntoCollections DEF MaskInv, FilesShape
        <4> QED BY <2>1, <4>1
      <3> QED BY <3>1, <3>2
    <2> QED BY <1>3, <2>2, <2>3
  <1>6. MaskedStaysMasked' BY <1>5 DEF MaskedStaysMasked, Dressed
  <1>7. FilesShape' BY <1>1, <1>3 DEF MaskInv, FilesShape
  <1>8. ScriptFaithful' BY <1>1, <1>2 DEF MaskInv, ScriptFaithful
  <1> QED BY <1>1, <1>6, <1>7, <1>8 DEF MaskInv, FilesDressed, Dressed

LEMMA MaskGraph == ASSUME MaskInv, CreateGraph PROVE MaskInv'
  <1> DEFINE dropped == [c \in Collections |-> IF graph /\ c \in InGraph THEN {} ELSE db[c]]
  <1>1. UNCHANGED <<jsonl, script>> BY DEF CreateGraph, filesVars
  <1>2. Running("script") BY DEF CreateGraph
  <1>3. db' = db \/ db' = dropped BY DEF CreateGraph, targetVars
  <1>4. \A t \in Tables : dropped[Into[t]] = {} \/ dropped[Into[t]] = db[Into[t]]
    BY IntoCollections
  <1>5. DOMAIN dropped = Collections OBVIOUS
  <1> HIDE DEF dropped
  <1>6. MaskedStaysMasked' BY <1>3, <1>4 DEF MaskInv, MaskedStaysMasked
  <1>7. FilesShape' BY <1>1, <1>3, <1>5 DEF MaskInv, FilesShape
  <1>8. ScriptFaithful' BY <1>1, <1>2 DEF MaskInv, ScriptFaithful
  <1> QED BY <1>1, <1>6, <1>7, <1>8 DEF MaskInv, FilesDressed, Dressed

LEMMA ReadingElsewhere ==
  ASSUME CmdShape, Reading
  PROVE  /\ UNCHANGED <<jsonl, db, script>>
         /\ Running("script")' => Running("script")
  <1> USE DEF CmdShape, filesVars, targetVars, Running, Ended, Onward, Fails, EndsWell, Give
  <1>1. CASE BeginLoad BY <1>1 DEF BeginLoad
  <1>2. CASE LoadCounts BY <1>2 DEF LoadCounts
  <1>3. CASE LoadStreams BY <1>3 DEF LoadStreams
  <1>4. CASE LoadRaises BY <1>4 DEF LoadRaises
  <1>5. CASE BeginDump BY <1>5 DEF BeginDump
  <1>6. CASE Connects BY <1>6 DEF Connects
  <1>7. CASE DumpTable BY <1>7 DEF DumpTable
  <1>8. CASE DumpRaises BY <1>8 DEF DumpRaises
  <1>9. CASE DumpCut BY <1>9 DEF DumpCut
  <1>10. CASE EndReads BY <1>10 DEF EndReads
  <1>11. CASE BeginDumpTables BY <1>11 DEF BeginDumpTables
  <1>12. CASE CopyTable BY <1>12 DEF CopyTable
  <1>13. CASE EndDumpTables BY <1>13 DEF EndDumpTables
  <1> QED BY <1>1, <1>2, <1>3, <1>4, <1>5, <1>6, <1>7, <1>8, <1>9, <1>10, <1>11, <1>12, <1>13
       DEF Reading

LEMMA MaskNext == CmdShape /\ LeftShape /\ MaskInv /\ [Next]_vars => MaskInv'
  <1> SUFFICES ASSUME CmdShape, LeftShape, MaskInv, [Next]_vars PROVE MaskInv' OBVIOUS
  <1>1. CASE SourceCommits
    BY <1>1, MaskElsewhere DEF SourceCommits, filesVars, targetVars, Running
  <1>2. CASE Introspects
    BY <1>2, MaskElsewhere DEF Introspects, filesVars, targetVars, Running
  <1>3. CASE Reading BY <1>3, ReadingElsewhere, MaskElsewhere
  <1>4. CASE BeginTransformAll
    BY <1>4, MaskElsewhere DEF BeginTransformAll, Give, Ended, filesVars, targetVars, Running
  <1>5. CASE TransformAll BY <1>5, JobAt, MaskTransformAll
  <1>6. CASE EndTransformAll
    BY <1>6, MaskElsewhere DEF EndTransformAll, EndsWell, CmdShape, filesVars, targetVars, Running
  <1>7. CASE TransformNodes BY <1>7, IntoCollections, MaskTransformOne DEF TransformNodes
  <1>8. CASE TransformEdges BY <1>8, IntoCollections, MaskTransformOne DEF TransformEdges
  <1>9. CASE GenerateImport BY <1>9, MaskGenerate DEF GenerateImport
  <1>10. CASE GenerateCsvImport BY <1>10, MaskGenerate DEF GenerateCsvImport, Refused
  <1>11. CASE PreviewArangoimport BY <1>11, MaskGenerate DEF PreviewArangoimport, Refused
  <1>12. CASE RunScript
    <2>1. UNCHANGED <<jsonl, db, script>> /\ script # NoScript
      BY <1>12 DEF RunScript, filesVars, targetVars
    <2> QED BY <2>1 DEF MaskInv, FilesShape, FilesDressed, ScriptFaithful, MaskedStaysMasked, Dressed
  <1>13. CASE Import BY <1>13, JobAt, MaskImport
  <1>14. CASE CreateGraph BY <1>14, MaskGraph
  <1>15. CASE EndScript
    BY <1>15, MaskElsewhere DEF EndScript, EndsWell, CmdShape, filesVars, targetVars, Running
  <1>16. CASE CreateGraphByHand
    BY <1>16, MaskElsewhere DEF CreateGraphByHand, Ended, filesVars, Running
  <1>18. CASE EditMapping
    BY <1>18, MaskElsewhere DEF EditMapping, Ended, filesVars, targetVars, Running
  <1>17. CASE UNCHANGED vars
    BY <1>17, MaskElsewhere DEF vars, filesVars, targetVars, Running
  <1> QED BY <1>1, <1>2, <1>3, <1>4, <1>5, <1>6, <1>7, <1>8, <1>9, <1>10, <1>11, <1>12, <1>13, <1>14, <1>15,
     <1>16, <1>17, <1>18 DEF Next, Reading

(* Whatever commands are given in whatever order, whichever fail half way, *)
(* however the mapping is edited between them and whatever lies in the     *)
(* directories: a document that holds a column in clear comes of a file or *)
(* a script that was made when the mapping did not mask that column in     *)
(* place, or of transform-nodes without --config (arangoimport.py,         *)
(* _refuse_unfaithful_mapping; main.py, transform_all).                    *)
THEOREM MasksHold == Spec => []MaskedStaysMasked
  <1>1. Init => CmdShape /\ LeftShape
    BY OfflineAssumption DEF Init, Ended, CmdShape, LeftShape, Running
  <1>2. MaskInv => MaskedStaysMasked BY DEF MaskInv
  <1> QED BY <1>1, <1>2, CmdNext, LeftNext, MaskInit, MaskNext, PTL DEF Spec

(***************************************************************************)
(* What a session reads                                                    *)
(***************************************************************************)

Snapshot == SessionOf[kind].view # "statement"

(* All that a command has read is of one state of the source.              *)
ReadOf(c, state) ==
  /\ \A t \in DOMAIN c.saw : c.saw[t] = Since(c.bound, state[t])
  /\ \A t \in DOMAIN c.counts : c.counts[t] = Cardinality(Since(c.bound, state[t]))

Sessions ==
  /\ history \in Seq(Contents) /\ history # <<>> /\ kind \in Kinds
  /\ DOMAIN session = {"at", "seen", "frame"} /\ session.seen \in 0 .. Len(history)
  /\ cmd.bound \in BOOLEAN /\ (cmd.bound => cmd.name = "load")
  /\ Running("load") => cmd.left \in Seq(Tables)

(* While a command reads by a snapshot, it is the one its session is held  *)
(* to, if it has read anything; afterwards it is some state all the same.  *)
OneState ==
  Snapshot /\ cmd.name \in {"load", "dump"} =>
    IF cmd.at = "running"
      THEN /\ IF session.seen = 0 THEN DOMAIN cmd.saw = {} /\ DOMAIN cmd.counts = {}
              ELSE ReadOf(cmd, history[session.seen])
           /\ session.frame.table = NoTable
           /\ session.at = "new" => session.seen = 0
      ELSE \E i \in DOMAIN history : ReadOf(cmd, history[i])

(* A csv session with a bound: at most the first table that is left has    *)
(* been counted and not streamed, and its rows are in the frame.           *)
Framed ==
  kind = "csv" /\ cmd.bound =>
    /\ \A t \in DOMAIN cmd.saw : t \in DOMAIN cmd.counts /\ Cardinality(cmd.saw[t]) = cmd.counts[t]
    /\ cmd.at = "running" => \A t \in DOMAIN cmd.counts \ DOMAIN cmd.saw :
         /\ t = Head(cmd.left)
         /\ session.frame.table = t /\ Cardinality(session.frame.rows) = cmd.counts[t]

ReadInv == Sessions /\ OneState /\ Framed

LEMMA ReadInit == Init => ReadInv
  <1> SUFFICES ASSUME Init PROVE ReadInv OBVIOUS
  <1> USE DEF Init, SourceInit
  <1>1. PICK rows \in Possible : history = <<rows>> OBVIOUS
  <1>2. rows \in Contents BY <1>1 DEF Possible
  <1>3. history \in Seq(Contents) /\ history # <<>> /\ Len(history) = 1 BY <1>1, <1>2
  <1>4. Sessions BY <1>3 DEF Sessions, Closed, Ended, Running
  <1>5. ReadOf(cmd, history[1]) /\ 1 \in DOMAIN history BY <1>3 DEF ReadOf, Ended
  <1>6. OneState /\ Framed BY <1>5 DEF OneState, Framed, Ended
  <1> QED BY <1>4, <1>6 DEF ReadInv

(* A command that reads nothing, or by other ways.                         *)
LEMMA ReadAside ==
  ASSUME ReadInv, UNCHANGED <<kind, history, session>>, cmd'.name \notin {"load", "dump"},
         cmd'.bound = FALSE \/ (cmd'.name = cmd.name /\ cmd'.bound = cmd.bound)
  PROVE  ReadInv'
  BY DEF ReadInv, Sessions, OneState, Framed, Running

LEMMA ReadUnchanged ==
  ASSUME ReadInv, UNCHANGED <<kind, history, session, cmd>> PROVE ReadInv'
  <1>1. Sessions' BY DEF ReadInv, Sessions, Running
  <1>2. OneState' BY DEF ReadInv, OneState, Snapshot
  <1>3. Framed' BY DEF ReadInv, Framed
  <1> QED BY <1>1, <1>2, <1>3 DEF ReadInv

LEMMA ReadCommits == ASSUME ReadInv, SourceCommits PROVE ReadInv'
  <1>1. UNCHANGED <<kind, session, cmd>> BY DEF SourceCommits, Commit
  <1>2. PICK rows \in Contents : history' = Append(history, rows)
    BY DEF SourceCommits, Commit, Possible
  <1>3. history \in Seq(Contents) /\ session.seen \in 0 .. Len(history) BY DEF ReadInv, Sessions
  <1>4. /\ history' \in Seq(Contents) /\ Len(history') = Len(history) + 1
        /\ \A i \in 1 .. Len(history) : history'[i] = history[i]
    BY <1>2, <1>3
  <1>5. Sessions' BY <1>1, <1>4 DEF ReadInv, Sessions, Running
  <1>6. \A i \in 1 .. Len(history) : ReadOf(cmd, history[i]) => ReadOf(cmd', history'[i])
    BY <1>1, <1>4
  <1>7. OneState' BY <1>1, <1>3, <1>4, <1>6 DEF ReadInv, OneState, Snapshot
  <1>8. Framed' BY <1>1 DEF ReadInv, Framed
  <1> QED BY <1>5, <1>7, <1>8 DEF ReadInv

LEMMA ReadBegins ==
  ASSUME ReadInv, NEW name \in {"load", "dump"}, Begins(name), cmd'.at = "running",
         name = "load" => cmd'.left \in Seq(Tables),
         session' = OpenSession, UNCHANGED <<kind, history>>
  PROVE  ReadInv'
  <1>1. session' = [at |-> "new", seen |-> 0, frame |-> NoFrame] BY DEF OpenSession, Closed
  <1>2. Sessions' BY <1>1 DEF ReadInv, Sessions, Begins, Running
  <1>3. DOMAIN cmd'.saw = {} /\ DOMAIN cmd'.counts = {} BY DEF Begins
  <1>4. OneState' BY <1>1, <1>3 DEF OneState, NoFrame
  <1>5. Framed' BY <1>3 DEF Framed
  <1> QED BY <1>2, <1>4, <1>5 DEF ReadInv

(* The view of a statement is a state, and with a snapshot stays the same  *)
(* one.                                                                    *)
LEMMA ViewSeen ==
  ASSUME Sessions
  PROVE  /\ View \in DOMAIN history /\ Seen \in 0 .. Len(history)
         /\ Snapshot => Seen = View /\ Seen # 0 /\ (session.seen # 0 => View = session.seen)
         /\ kind = "csv" => View = Len(history) /\ ~Snapshot
  <1>1. Len(history) \in Nat \ {0} /\ DOMAIN history = 1 .. Len(history) BY DEF Sessions
  <1>2. session.seen \in 0 .. Len(history) BY DEF Sessions
  <1>3. View \in 1 .. Len(history) BY <1>1, <1>2 DEF View
  <1>4. kind = "csv" => SessionOf[kind].view = "statement" BY DEF SessionOf, CsvSession
  <1> QED BY <1>1, <1>3, <1>4 DEF View, Seen, Snapshot

LEMMA ReadConnects == ASSUME CmdShape, ReadInv, Connects PROVE ReadInv'
  <1>1. UNCHANGED <<kind, history, cmd>> /\ session.at = "new" /\ cmd.at = "running"
    BY DEF Connects, Connection, Running
  <1>2. session' = [session EXCEPT !.at = "open",
                      !.seen = IF SessionOf[kind].view = "connection" THEN Len(history) ELSE 0]
    BY DEF Connects, Connection
  <1>3. DOMAIN session = {"at", "seen", "frame"} /\ Len(history) \in Nat \ {0} BY DEF ReadInv, Sessions
  <1>4. /\ DOMAIN session' = DOMAIN session /\ session'.seen \in {0, Len(history)}
        /\ session'.at = "open" /\ session'.frame = session.frame
    BY <1>2, <1>3
  <1>5. Sessions' BY <1>1, <1>3, <1>4 DEF ReadInv, Sessions, Running
  <1>6. OneState' BY <1>1, <1>4 DEF ReadInv, OneState, Snapshot, ReadOf
  <1>7. Framed' BY <1>1, <1>4 DEF ReadInv, Framed
  <1> QED BY <1>5, <1>6, <1>7 DEF ReadInv

(* Whatever a command reads now is of the state it has read before.        *)
LEMMA ReadSoFar ==
  ASSUME ReadInv, Snapshot, cmd.name \in {"load", "dump"}, cmd.at = "running"
  PROVE  ReadOf(cmd, history[View]) /\ Seen = View /\ Seen # 0 /\ kind # "csv"
  <1>1. Seen = View /\ Seen # 0 /\ (session.seen # 0 => View = session.seen) /\ kind # "csv"
    BY ViewSeen DEF ReadInv
  <1>2. IF session.seen = 0 THEN DOMAIN cmd.saw = {} /\ DOMAIN cmd.counts = {}
        ELSE ReadOf(cmd, history[session.seen])
    BY DEF ReadInv, OneState
  <1>3. CASE session.seen = 0 BY <1>1, <1>2, <1>3 DEF ReadOf
  <1>4. CASE session.seen # 0 BY <1>1, <1>2, <1>4
  <1> QED BY <1>1, <1>3, <1>4

LEMMA ReadGoesOn ==
  ASSUME ReadInv, UNCHANGED <<kind, history>>, cmd.name \in {"load", "dump"}, cmd.at = "running",
         cmd'.at = "running", session'.seen = Seen, session'.at # "new",
         Snapshot => ReadOf(cmd', history[View]) /\ session'.frame.table = NoTable
  PROVE  OneState'
  <1>1. Snapshot => ReadOf(cmd', history'[session'.seen]) /\ session'.seen # 0 BY ReadSoFar
  <1>2. Snapshot' => Snapshot BY DEF Snapshot
  <1> QED BY <1>1, <1>2 DEF OneState

(* The command has counted a table.                                        *)
LEMMA ReadCounts == ASSUME CmdShape, ReadInv, LoadCounts PROVE ReadInv'
  <1> DEFINE t == Head(cmd.left)
             n == Counted(t, cmd.bound)
             frame == FrameSince(t, cmd.bound)
  <1>1. /\ UNCHANGED <<kind, history>> /\ t \notin DOMAIN cmd.counts /\ session.at = "open"
        /\ cmd.name = "load" /\ cmd.at = "running" /\ cmd.left # <<>>
    BY DEF LoadCounts, CountRows, Running
  <1>2. /\ session' = [session EXCEPT !.seen = Seen, !.frame = frame]
        /\ cmd' = [cmd EXCEPT !.counts = Noted(@, t, n)]
    BY DEF LoadCounts, CountRows
  <1>3. Sessions /\ OneState /\ Framed BY DEF ReadInv
  <1>4. t \in Tables BY <1>1, <1>3 DEF Sessions, Running
  <1>5. n = Cardinality(Since(cmd.bound, history[View][t])) BY DEF Counted
  <1>6. kind # "csv" => frame = NoFrame BY DEF FrameSince
  <1>7. kind = "csv" /\ cmd.bound => frame.table = t /\ Cardinality(frame.rows) = n
    <2> SUFFICES ASSUME kind = "csv", cmd.bound
                 PROVE  frame.table = t /\ Cardinality(frame.rows) = n OBVIOUS
    <2>1. View = Len(history) /\ cmd.bound = TRUE BY <1>3, ViewSeen DEF Sessions
    <2>2. Now = history[View] BY <2>1 DEF Now, Last
    <2>3. frame = [table |-> t, rows |-> Since(TRUE, history[View][t])] BY <2>2 DEF FrameSince
    <2>4. Since(TRUE, history[View][t]) = Since(cmd.bound, history[View][t]) BY <2>1, Zenon
    <2> HIDE DEF frame, t
    <2>5. frame.table = t /\ frame.rows = Since(TRUE, history[View][t]) BY <2>3
    <2> USE DEF frame, t
    <2> QED BY <1>5, <2>4, <2>5, Zenon
  <1>8. kind = "csv" /\ cmd.bound => \A u \in DOMAIN cmd.counts : u \in DOMAIN cmd.saw
    BY <1>1, <1>3 DEF Framed
  <1>9. cmd'.left = cmd.left BY <1>2 DEF CmdShape
  <1>10. t = Head(cmd'.left) BY <1>9
  <1> HIDE DEF t, n, frame
  <1>11. /\ DOMAIN session' = {"at", "seen", "frame"} /\ session'.at = "open"
         /\ session'.seen = Seen /\ session'.frame = frame
    BY <1>1, <1>2, <1>3 DEF Sessions
  <1>12. /\ cmd'.name = "load" /\ cmd'.at = "running"
         /\ cmd'.saw = cmd.saw /\ cmd'.bound = cmd.bound /\ cmd'.counts = Noted(cmd.counts, t, n)
    BY <1>1, <1>2 DEF CmdShape
  <1>13. /\ DOMAIN cmd'.counts = DOMAIN cmd.counts \cup {t}
         /\ \A u \in DOMAIN cmd.counts : cmd'.counts[u] = cmd.counts[u]
         /\ cmd'.counts[t] = n
    BY <1>1, <1>12 DEF Noted
  <1>14. Sessions' BY <1>1, <1>3, <1>9, <1>11, <1>12, ViewSeen DEF Sessions, Running
  <1>15. OneState'
    <2>1. Snapshot => ReadOf(cmd', history[View])
      BY <1>1, <1>5, <1>12, <1>13, ReadSoFar DEF ReadOf
    <2>2. Snapshot => session'.frame.table = NoTable
      BY <1>1, <1>6, <1>11, ReadSoFar DEF NoFrame
    <2> QED BY <1>1, <1>11, <1>12, <2>1, <2>2, ReadGoesOn
  <1>16. Framed'
    BY <1>1, <1>3, <1>7, <1>8, <1>10, <1>11, <1>12, <1>13 DEF Framed
  <1> QED BY <1>14, <1>15, <1>16 DEF ReadInv

(* It has streamed it and goes on to the next one.                         *)
LEMMA ReadStreams == ASSUME CmdShape, ReadInv, LoadStreams PROVE ReadInv'
  <1> DEFINE t == Head(cmd.left)
             rows == Streamed(t, cmd.bound)
  <1>1. /\ UNCHANGED <<kind, history>> /\ t \in DOMAIN cmd.counts /\ session.at = "open"
        /\ cmd.name = "load" /\ cmd.at = "running" /\ cmd.left # <<>>
    BY DEF LoadStreams, StreamRows, Running
  <1>2. /\ session' = [session EXCEPT !.seen = Seen, !.frame = NoFrame]
        /\ cmd' = [Onward EXCEPT !.saw = Noted(@, t, rows)]
    BY DEF LoadStreams, StreamRows
  <1>3. Sessions /\ OneState /\ Framed BY DEF ReadInv
  <1>4. t \in Tables /\ Tail(cmd.left) \in Seq(Tables) BY <1>1, <1>3 DEF Sessions, Running
  <1>5. Snapshot => rows = Since(cmd.bound, history[View][t])
    BY <1>1, <1>3, <1>4, SourceAssumption DEF OneState, Streamed
  <1>6. kind = "csv" /\ cmd.bound =>
          /\ t \notin DOMAIN cmd.saw => Cardinality(rows) = cmd.counts[t]
          /\ \A u \in DOMAIN cmd.counts : u \in DOMAIN cmd.saw \/ u = t
    BY <1>1, <1>3 DEF Framed, Streamed
  <1> HIDE DEF t, rows
  <1>7. /\ DOMAIN session' = {"at", "seen", "frame"} /\ session'.at = "open"
        /\ session'.seen = Seen /\ session'.frame = NoFrame
    BY <1>1, <1>2, <1>3 DEF Sessions
  <1>8. /\ cmd'.name = "load" /\ cmd'.at = "running" /\ cmd'.left = Tail(cmd.left)
        /\ cmd'.counts = cmd.counts /\ cmd'.bound = cmd.bound /\ cmd'.saw = Noted(cmd.saw, t, rows)
    BY <1>1, <1>2, OnwardShape DEF CmdShape
  <1>9. /\ DOMAIN cmd'.saw = DOMAIN cmd.saw \cup {t}
        /\ \A u \in DOMAIN cmd.saw : cmd'.saw[u] = cmd.saw[u]
        /\ t \notin DOMAIN cmd.saw => cmd'.saw[t] = rows
    BY <1>8 DEF Noted
  <1>10. Sessions' BY <1>1, <1>3, <1>4, <1>7, <1>8, ViewSeen DEF Sessions, Running
  <1>11. OneState'
    <2>1. Snapshot => ReadOf(cmd', history[View])
      BY <1>1, <1>5, <1>8, <1>9, ReadSoFar DEF ReadOf
    <2> QED BY <1>1, <1>7, <1>8, <2>1, ReadGoesOn DEF NoFrame
  <1>12. Framed'
    BY <1>1, <1>3, <1>6, <1>8, <1>9 DEF Framed
  <1> QED BY <1>10, <1>11, <1>12 DEF ReadInv

LEMMA ReadDumps == ASSUME CmdShape, ReadInv, DumpTable PROVE ReadInv'
  <1> DEFINE t == Head(cmd.left)
             rows == history[View][t]
  <1>1. /\ UNCHANGED <<kind, history>> /\ session.at = "open"
        /\ cmd.name = "dump" /\ cmd.at = "running"
    BY DEF DumpTable, Running
  <1>2. session' = [session EXCEPT !.seen = Seen] /\ cmd' = [Onward EXCEPT !.saw = Noted(@, t, rows)]
    BY DEF DumpTable
  <1>3. Sessions /\ OneState BY DEF ReadInv
  <1>4. ~cmd.bound BY <1>1, <1>3 DEF Sessions
  <1>5. rows = Since(cmd.bound, history[View][t]) BY <1>4 DEF Since
  <1> HIDE DEF t, rows
  <1>6. /\ DOMAIN session' = {"at", "seen", "frame"} /\ session'.at = "open"
        /\ session'.seen = Seen /\ session'.frame = session.frame
    BY <1>1, <1>2, <1>3 DEF Sessions
  <1>7. /\ cmd'.name = "dump" /\ cmd'.at = "running"
        /\ cmd'.counts = cmd.counts /\ cmd'.bound = cmd.bound /\ cmd'.saw = Noted(cmd.saw, t, rows)
    BY <1>1, <1>2, OnwardShape DEF CmdShape
  <1>8. /\ DOMAIN cmd'.saw = DOMAIN cmd.saw \cup {t}
        /\ \A u \in DOMAIN cmd.saw : cmd'.saw[u] = cmd.saw[u]
        /\ t \notin DOMAIN cmd.saw => cmd'.saw[t] = rows
    BY <1>7 DEF Noted
  <1>9. Sessions' BY <1>1, <1>3, <1>4, <1>6, <1>7, ViewSeen DEF Sessions, Running
  <1>10. OneState'
    <2>1. Snapshot => ReadOf(cmd', history[View])
      BY <1>1, <1>5, <1>7, <1>8, ReadSoFar DEF ReadOf
    <2>2. Snapshot => session'.frame.table = NoTable BY <1>1, <1>3, <1>6 DEF OneState
    <2> QED BY <1>1, <1>6, <1>7, <2>1, <2>2, ReadGoesOn
  <1>11. Framed' BY <1>4, <1>7 DEF Framed
  <1> QED BY <1>9, <1>10, <1>11 DEF ReadInv

(* A table of a dump that fails, and one that is cut off, which has begun  *)
(* to be read for all that.                                                *)
LEMMA ReadFails == ASSUME CmdShape, ReadInv, DumpRaises \/ DumpCut PROVE ReadInv'
  <1>1. UNCHANGED <<kind, history>> /\ cmd.name = "dump" /\ cmd.at = "running" /\ cmd' = Onward
    BY DEF DumpRaises, DumpCut, Running
  <1>2. /\ cmd'.name = "dump" /\ cmd'.at = "running" /\ cmd'.counts = cmd.counts
        /\ cmd'.bound = cmd.bound /\ cmd'.saw = cmd.saw
    BY <1>1, OnwardShape
  <1>3. Sessions /\ OneState BY DEF ReadInv
  <1>4. DOMAIN session = {"at", "seen", "frame"} /\ ~cmd.bound BY <1>1, <1>3 DEF Sessions
  <1>5. Framed' BY <1>2, <1>4 DEF Framed
  <1>6. ReadOf(cmd', history[View]) <=> ReadOf(cmd, history[View]) BY <1>2 DEF ReadOf
  <1>7. \A at \in {"aborted", "open", "lost"} : at # "new" OBVIOUS
  <1>8. SessionOf[kind].after \in {"aborted", "open"}
    BY <1>3, SourceAssumption DEF Sessions, SessionOf, PostgresSession, MySQLSession, SQLServerSession,
       SnowflakeSession, ClickHouseSession, CsvSession
  <1>9. CASE DumpRaises
    <2>1. session' = session \/ \E at \in {"aborted", "open", "lost"} : session' = [session EXCEPT !.at = at]
      BY <1>8, <1>9 DEF DumpRaises, Raises
    <2>2. /\ DOMAIN session' = {"at", "seen", "frame"} /\ session'.frame = session.frame
          /\ session'.seen = session.seen /\ (session'.at = "new" => session.at = "new")
      BY <1>4, <2>1
    <2>3. Sessions' BY <1>1, <1>2, <1>3, <1>4, <2>2 DEF Sessions, Running
    <2>4. OneState' BY <1>1, <1>2, <1>3, <2>2 DEF OneState, Snapshot, ReadOf
    <2> QED BY <1>5, <2>3, <2>4 DEF ReadInv
  <1>10. CASE DumpCut
    <2>1. PICK at \in {"aborted", "open", "lost"} : session' = [session EXCEPT !.at = at, !.seen = Seen]
      BY <1>8, <1>10 DEF DumpCut
    <2>2. /\ DOMAIN session' = {"at", "seen", "frame"} /\ session'.frame = session.frame
          /\ session'.seen = Seen /\ session'.at # "new"
      BY <1>4, <2>1
    <2>3. Sessions' BY <1>1, <1>2, <1>3, <1>4, <2>2, ViewSeen DEF Sessions, Running
    <2>4. Snapshot => session'.frame.table = NoTable BY <1>1, <1>3, <2>2 DEF OneState
    <2>5. Snapshot => ReadOf(cmd', history[View]) BY <1>1, <1>6, ReadSoFar
    <2>6. OneState' BY <1>1, <1>2, <2>2, <2>4, <2>5, ReadGoesOn
    <2> QED BY <1>5, <2>3, <2>6 DEF ReadInv
  <1> QED BY <1>9, <1>10

(* A load or dump that ends has read some one state.                       *)
LEMMA ReadEnds == ASSUME CmdShape, ReadInv, LoadRaises \/ EndReads PROVE ReadInv'
  <1>1. /\ UNCHANGED <<kind, history>> /\ cmd.name \in {"load", "dump"} /\ cmd.at = "running"
        /\ EndsWell \/ Fails
    BY DEF LoadRaises, EndReads, Running
  <1>2. /\ cmd'.name = cmd.name /\ cmd'.at # "running" /\ cmd'.counts = cmd.counts
        /\ cmd'.bound = cmd.bound /\ cmd'.saw = cmd.saw
    BY <1>1, EndShape
  <1>3. Sessions /\ OneState /\ Framed BY DEF ReadInv
  <1>4. session' = Closed BY DEF LoadRaises, EndReads
  <1>5. Sessions' BY <1>1, <1>2, <1>3, <1>4 DEF Sessions, Running, Closed
  <1>6. ReadOf(cmd', history[View]) <=> ReadOf(cmd, history[View]) BY <1>2 DEF ReadOf
  <1>7. View \in DOMAIN history BY <1>3, ViewSeen
  <1>8. OneState' BY <1>1, <1>2, <1>6, <1>7, ReadSoFar DEF OneState, Snapshot
  <1>9. Framed' BY <1>1, <1>2, <1>3 DEF Framed
  <1> QED BY <1>5, <1>8, <1>9 DEF ReadInv

Aside ==
  \/ BeginDumpTables \/ CopyTable \/ EndDumpTables
  \/ BeginTransformAll \/ TransformAll \/ EndTransformAll \/ TransformNodes \/ TransformEdges
  \/ GenerateImport \/ GenerateCsvImport \/ PreviewArangoimport
  \/ RunScript \/ Import \/ CreateGraph \/ EndScript \/ CreateGraphByHand \/ EditMapping

LEMMA AsideShape ==
  ASSUME CmdShape, Aside
  PROVE  /\ UNCHANGED <<kind, history, session>> /\ cmd'.name \notin {"load", "dump"}
         /\ (cmd'.bound = FALSE \/ (cmd'.name = cmd.name /\ cmd'.bound = cmd.bound))
  <1> USE DEF sourceVars, Ended, Running, Give
  <1>1. CASE BeginDumpTables BY <1>1 DEF BeginDumpTables
  <1>2. CASE CopyTable BY <1>2 DEF CopyTable, Onward, Fails, CmdShape
  <1>3. CASE EndDumpTables BY <1>3, EndShape DEF EndDumpTables
  <1>4. CASE BeginTransformAll BY <1>4 DEF BeginTransformAll
  <1>5. CASE TransformAll BY <1>5, EndShape, OnwardShape DEF TransformAll
  <1>6. CASE EndTransformAll BY <1>6, EndShape DEF EndTransformAll
  <1>7. CASE TransformNodes \/ TransformEdges
    BY <1>7 DEF TransformNodes, TransformEdges, TransformOne
  <1>8. CASE GenerateImport \/ GenerateCsvImport \/ PreviewArangoimport
    BY <1>8 DEF GenerateImport, GenerateCsvImport, PreviewArangoimport, Generate
  <1>9. CASE RunScript BY <1>9 DEF RunScript
  <1>10. CASE Import BY <1>10, EndShape, OnwardShape DEF Import
  <1>11. CASE CreateGraph BY <1>11, EndShape, OnwardShape DEF CreateGraph
  <1>12. CASE EndScript BY <1>12, EndShape DEF EndScript
  <1>13. CASE CreateGraphByHand BY <1>13 DEF CreateGraphByHand
  <1>14. CASE EditMapping BY <1>14 DEF EditMapping
  <1> QED BY <1>1, <1>2, <1>3, <1>4, <1>5, <1>6, <1>7, <1>8, <1>9, <1>10, <1>11, <1>12, <1>13, <1>14
     DEF Aside

LEMMA ReadNext == CmdShape /\ ReadInv /\ [Next]_vars => ReadInv'
  <1> SUFFICES ASSUME CmdShape, ReadInv, [Next]_vars PROVE ReadInv' OBVIOUS
  <1>1. CASE SourceCommits BY <1>1, ReadCommits
  <1>2. CASE Introspects \/ UNCHANGED vars
    BY <1>2, ReadUnchanged DEF Introspects, vars, sourceVars
  <1>3. CASE BeginLoad
    <2>1. PICK bound \in BOOLEAN :
            cmd' = [Ended EXCEPT !.name = "load", !.at = "running", !.left = Order, !.bound = bound]
      BY <1>3 DEF BeginLoad
    <2>2. Begins("load") /\ cmd'.at = "running" /\ cmd'.left = Order
      BY <1>3, <2>1 DEF BeginLoad, Begins, Ended
    <2> QED BY <1>3, <2>2, OfflineAssumption, ReadBegins DEF BeginLoad
  <1>4. CASE BeginDump
    <2>1. PICK left : Give("dump", left) BY <1>4 DEF BeginDump
    <2> QED BY <1>4, <2>1, GiveShape, ReadBegins DEF BeginDump
  <1>5. CASE Connects BY <1>5, ReadConnects
  <1>6. CASE LoadCounts BY <1>6, ReadCounts
  <1>7. CASE LoadStreams BY <1>7, ReadStreams
  <1>8. CASE LoadRaises \/ EndReads BY <1>8, ReadEnds
  <1>9. CASE DumpTable BY <1>9, ReadDumps
  <1>10. CASE DumpRaises \/ DumpCut BY <1>10, ReadFails
  <1>11. CASE Aside BY <1>11, AsideShape, ReadAside
  <1> QED BY <1>1, <1>2, <1>3, <1>4, <1>5, <1>6, <1>7, <1>8, <1>9, <1>10, <1>11 DEF Next, Aside

(* A load or dump through a session with a snapshot reads one committed    *)
(* state of the source, counts and rows, whatever is committed between its *)
(* statements and whichever tables fail; a bounded load of files streams   *)
(* the rows it counted (connectors/postgres.py and mysql.py, the sessions; *)
(* csv_source.py, _frame_since).                                           *)
THEOREM OneStateIsRead == Spec => []ReadsAreOneState
  <1>1. Init => CmdShape BY DEF Init, Ended, CmdShape
  <1>2. ReadInv => ReadsAreOneState
    <2> SUFFICES ASSUME ReadInv PROVE ReadsAreOneState OBVIOUS
    <2>1. Sessions /\ OneState /\ Framed BY DEF ReadInv
    <2>2. Snapshot /\ cmd.name \in {"load", "dump"} => \E i \in DOMAIN history : ReadOf(cmd, history[i])
      <3> SUFFICES ASSUME Snapshot, cmd.name \in {"load", "dump"}
                   PROVE  \E i \in DOMAIN history : ReadOf(cmd, history[i]) OBVIOUS
      <3>1. CASE cmd.at = "running" BY <2>1, <3>1, ReadSoFar, ViewSeen
      <3>2. CASE cmd.at # "running" BY <2>1, <3>2 DEF OneState
      <3> QED BY <3>1, <3>2
    <2> QED BY <2>1, <2>2 DEF ReadsAreOneState, Snapshot, ReadOf, Framed
  <1> QED BY <1>1, <1>2, CmdNext, ReadInit, ReadNext, PTL DEF Spec

(***************************************************************************)
(* What a command that exits with zero has done                            *)
(***************************************************************************)

(* Of the tables that a script has imported no row was rejected.           *)
ScriptSteps ==
  Running("script") =>
    /\ \A t \in Tables : t \in ToSet(cmd.left) \/ Rejected(t) = {}
    /\ "graph" \in ToSet(cmd.left) => (cmd.again <=> graph)

(* Of a job that is not left to do and stays, all is there.                *)
ScriptLands ==
  cmd.name = "script" /\ ~cmd.again /\ cmd.at \in {"running", "ok"} =>
    /\ \A j \in JobNames : j \in ToSet(cmd.left) \/ (Stays(j) => Landed(j))
    /\ cmd.at = "ok" => cmd.left = <<>>

Written(j) ==
  dumps[TableOf(j)].there /\ StaysWritten(j) =>
    jsonl[Into[j]] = File(Transformed(j, dumps[TableOf(j)].rows))
Transforms ==
  cmd.name = "transform-all" /\ cmd.at \in {"running", "ok"} =>
    /\ \A j \in JobNames : j \in ToSet(cmd.left) \/ Written(j)
    /\ cmd.at = "ok" => cmd.left = <<>>

DoneInv == ScriptSteps /\ ScriptLands /\ Transforms

LEMMA DoneInit == Init => DoneInv
  <1> SUFFICES ASSUME Init PROVE DoneInv OBVIOUS
  <1>1. cmd.name = None /\ cmd.at = "ok" BY DEF Init, Ended
  <1> QED BY <1>1, OfflineAssumption DEF DoneInv, ScriptSteps, ScriptLands, Transforms, Running

(* What the files, the script and the mapping say of a job.                *)
LEMMA SameOffered ==
  ASSUME UNCHANGED <<dumps, jsonl, script>>
  PROVE  /\ \A j : Offered(j)' = Offered(j) /\ Rejected(j)' = Rejected(j)
         /\ \A j, d : MayBeLeftOut(j, d)' <=> MayBeLeftOut(j, d)
         /\ \A j : Stays(j)' <=> Stays(j)
  <1>1. \A j : Offered(j)' = Offered(j) BY DEF Offered
  <1>2. \A j, d : IsRejected(j, d)' <=> IsRejected(j, d) BY DEF IsRejected
  <1>3. \A j : Rejected(j)' = Rejected(j) BY <1>1, <1>2 DEF Rejected
  <1>4. \A j, d : MayBeLeftOut(j, d)' <=> MayBeLeftOut(j, d) BY DEF MayBeLeftOut
  <1>5. \A j : Stays(j)' <=> Stays(j) BY DEF Stays
  <1> QED BY <1>1, <1>3, <1>4, <1>5

LEMMA SameWritten ==
  ASSUME UNCHANGED <<dumps, jsonl, masks>> PROVE \A j : Written(j)' <=> Written(j)
  <1>1. \A j, rows : Transformed(j, rows)' = Transformed(j, rows)
    BY DEF Transformed, Documents, Edges
  <1>2. \A j : StaysWritten(j)' <=> StaysWritten(j) BY DEF StaysWritten
  <1> QED BY <1>1, <1>2 DEF Written

(* Steps that leave everything alone that it is about.                     *)
LEMMA DoneUnchanged ==
  ASSUME DoneInv, UNCHANGED <<dumps, jsonl, masks, script, db, graph, cmd>> PROVE DoneInv'
  <1>1. \A j : Landed(j)' <=> Landed(j) BY SameOffered DEF Landed
  <1>2. ScriptLands' BY <1>1, SameOffered DEF DoneInv, ScriptLands
  <1>3. Transforms' BY SameWritten DEF DoneInv, Transforms
  <1>4. ScriptSteps' BY SameOffered DEF DoneInv, ScriptSteps, Running
  <1> QED BY <1>2, <1>3, <1>4 DEF DoneInv

(* The other commands promise nothing.                                     *)
LEMMA DoneElsewhere ==
  ASSUME cmd'.name \notin {"script", "transform-all"} PROVE DoneInv'
  BY DEF DoneInv, ScriptSteps, ScriptLands, Transforms, Running

(* Nor does a script or a transform-all that fails.                        *)
LEMMA DoneFails ==
  ASSUME CmdShape, Fails PROVE DoneInv'
  BY EndShape DEF DoneInv, ScriptSteps, ScriptLands, Transforms, Running

LEMMA DoneTransformAll ==
  ASSUME CmdShape, LeftShape, MaskInv, DoneInv, TransformAll PROVE DoneInv'
  <1>0. PICK j \in JobNames : j = Head(cmd.left) BY JobAt
  <1> DEFINE f == File(Transformed(j, dumps[TableOf(j)].rows))
  <1>1. /\ UNCHANGED <<dumps, masks>> /\ cmd.name = "transform-all" /\ cmd.at = "running"
        /\ cmd.left # <<>>
    BY DEF TransformAll, Running
  <1>2. CASE Fails BY <1>2, DoneFails
  <1>3. CASE ~Fails
    <2>1. /\ cmd' = Onward
          /\ \/ ~dumps[TableOf(j)].there /\ UNCHANGED jsonl
             \/ dumps[TableOf(j)].there /\ jsonl' = [jsonl EXCEPT ![Into[j]] = f]
      BY <1>0, <1>3 DEF TransformAll
    <2>2. /\ cmd'.name = "transform-all" /\ cmd'.at = "running" /\ cmd'.left = Tail(cmd.left)
      BY <1>1, <2>1, OnwardShape
    <2>3. Rest(cmd.left) BY <1>1 DEF LeftShape, Running
    <2>4. /\ \A u \in ToSet(cmd.left) : u = j \/ u \in ToSet(Tail(cmd.left))
          /\ j \in ToSet(cmd.left)
      BY <1>0, <1>1, <2>3, RestTail
    <2>5. DOMAIN jsonl = Collections /\ Into[j] \in Collections
      BY IntoCollections DEF MaskInv, FilesShape
    <2>6. /\ dumps[TableOf(j)].there => jsonl'[Into[j]] = f
          /\ \A c \in Collections : c # Into[j] => jsonl'[c] = jsonl[c]
      BY <2>1, <2>5
    <2>7. \A u, rows : Transformed(u, rows)' = Transformed(u, rows)
      BY <1>1 DEF Transformed, Documents, Edges
    <2>8. \A u : StaysWritten(u)' <=> StaysWritten(u) BY <1>1 DEF StaysWritten
    <2>9. Written(j)'
      <3> SUFFICES ASSUME dumps[TableOf(j)].there
                   PROVE  jsonl'[Into[j]] = File(Transformed(j, dumps[TableOf(j)].rows))
        BY <1>1, <2>7 DEF Written
      <3> QED BY <2>6
    <2> HIDE DEF f
    <2>10. ASSUME NEW u \in JobNames, u \notin ToSet(cmd.left) PROVE Written(u)'
      <3>1. Written(u) BY <1>1, <2>10 DEF DoneInv, Transforms
      <3>2. CASE Into[u] # Into[j]
        <4>1. jsonl'[Into[u]] = jsonl[Into[u]] BY <2>6, <3>2, IntoCollections
        <4> QED BY <1>1, <2>7, <2>8, <3>1, <4>1 DEF Written
      <3>3. CASE Into[u] = Into[j]
        <4>1. After(u, j) BY <2>3, <2>4, <2>10, <3>3 DEF Rest, AfterDone, Earlier, After
        <4>2. CASE dumps[TableOf(j)].there
          <5>1. ~StaysWritten(u) BY <4>1, <4>2 DEF StaysWritten
          <5> QED BY <2>8, <5>1 DEF Written
        <4>3. CASE ~dumps[TableOf(j)].there
          <5>1. jsonl' = jsonl BY <2>1, <4>3
          <5> QED BY <1>1, <2>7, <2>8, <3>1, <5>1 DEF Written
        <4> QED BY <4>2, <4>3
      <3> QED BY <3>2, <3>3
    <2>11. \A u \in JobNames : u \in ToSet(cmd'.left) \/ Written(u)'
      BY <2>2, <2>4, <2>9, <2>10
    <2> QED BY <2>2, <2>11 DEF DoneInv, ScriptSteps, ScriptLands, Transforms, Running
  <1> QED BY <1>2, <1>3

(* Of what arangoimport is offered by a script, what it rejects may be     *)
(* left out, when the script goes on: nodes are imported first, so that no *)
(* row has a key that is not legal.                                        *)
LEMMA RejectedMayBeLeftOut ==
  ASSUME LeftShape, DoneInv, Running("script"), cmd.left # <<>>,
         NEW j \in JobNames, j = Head(cmd.left), NEW logged, Passes(j, logged),
         NEW d \in Rejected(j)
  PROVE  MayBeLeftOut(j, d)
  <1>1. script.mode = "csv" /\ j \in LinkNames BY DEF Passes, NullFkOk
  <1>2. j \notin Tables BY <1>1, OfflineAssumption
  <1>3. \A t \in Tables : t \notin ToSet(cmd.left) BY <1>2, RestTail DEF LeftShape
  <1>4. ASSUME NEW t \in Tables, NEW r \in dumps[t].rows PROVE KeyOf(t, r) \notin Illegal
    <2> DEFINE doc == Document(KeyOf(t, r), r, TRUE, script.masks[t])
    <2>1. Rejected(t) = {} BY <1>3 DEF DoneInv, ScriptSteps
    <2>2. TableOf(t) = t BY DEF TableOf
    <2>3. doc \in Offered(t) BY <1>1, <2>2 DEF Offered
    <2>4. doc.key \notin Illegal BY <2>1, <2>3 DEF Rejected, IsRejected
    <2> QED BY <2>4 DEF Document
  <1>5. TableOf(j) \in Tables /\ Parent[TableOf(j)] \in Tables
    <2>1. PICK i \in DOMAIN Links : Links[i].name = j BY <1>1 DEF LinkNames
    <2>2. Links[i] \in ToSet(Links) BY <2>1 DEF ToSet
    <2>3. (CHOOSE l \in ToSet(Links) : l.name = j) \in ToSet(Links) BY <2>1, <2>2
    <2>4. \A l \in ToSet(Links) : l.from \in Tables /\ Parent[l.from] \in Tables
      <3> DEFINE R == [name : LinkNames, from : {t \in Tables : Parent[t] \in Tables}]
      <3>1. \A l \in R : l.from \in Tables /\ Parent[l.from] \in Tables OBVIOUS
      <3>2. Links \in Seq(R) BY OfflineAssumption
      <3> HIDE DEF R
      <3> QED BY <3>1, <3>2 DEF ToSet
    <2> QED BY <1>2, <2>3, <2>4 DEF TableOf
  <1>6. CASE TableOf(j) \in Keyless BY <1>1, <1>6 DEF MayBeLeftOut
  <1>7. CASE TableOf(j) \notin Keyless
    <2>1. PICK r \in dumps[TableOf(j)].rows : d = Edge(None, KeyOf(TableOf(j), r), r.ref, r)
      BY <1>1, <1>2 DEF Rejected, Offered
    <2>2. d.from \notin Illegal BY <1>4, <1>5, <2>1 DEF Edge
    <2>3. d.to \in Illegal \/ d.to = NoRef BY <1>2, <1>7, <2>2 DEF Rejected, IsRejected
    <2>4. d.to \in Illegal => \A q \in dumps[Parent[TableOf(j)]].rows : KeyOf(Parent[TableOf(j)], q) # d.to
      BY <1>4, <1>5
    <2> QED BY <1>1, <2>3, <2>4 DEF MayBeLeftOut
  <1> QED BY <1>6, <1>7

LEMMA DoneImport == ASSUME CmdShape, LeftShape, MaskInv, DoneInv, Import PROVE DoneInv'
  <1>0. PICK j \in JobNames : j = Head(cmd.left) BY JobAt
  <1> DEFINE taken == Offered(j) \ Rejected(j)
             c == Into[j]
  <1>1. /\ UNCHANGED <<dumps, jsonl, script, graph>> /\ Running("script") /\ cmd.left # <<>>
        /\ cmd.name = "script" /\ cmd.at = "running"
    BY DEF Import, filesVars, Running
  <1>2. Rest(cmd.left) BY <1>1 DEF LeftShape
  <1>3. /\ \A u \in ToSet(cmd.left) : u = j \/ u \in ToSet(Tail(cmd.left))
        /\ \A u \in ToSet(Tail(cmd.left)) : u \in ToSet(cmd.left)
        /\ j \in ToSet(cmd.left)
    BY <1>0, <1>1, <1>2, RestTail
  <1>4. CASE Fails BY <1>4, DoneFails
  <1>5. CASE ~Fails
    <2>1. cmd' = Onward /\ db' = [db EXCEPT ![c] = Stored(c, taken)] BY <1>0, <1>5 DEF Import
    <2>2. PICK logged : Passes(j, logged) BY <1>0, <1>5 DEF Import
    <2>3. /\ cmd'.name = "script" /\ cmd'.at = "running" /\ cmd'.left = Tail(cmd.left)
          /\ cmd'.again = cmd.again
      BY <1>1, <2>1, OnwardShape
    <2>4. /\ db'[c] = Stored(c, taken)
          /\ \A e \in Collections : e # c => db'[e] = db[e]
      BY <2>1, IntoCollections DEF MaskInv, FilesShape
    <2>5. /\ \A d \in Rejected(j) : MayBeLeftOut(j, d)
          /\ script.mode = "jsonl" \/ j \in Tables => Rejected(j) = {}
      <3>1. \A d \in Rejected(j) : MayBeLeftOut(j, d)
        BY <1>0, <1>1, <2>2, RejectedMayBeLeftOut
      <3>2. j \in Tables => j \notin LinkNames BY OfflineAssumption
      <3> QED BY <2>2, <3>1, <3>2 DEF Passes, NullFkOk
    <2>6. ScriptSteps'
      <3>1. \A t \in Tables : t \in ToSet(cmd'.left) \/ Rejected(t)' = {}
        BY <1>1, <1>3, <2>3, <2>5, SameOffered DEF DoneInv, ScriptSteps
      <3>2. "graph" \in ToSet(cmd'.left) => (cmd'.again <=> graph')
        BY <1>1, <1>3, <2>3 DEF DoneInv, ScriptSteps
      <3> QED BY <3>1, <3>2 DEF ScriptSteps
    <2>7. \A d \in taken : d \in db'[c] BY <2>4 DEF Stored
    <2>8. Landed(j)' BY <1>1, <2>5, <2>7, SameOffered DEF Landed
    <2>9. ASSUME ~cmd.again, NEW u \in JobNames, u \notin ToSet(cmd.left), Stays(u) PROVE Landed(u)'
      <3>1. Landed(u) BY <1>1, <2>9 DEF DoneInv, ScriptLands
      <3>2. CASE Into[u] # c
        <4>1. db'[Into[u]] = db[Into[u]] BY <2>4, <3>2, IntoCollections
        <4> QED BY <1>1, <3>1, <4>1, SameOffered DEF Landed
      <3>3. CASE Into[u] = c
        <4>1. After(u, j) BY <1>2, <1>3, <2>9, <3>3 DEF Rest, AfterDone, Earlier, After
        <4>2. ~script.overwrite /\ u \in LinkNames BY <2>9, <4>1 DEF Stays
        <4>3. CASE script.mode = "jsonl"
          <5>1. Offered(u) = Offered(j) BY <3>3, <4>3 DEF Offered
          <5>2. \A d \in Offered(u) : d \in db'[c] BY <2>5, <2>7, <4>3, <5>1
          <5> QED BY <1>1, <3>3, <5>2, SameOffered DEF Landed
        <4>4. CASE script.mode # "jsonl"
          <5>1. u \notin Tables BY <4>2, OfflineAssumption
          <5>2. \A d \in Offered(u) : d.key = None BY <4>4, <5>1 DEF Offered, Edge
          <5>3. \A d \in Offered(u) : d \in db[c] => d \in db'[c] BY <2>4, <4>2, <5>2 DEF Stored
          <5> QED BY <1>1, <3>1, <3>3, <5>3, SameOffered DEF Landed
        <4> QED BY <4>3, <4>4
      <3> QED BY <3>2, <3>3
    <2> HIDE DEF taken, c
    <2>10. ScriptLands'
      <3> SUFFICES ASSUME ~cmd.again, NEW u \in JobNames, Stays(u)
                   PROVE  u \in ToSet(Tail(cmd.left)) \/ Landed(u)'
        BY <1>1, <2>3, SameOffered DEF ScriptLands
      <3> QED BY <1>3, <2>8, <2>9
    <2> QED BY <2>3, <2>6, <2>10 DEF DoneInv, Transforms
  <1> QED BY <1>4, <1>5

(* Without a graph that was there before, creating it empties nothing.     *)
LEMMA DoneGraph == ASSUME CmdShape, DoneInv, CreateGraph PROVE DoneInv'
  <1> DEFINE dropped == [c \in Collections |-> IF graph /\ c \in InGraph THEN {} ELSE db[c]]
  <1>1. /\ UNCHANGED <<dumps, jsonl, script>> /\ cmd.name = "script" /\ cmd.at = "running"
        /\ cmd.left = <<"graph">>
    BY DEF CreateGraph, filesVars, Running
  <1>2. CASE Fails BY <1>2, DoneFails
  <1>3. CASE ~Fails
    <2>1. cmd' = Onward /\ db' = dropped BY <1>3 DEF CreateGraph
    <2>2. /\ cmd'.name = "script" /\ cmd'.at = "running" /\ cmd'.left = <<>>
          /\ cmd'.again = cmd.again
      BY <1>1, <2>1, OnwardShape
    <2>3. ToSet(cmd.left) = {"graph"} BY <1>1 DEF ToSet
    <2>4. \A j \in JobNames : j \notin ToSet(cmd.left) BY <2>3, OfflineAssumption
    <2>5. ASSUME ~cmd.again, NEW j \in JobNames, Stays(j) PROVE Landed(j)'
      <3>1. ~graph BY <1>1, <2>3, <2>5 DEF DoneInv, ScriptSteps, Running
      <3>2. db'[Into[j]] = db[Into[j]] BY <2>1, <3>1, IntoCollections
      <3>3. Landed(j) BY <1>1, <2>4, <2>5 DEF DoneInv, ScriptLands
      <3> QED BY <1>1, <3>2, <3>3, SameOffered DEF Landed
    <2>6. ScriptSteps'
      <3>1. \A t \in Tables : Rejected(t)' = {}
        BY <1>1, <2>4, IntoCollections, SameOffered DEF DoneInv, ScriptSteps, Running
      <3> QED BY <2>2, <3>1 DEF ScriptSteps, ToSet
    <2> QED BY <1>1, <2>2, <2>5, <2>6, SameOffered DEF DoneInv, ScriptLands, Transforms
  <1> QED BY <1>2, <1>3

LEMMA DoneRunScript == ASSUME RunScript PROVE DoneInv'
  <1>1. /\ cmd'.name = "script" /\ cmd'.at = "running" /\ graph' = graph
        /\ cmd'.again = (script.graph /\ graph)
        /\ cmd'.left = Jobs \o IF script.graph THEN <<"graph">> ELSE <<>>
    BY DEF RunScript, Ended, targetVars
  <1>2. CASE script.graph
    <2>1. cmd'.left = Jobs \o <<"graph">> BY <1>1, <1>2
    <2>2. cmd'.again <=> graph' BY <1>1, <1>2
    <2> QED BY <1>1, <2>1, <2>2, JobsShape, IntoCollections
       DEF DoneInv, ScriptSteps, ScriptLands, Transforms
  <1>3. CASE ~script.graph
    <2>1. cmd'.left = Jobs BY <1>1, <1>3, JobsShape
    <2>2. "graph" \notin ToSet(Jobs) BY JobsShape, OfflineAssumption
    <2> QED BY <1>1, <2>1, <2>2, JobsShape, IntoCollections
       DEF DoneInv, ScriptSteps, ScriptLands, Transforms
  <1> QED BY <1>2, <1>3

(* The end of a script or transform-all: nothing is left to do.            *)
LEMMA DoneEnds == ASSUME CmdShape, DoneInv, EndTransformAll \/ EndScript PROVE DoneInv'
  <1>1. /\ UNCHANGED <<dumps, jsonl, masks, script, db, graph>> /\ cmd.at = "running"
        /\ cmd.left = <<>> /\ cmd'.name = cmd.name /\ cmd'.at = "ok" /\ cmd'.left = cmd.left
        /\ cmd'.again = cmd.again
    BY EndShape DEF EndTransformAll, EndScript, Running, filesVars, targetVars
  <1>2. \A j : Landed(j)' <=> Landed(j) BY <1>1, SameOffered DEF Landed
  <1>3. ScriptSteps' BY <1>1 DEF ScriptSteps, Running
  <1>4. ScriptLands' BY <1>1, <1>2, SameOffered DEF DoneInv, ScriptLands
  <1>5. Transforms' BY <1>1, SameWritten DEF DoneInv, Transforms
  <1> QED BY <1>3, <1>4, <1>5 DEF DoneInv

LEMMA DoneNext ==
  CmdShape /\ LeftShape /\ MaskInv /\ DoneInv /\ [Next]_vars => DoneInv'
  <1> SUFFICES ASSUME CmdShape, LeftShape, MaskInv, DoneInv, [Next]_vars PROVE DoneInv' OBVIOUS
  <1>1. CASE SourceCommits \/ Introspects \/ Connects \/ UNCHANGED vars
    BY <1>1, DoneUnchanged DEF SourceCommits, Introspects, Connects, vars, filesVars, targetVars
  <1>2. CASE \/ (Reading /\ ~Connects) \/ TransformNodes \/ TransformEdges
             \/ GenerateImport \/ GenerateCsvImport \/ PreviewArangoimport \/ EditMapping
             \/ CreateGraphByHand
    BY <1>2, OtherNames, DoneElsewhere
  <1>3. CASE BeginTransformAll
    <2>1. cmd'.name = "transform-all" /\ cmd'.at = "running" /\ cmd'.left = Jobs
      BY <1>3, GiveShape DEF BeginTransformAll, Begins
    <2> QED BY <2>1, JobsShape DEF DoneInv, ScriptSteps, ScriptLands, Transforms, Running
  <1>4. CASE TransformAll BY <1>4, DoneTransformAll
  <1>5. CASE EndTransformAll \/ EndScript BY <1>5, DoneEnds
  <1>6. CASE RunScript BY <1>6, DoneRunScript
  <1>7. CASE Import BY <1>7, DoneImport
  <1>8. CASE CreateGraph BY <1>8, DoneGraph
  <1> QED BY <1>1, <1>2, <1>3, <1>4, <1>5, <1>6, <1>7, <1>8 DEF Next, Reading

(* Whatever has been dumped, transformed and generated before, and however *)
(* much of it failed: a script that exits with zero has stored all that    *)
(* its files hold, but for the edges of NULL and of orphaned foreign keys, *)
(* and of tables without a key; and a transform-all that exits with zero   *)
(* has written a file for every dump there is (arangoimport.py,            *)
(* IMPORT_GUARD; main.py, transform_all).  Of jobs that share a collection *)
(* it is so of the last only, each of which empties what the others wrote. *)
(* Not of a script that creates anew a graph that was there, of which      *)
(* GraphIsCreatedAgain shows that it empties what it has imported.         *)
THEOREM ZeroMeansDone == Spec => []ExitZeroMeansDone
  <1>1. Init => CmdShape /\ LeftShape
    BY OfflineAssumption DEF Init, Ended, CmdShape, LeftShape, Running
  <1>2. DoneInv => ExitZeroMeansDone
    <2>1. \A j : j \notin ToSet(<<>>) BY DEF ToSet
    <2> QED BY <2>1 DEF DoneInv, ScriptLands, Transforms, Written, ExitZeroMeansDone
  <1> QED BY <1>1, <1>2, CmdNext, LeftNext, MaskInit, MaskNext, DoneInit, DoneNext, PTL DEF Spec
=============================================================================
