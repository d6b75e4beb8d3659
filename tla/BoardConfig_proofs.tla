-------------------------- MODULE BoardConfig_proofs --------------------------
(***************************************************************************)
(* What is proved of BoardConfig, for every Config.in.  The files: what is *)
(* whole is touched only when it is whole elsewhere, whatever the tools    *)
(* write.  The expressions: what the rules of expr.c make of two leaves,   *)
(* or of one, has their value.                                             *)
(***************************************************************************)
EXTENDS BoardFiles, KconfigLeaf, TLAPS

\* what is left of a target's tools
Lists == {<<>>, <<"defconfig">>,
          <<"defconfig", "makefile", "syncconfig">>, <<"makefile", "syncconfig">>, <<"syncconfig">>,
          <<"defconfig", "mconf", "cp", "savedefconfig", "sed">>, <<"mconf", "cp", "savedefconfig", "sed">>,
          <<"cp", "savedefconfig", "sed">>, <<"savedefconfig", "sed">>, <<"sed">>}

\* where a tool can be
Places == [defconfig |-> {"start", "move", "place"}, mconf |-> {"start", "edit", "move", "place"},
           cp |-> {"start", "fill"}, savedefconfig |-> {"start", "fill"}, sed |-> {"start"},
           makefile |-> {"start"},
           syncconfig |-> {"start", "ask", "move", "place", "auto"}]

IsFile(f) == f = [there |-> f.there, whole |-> f.whole, lines |-> f.lines, by |-> f.by]

ToolInv ==
    /\ tools \in Lists
    /\ Idle => at = "start"
    /\ ~Idle => at \in Places[Head(tools)]

\* the .config files are never cut off; between the two renames there is no .config
ConfigInv ==
    /\ config.there => config.whole
    /\ old.there => old.whole
    /\ at = "place" => ~config.there

\* the copy equals the defconfig from when cp is through until it is written over,
\* and what is being written is not whole
CopyInv ==
    /\ IsFile(defconfig)
    /\ Running("cp") /\ at = "fill" => out = defconfig.lines
    /\ Running("savedefconfig") /\ at = "start" => bak = defconfig
    /\ Running("savedefconfig") /\ at = "fill" => ~defconfig.whole

FileInv == ToolInv /\ ConfigInv /\ CopyInv

-----------------------------------------------------------------------------
(* The tools of a target *)

\* One tool after the other; what comes before savedefconfig is cp.
LEMMA ToolOrder ==
    ASSUME NEW l \in Lists, l # <<>>
    PROVE  /\ Head(l) \in DOMAIN Places /\ Tail(l) \in Lists
           /\ Tail(l) # <<>> => Head(Tail(l)) \in DOMAIN Places
           /\ Tail(l) # <<>> /\ Head(Tail(l)) = "savedefconfig" => Head(l) = "cp"
<1>1. CASE l = <<"defconfig">>
  BY <1>1 DEF Lists, Places
<1>2. CASE l = <<"syncconfig">>
  BY <1>2 DEF Lists, Places
<1>3. CASE l = <<"savedefconfig", "sed">>
  BY <1>3 DEF Lists, Places
<1>4. CASE l = <<"makefile", "syncconfig">>
  BY <1>4 DEF Lists, Places
<1>5. CASE l = <<"cp", "savedefconfig", "sed">>
  BY <1>5 DEF Lists, Places
<1>6. CASE l = <<"defconfig", "makefile", "syncconfig">>
  BY <1>6 DEF Lists, Places
<1>7. CASE l = <<"mconf", "cp", "savedefconfig", "sed">>
  BY <1>7 DEF Lists, Places
<1>8. CASE l = <<"defconfig", "mconf", "cp", "savedefconfig", "sed">>
  BY <1>8 DEF Lists, Places
<1>9. CASE l = <<"sed">>
  BY <1>9 DEF Lists, Places
<1> QED
  BY <1>1, <1>2, <1>3, <1>4, <1>5, <1>6, <1>7, <1>8, <1>9 DEF Lists

LEMMA FirstTool ==
    ASSUME NEW t \in Targets
    PROVE  ToolsOf(t) \in Lists /\ ToolsOf(t) # <<>> /\ Head(ToolsOf(t)) \in {"defconfig", "makefile"}
BY DEF Targets, ToolsOf, Lists

LEMMA StartIsAPlace == \A t \in DOMAIN Places : "start" \in Places[t]
BY DEF Places

-----------------------------------------------------------------------------
(* The invariant *)

LEMMA FileStarts == FilesInit => FileInv
BY DEF FilesInit, FileInv, ToolInv, ConfigInv, CopyInv, Lists, Idle, Running, File, Missing, IsFile

LEMMA ToolStep == ToolInv /\ [FilesNext]_fileVars => ToolInv'
<1> SUFFICES ASSUME ToolInv, [FilesNext]_fileVars PROVE ToolInv'
  OBVIOUS
<1>1. CASE UNCHANGED <<tools, at>>
  BY <1>1 DEF ToolInv, Idle
<1>2. CASE EndTool /\ ~Idle
  BY <1>2, ToolOrder, StartIsAPlace DEF EndTool, ToolInv, Idle
<1>3. CASE Kill
  BY <1>3 DEF Kill, ToolInv, Lists, Idle
<1>4. CASE \E t \in Targets : StartTarget(t)
  BY <1>4, FirstTool, StartIsAPlace DEF StartTarget, ToolInv, Idle, Places
<1>5. CASE ReadMakefile
  <2>1. ~Idle /\ at = "start" /\ at' = at
    BY <1>5 DEF ReadMakefile, ToolInv, Idle, Running, Places
  <2> QED
    BY <1>5, <2>1, ToolOrder, StartIsAPlace DEF ReadMakefile, ToolInv, Idle, Lists
<1>6. ASSUME NEW t, t \in DOMAIN Places, Running(t), UNCHANGED tools, at' \in Places[t]
      PROVE  ToolInv'
  BY <1>6 DEF ToolInv, Idle, Running
<1>7. CASE \/ Work("mconf", "start", "edit") \/ Work("syncconfig", "start", "ask")
           \/ Work("syncconfig", "ask", "auto")
  BY <1>7, <1>6 DEF Work, Places
<1>8. CASE StartWriting
  <2>1. \E t \in {"defconfig", "mconf", "syncconfig"} : Running(t)
    BY <1>8 DEF StartWriting
  <2> QED
    BY <1>8, <2>1, <1>6 DEF StartWriting, Places
<1>9. CASE MoveOld
  <2>1. \E t \in {"defconfig", "mconf", "syncconfig"} : Running(t)
    BY <1>9, ToolOrder DEF MoveOld, ToolInv, Running, Places, Idle
  <2> QED
    BY <1>9, <2>1, <1>6 DEF MoveOld, Places
<1>10. CASE PlaceNew
  <2>1. ~Idle
    BY <1>10 DEF PlaceNew, ToolInv
  <2> QED
    BY <1>10, <2>1, <1>2, <1>6 DEF PlaceNew, Places
<1>11. CASE OpenCopy \/ OpenDefconfig
  BY <1>11, <1>6 DEF OpenCopy, OpenDefconfig, Places
<1>12. CASE ExitUnsaved \/ FillCopy \/ FillDefconfig \/ DropLocation
  BY <1>12, <1>2 DEF ExitUnsaved, FillCopy, FillDefconfig, DropLocation, Running, Idle
<1>13. CASE WriteAuto
  BY <1>13, <1>2 DEF WriteAuto, ToolInv
<1>14. CASE ChangeSource
  BY <1>14, <1>1 DEF ChangeSource
<1>15. CASE UNCHANGED fileVars
  BY <1>15, <1>1 DEF fileVars
<1> QED
  BY <1>3, <1>4, <1>5, <1>7, <1>8, <1>9, <1>10, <1>11, <1>12, <1>13, <1>14, <1>15 DEF FilesNext

LEMMA ConfigStep == ToolInv /\ ConfigInv /\ [FilesNext]_fileVars => ConfigInv'
<1> SUFFICES ASSUME ToolInv, ConfigInv, [FilesNext]_fileVars PROVE ConfigInv'
  OBVIOUS
<1>1. CASE MoveOld
  BY <1>1 DEF MoveOld, ConfigInv, Missing
<1>2. CASE PlaceNew
  BY <1>2 DEF PlaceNew, ConfigInv, File, EndTool
<1>3. ASSUME UNCHANGED <<config, old>>, at' # "place" \/ UNCHANGED at PROVE ConfigInv'
  BY <1>3 DEF ConfigInv
<1>4. CASE UNCHANGED fileVars
  BY <1>4, <1>3 DEF fileVars, files
<1>5. CASE (\E t \in Targets : StartTarget(t)) \/ ChangeSource \/ ReadMakefile \/ Kill
  BY <1>5, <1>3 DEF StartTarget, ChangeSource, ReadMakefile, Kill, files
<1>6. CASE \/ Work("mconf", "start", "edit") \/ Work("syncconfig", "start", "ask")
           \/ Work("syncconfig", "ask", "auto") \/ StartWriting
  BY <1>6, <1>3 DEF Work, StartWriting, files
<1>7. CASE ExitUnsaved \/ WriteAuto \/ OpenCopy \/ FillCopy \/ OpenDefconfig \/ FillDefconfig
            \/ DropLocation
  BY <1>7, <1>3 DEF ExitUnsaved, WriteAuto, OpenCopy, FillCopy, OpenDefconfig, FillDefconfig,
     DropLocation, EndTool, files
<1> QED
  BY <1>1, <1>2, <1>4, <1>5, <1>6, <1>7 DEF FilesNext

\* savedefconfig begins only when cp ends
LEMMA SaveComesAfterCopy ==
    ASSUME ToolInv, ~Idle, EndTool, ~Running("cp")
    PROVE  ~Running("savedefconfig")' /\ at' = "start"
BY ToolOrder DEF ToolInv, Idle, EndTool, Running

LEMMA CopyStep == ToolInv /\ CopyInv /\ [FilesNext]_fileVars => CopyInv'
<1> SUFFICES ASSUME ToolInv, CopyInv, [FilesNext]_fileVars PROVE CopyInv'
  OBVIOUS
<1>1. CASE OpenCopy
  <2>1. Running("cp")' /\ ~Running("savedefconfig")'
    BY <1>1 DEF OpenCopy, Running
  <2> QED
    BY <1>1, <2>1 DEF OpenCopy, CopyInv, IsFile
<1>2. CASE FillCopy
  <2>1. bak' = defconfig
    BY <1>2 DEF FillCopy, CopyInv, IsFile
  <2> QED
    BY <1>2, <2>1 DEF FillCopy, EndTool, CopyInv, IsFile
<1>3. CASE OpenDefconfig
  <2>1. Running("savedefconfig")' /\ ~Running("cp")'
    BY <1>3 DEF OpenDefconfig, Running
  <2> QED
    BY <1>3, <2>1 DEF OpenDefconfig, CopyInv, IsFile, Torn
<1>4. CASE FillDefconfig
  <2>1. ~Running("savedefconfig")' /\ at' = "start"
    BY <1>4, SaveComesAfterCopy DEF FillDefconfig, Running, Idle
  <2> QED
    BY <1>4, <2>1 DEF FillDefconfig, CopyInv, IsFile, File
<1>5. CASE Kill
  <2>1. ~Running("savedefconfig")' /\ ~Running("cp")'
    BY <1>5 DEF Kill, Running
  <2>2. IsFile(defconfig)'
    BY <1>5 DEF Kill, CopyInv, IsFile, Torn
  <2> QED
    BY <2>1, <2>2 DEF CopyInv
<1>6. ASSUME UNCHANGED <<defconfig, bak>>, at' # "fill",
             ~Running("savedefconfig")' \/ at' # "start"
      PROVE  CopyInv'
  BY <1>6 DEF CopyInv, IsFile
<1>7. ASSUME ~Idle, EndTool, ~Running("cp"), UNCHANGED <<defconfig, bak>> PROVE CopyInv'
  BY <1>7, <1>6, SaveComesAfterCopy
<1>8. CASE ExitUnsaved \/ DropLocation
  BY <1>8, <1>7 DEF ExitUnsaved, DropLocation, Running, Idle, files
<1>9. CASE WriteAuto \/ PlaceNew
  <2>1. ~Idle /\ ~Running("cp") /\ ~Running("savedefconfig")
    BY <1>9, ToolOrder DEF WriteAuto, PlaceNew, ToolInv, Idle, Running, Places
  <2>2. CASE EndTool
    BY <1>9, <2>1, <2>2, <1>7 DEF WriteAuto, PlaceNew
  <2>3. CASE at' = "auto" /\ UNCHANGED tools
    BY <1>9, <2>3, <1>6 DEF WriteAuto, PlaceNew
  <2> QED
    BY <1>9, <2>2, <2>3 DEF WriteAuto, PlaceNew
<1>10. CASE \E t \in Targets : StartTarget(t)
  <2>1. ~Running("savedefconfig")' /\ at' = "start"
    BY <1>10, FirstTool DEF StartTarget, Running, ToolInv
  <2> QED
    BY <1>10, <2>1, <1>6 DEF StartTarget, files
<1>11. CASE MoveOld \/ StartWriting \/ Work("mconf", "start", "edit")
            \/ Work("syncconfig", "start", "ask") \/ Work("syncconfig", "ask", "auto")
  BY <1>11, <1>6 DEF MoveOld, StartWriting, Work, files
<1>12. CASE ReadMakefile
  <2>1. ~Idle /\ at' = "start"
    BY <1>12 DEF ReadMakefile, ToolInv, Idle, Running, Places
  <2>2. ~Running("savedefconfig")'
    BY <1>12, <2>1, ToolOrder DEF ReadMakefile, ToolInv, Idle, Running
  <2> QED
    BY <1>12, <2>1, <2>2, <1>6 DEF ReadMakefile, files
<1>13. CASE ChangeSource
  BY <1>13 DEF ChangeSource, CopyInv, IsFile, Running, files
<1>14. CASE UNCHANGED fileVars
  BY <1>14 DEF fileVars, files, CopyInv, IsFile, Running
<1> QED
  BY <1>1, <1>2, <1>3, <1>4, <1>5, <1>8, <1>9, <1>10, <1>11, <1>12, <1>13, <1>14 DEF FilesNext

\* The invariant: where the tools are, that .config and .config.old are never
\* cut off, and that the copy is the defconfig when savedefconfig begins.
THEOREM FilesInvariant == FilesSpec => []FileInv
<1>1. FileInv /\ [FilesNext]_fileVars => FileInv'
  BY ToolStep, ConfigStep, CopyStep DEF FileInv
<1> QED
  BY <1>1, FileStarts, PTL DEF FilesSpec

-----------------------------------------------------------------------------
(* The property *)

\* Whatever the tools write and wherever they are interrupted, the defconfig and
\* .config give way only when a copy of them stays, and .config.old only to a
\* .config that is whole.
THEOREM NothingWholeIsLost == FilesSpec => CopiedBeforeTouched
<1> DEFINE Copied == /\ defconfig' # defconfig /\ defconfig.whole => bak = defconfig
                     /\ config' # config /\ config.there => old' = config
                     /\ old' # old => old'.whole
<1>1. ASSUME FileInv, [FilesNext]_fileVars PROVE Copied
  <2> USE <1>1
  <2>1. ASSUME UNCHANGED <<defconfig, config, old>> PROVE Copied
    BY <2>1
  <2>2. CASE MoveOld
    BY <2>2 DEF MoveOld, FileInv, ConfigInv
  <2>3. CASE PlaceNew
    BY <2>3 DEF PlaceNew, FileInv, ConfigInv
  <2>4. CASE OpenDefconfig
    BY <2>4 DEF OpenDefconfig, FileInv, CopyInv
  <2>5. CASE FillDefconfig
    BY <2>5 DEF FillDefconfig, FileInv, CopyInv
  <2>6. CASE Kill
    BY <2>6 DEF Kill, FileInv, CopyInv
  <2>7. CASE \/ \E t \in Targets : StartTarget(t)
             \/ ChangeSource \/ ReadMakefile \/ ExitUnsaved \/ WriteAuto \/ DropLocation
    BY <2>7, <2>1 DEF StartTarget, ChangeSource, ReadMakefile, ExitUnsaved, WriteAuto, DropLocation, files
  <2>8. CASE \/ Work("mconf", "start", "edit") \/ Work("syncconfig", "start", "ask")
             \/ Work("syncconfig", "ask", "auto") \/ StartWriting
             \/ OpenCopy \/ FillCopy \/ UNCHANGED fileVars
    BY <2>8, <2>1 DEF Work, StartWriting, OpenCopy, FillCopy, fileVars, files
  <2> QED
    BY <2>2, <2>3, <2>4, <2>5, <2>6, <2>7, <2>8 DEF FilesNext
<1> QED
  BY <1>1, FilesInvariant, PTL DEF FilesSpec, CopiedBeforeTouched

-----------------------------------------------------------------------------
(* Values: the symbols, and the operands a rule is applied to *)

\* the symbols of a file have values of their types, and none is m without modules
Fits(val) ==
    \A s \in DOMAIN TypeOf \ Constants3 :
        /\ TypeOf[s] = "boolean" => val[s] \in {No, Yes}
        /\ TypeOf[s] = "tristate" => val[s] \in {No, Yes} \/ (val[s] = Mod /\ ValueOf(ModulesSym, val) # No)
        /\ val[s] \in Int

\* an operand is a leaf or the negation of one
OperandValue(e, val) == IF e.op = "not" THEN Yes - LeafValue(e.e, val) ELSE LeafValue(e, val)

\* what a constant reads in a comparison
Reads(c, val) == IF c = "y" THEN Yes ELSE IF c = "m" /\ ValueOf(ModulesSym, val) # No THEN Mod ELSE No

-----------------------------------------------------------------------------
(* Leaves *)

LEMMA Pairing == ASSUME NEW a, NEW b, NEW c, NEW d, {a, b} = {c, d} PROVE (a = c /\ b = d) \/ (a = d /\ b = c)
OBVIOUS

LEMMA OwnValue ==
    ASSUME NEW val, Fits(val), NEW s \in DOMAIN TypeOf \ Constants3, TypeOf[s] \in {"boolean", "tristate"}
    PROVE  /\ LeafValue(Sym(s), val) = val[s] /\ StringOf(s, val) = val[s]
           /\ val[s] \in {No, Mod, Yes}
           /\ TypeOf[s] = "boolean" \/ ValueOf(ModulesSym, val) = No => val[s] # Mod
<1>1. /\ val[s] \in {No, Mod, Yes}
      /\ TypeOf[s] = "boolean" \/ ValueOf(ModulesSym, val) = No => val[s] # Mod
  BY DEF Fits, No, Mod, Yes
<1>2. ValueOf(s, val) = val[s]
  BY DEF ValueOf
<1>3. StringOf(s, val) = val[s]
  BY <1>1, <1>2 DEF StringOf
<1>4. LeafValue(Sym(s), val) = val[s]
  BY <1>2 DEF LeafValue, Sym, TristateOf
<1> QED
  BY <1>1, <1>3, <1>4

LEMMA ConstantReads ==
    ASSUME NEW val, NEW c \in Constants3
    PROVE  StringOf(c, val) = Reads(c, val) /\ TypeOf[c] = "tristate"
BY TypesAssumption DEF StringOf, Reads, ValueOf, ConstantValue, Constants3, No, Mod, Yes

LEMMA ComparedValue ==
    ASSUME NEW val, Fits(val), NEW s \in DOMAIN TypeOf \ Constants3, TypeOf[s] \in {"boolean", "tristate"},
           NEW e, e.op \in {"=", "!="}, e.l = s, e.r \in Constants3
    PROVE  /\ e.op = "=" => OperandValue(e, val) = IF val[s] = Reads(e.r, val) THEN Yes ELSE No
           /\ e.op = "!=" => OperandValue(e, val) = IF val[s] = Reads(e.r, val) THEN No ELSE Yes
<1>1. StringOf(s, val) = val[s] /\ StringOf(e.r, val) = Reads(e.r, val)
  BY OwnValue, ConstantReads
<1>2. Compare(e.op, e.l, e.r, val) <=> Holds(e.op, val[s], Reads(e.r, val))
  BY <1>1, ConstantReads DEF Compare
<1>3. /\ e.op = "=" => (Holds(e.op, val[s], Reads(e.r, val)) <=> val[s] = Reads(e.r, val))
      /\ e.op = "!=" => (Holds(e.op, val[s], Reads(e.r, val)) <=> val[s] # Reads(e.r, val))
  BY DEF Holds
<1> QED
  BY <1>2, <1>3 DEF OperandValue, LeafValue, No, Yes

LEMMA ConstantLeaf ==
    ASSUME NEW val
    PROVE  OperandValue(Sym("y"), val) = Yes /\ OperandValue(Sym("n"), val) = No
BY TypesAssumption DEF OperandValue, LeafValue, Sym, TristateOf, ValueOf, ConstantValue, Constants3

LEMMA OperandLeaf ==
    ASSUME NEW val, Fits(val), NEW s \in DOMAIN TypeOf \ Constants3, TypeOf[s] \in {"boolean", "tristate"}
    PROVE  OperandValue(Sym(s), val) = val[s] /\ OperandValue(Not(Sym(s)), val) = Yes - val[s]
BY OwnValue DEF OperandValue, Sym, Not

LEMMA ThirdOne ==
    ASSUME NEW e1, NEW e2, e1.r \in Constants3, e2.r \in Constants3, e1.r # e2.r
    PROVE  /\ Third(e1, e2) \in Constants3 \ {e1.r, e2.r}
           /\ Constants3 = {e1.r, e2.r, Third(e1, e2)}
<1>1. \E d \in Constants3 : d \notin {e1.r, e2.r}
  BY DEF Constants3
<1>2. Third(e1, e2) \in Constants3 \ {e1.r, e2.r}
  BY <1>1 DEF Third
<1> QED
  BY <1>2 DEF Constants3

\* with modules a comparison is to the value the constant stands for
LEMMA ReadsApart ==
    ASSUME NEW val, ValueOf(ModulesSym, val) # No
    PROVE  /\ \A b, c \in Constants3 : Reads(b, val) = Reads(c, val) => b = c
           /\ \A v \in {No, Mod, Yes} : \E c \in Constants3 : v = Reads(c, val)
BY DEF Reads, Constants3, No, Mod, Yes

-----------------------------------------------------------------------------
(* Joining two leaves: expr_join_or, expr_join_and *)

\* The two operands a rule is applied to: e1 tests s and so does e2; without
\* modules they are not both comparisons, as m then reads n.
Joinable(s, e1, e2, val) ==
    /\ Fits(val)
    /\ s \in DOMAIN TypeOf \ Constants3
    /\ s = Tested(e1, TRUE) /\ TestOne(s, e2)
    /\ ValueOf(ModulesSym, val) # No \/ {e1.op, e2.op} \cap {"sym", "not"} # {}

LEMMA OrKeepsValue ==
    ASSUME NEW val, NEW s, NEW e1, NEW e2, Joinable(s, e1, e2, val), OrOf(s, e1, e2) # Null
    PROVE  OperandValue(OrOf(s, e1, e2), val) = Max2(OperandValue(e1, val), OperandValue(e2, val))
<1>1. s \in DOMAIN TypeOf \ Constants3 /\ TypeOf[s] \in {"boolean", "tristate"} /\ Fits(val)
  BY DEF Joinable, TestOne
<1>2. CASE TypeOf[s] = "tristate" /\ TwoOf("=", s, e1, e2)
  <2>1. PICK b \in Constants3, c \in Constants3 : b # c /\ e1 = Comp("=", s, b) /\ e2 = Comp("=", s, c)
    BY <1>2 DEF TwoOf
  <2>2. /\ e1.op = "=" /\ e1.l = s /\ e1.r = b
        /\ e2.op = "=" /\ e2.l = s /\ e2.r = c
    BY <2>1 DEF Comp
  <2>3. PICK d \in Constants3 : d \notin {b, c} /\ Constants3 = {b, c, d} /\ d = Third(e1, e2)
    BY <2>1, <2>2, ThirdOne
  <2>4. OrOf(s, e1, e2) = Comp("!=", s, d)
    BY <1>2, <2>3 DEF OrOf
  <2>5. ValueOf(ModulesSym, val) # No
    BY <2>2 DEF Joinable
  <2>6. OperandValue(Comp("!=", s, d), val) = IF val[s] = Reads(d, val) THEN No ELSE Yes
    <3> DEFINE e == Comp("!=", s, d)
    <3>1. e.op = "!=" /\ e.l = s /\ e.r = d
      BY DEF Comp
    <3> HIDE DEF e
    <3>2. OperandValue(e, val) = IF val[s] = Reads(d, val) THEN No ELSE Yes
      BY <1>1, <3>1, ComparedValue
    <3> QED
      BY <3>2 DEF e
  <2>7. /\ OperandValue(e1, val) = IF val[s] = Reads(b, val) THEN Yes ELSE No
        /\ OperandValue(e2, val) = IF val[s] = Reads(c, val) THEN Yes ELSE No
    BY <1>1, <2>2, ComparedValue
  <2>8. val[s] = Reads(d, val) <=> val[s] # Reads(b, val) /\ val[s] # Reads(c, val)
    BY <1>1, <2>1, <2>3, <2>5, ReadsApart, OwnValue
  <2> QED
    BY <2>4, <2>6, <2>7, <2>8 DEF Max2, No, Yes
<1>3. CASE TypeOf[s] = "boolean" /\ {e1, e2} = {Sym(s), Not(Sym(s))}
  <2>1. OrOf(s, e1, e2) = Sym("y")
    BY <1>3 DEF OrOf
  <2>2. val[s] \in {No, Yes}
    BY <1>1, <1>3 DEF Fits
  <2>3. Max2(val[s], Yes - val[s]) = Yes /\ Max2(Yes - val[s], val[s]) = Yes
    BY <2>2 DEF Max2, No, Yes
  <2> QED
    BY <1>1, <1>3, <2>1, <2>3, Pairing, ConstantLeaf, OperandLeaf
<1> QED
  BY <1>2, <1>3 DEF OrOf

\* a comparison with a constant, made by Comp
LEMMA CompValue ==
    ASSUME NEW val, Fits(val), NEW s \in DOMAIN TypeOf \ Constants3, TypeOf[s] \in {"boolean", "tristate"},
           NEW c \in Constants3
    PROVE  /\ OperandValue(Comp("=", s, c), val) = IF val[s] = Reads(c, val) THEN Yes ELSE No
           /\ OperandValue(Comp("!=", s, c), val) = IF val[s] = Reads(c, val) THEN No ELSE Yes
<1>1. ASSUME NEW op \in {"=", "!="}
      PROVE  Comp(op, s, c).op = op /\ Comp(op, s, c).l = s /\ Comp(op, s, c).r = c
  BY DEF Comp
<1> QED
  BY <1>1, ComparedValue

\* no two rules of expr_join_and apply: a symbol with one comparison, or two comparisons
LEMMA OneRule ==
    ASSUME NEW s, NEW e1, NEW e2, NEW op, NEW c, {e1, e2} = {Sym(s), Comp(op, s, c)}
    PROVE  /\ \A p, d : {e1, e2} = {Sym(s), Comp(p, s, d)} => p = op /\ d = c
           /\ {e1.op, e2.op} # {"=", "!="} /\ ~TwoOf("!=", s, e1, e2)
<1>1. /\ Sym(s).op = "sym"
      /\ \A p, d : Comp(p, s, d).op = p /\ Comp(p, s, d).r = d
  BY DEF Sym, Comp
<1>2. e1.op = "sym" \/ e2.op = "sym"
  BY <1>1, Pairing
<1>3. ASSUME NEW p, NEW d, {e1, e2} = {Sym(s), Comp(p, s, d)} PROVE p = op /\ d = c
  <2>1. Comp(p, s, d) = Comp(op, s, c)
    BY <1>3, Pairing
  <2> QED
    BY <1>1, <2>1
<1>4. {e1.op, e2.op} # {"=", "!="} /\ ~TwoOf("!=", s, e1, e2)
  BY <1>1, <1>2 DEF TwoOf
<1> QED
  BY <1>3, <1>4

LEMMA AndKeepsValue ==
    ASSUME NEW val, NEW s, NEW e1, NEW e2, Joinable(s, e1, e2, val), AndOf(s, e1, e2) # Null
    PROVE  OperandValue(AndOf(s, e1, e2), val) = Min2(OperandValue(e1, val), OperandValue(e2, val))
<1>1. s \in DOMAIN TypeOf \ Constants3 /\ TypeOf[s] \in {"boolean", "tristate"} /\ Fits(val)
  BY DEF Joinable, TestOne
<1>2. /\ val[s] \in {No, Mod, Yes}
      /\ ValueOf(ModulesSym, val) = No => val[s] # Mod
  BY <1>1, OwnValue
<1>3. Reads("y", val) = Yes /\ Reads("n", val) = No /\ {"y", "m", "n"} = Constants3
  BY DEF Reads, Constants3
<1>4. CASE {e1, e2} = {Sym(s), Comp("=", s, "y")}
  <2>1. AndOf(s, e1, e2) = Comp("=", s, "y")
    <3>1. /\ \A p, d : {e1, e2} = {Sym(s), Comp(p, s, d)} => p = "=" /\ d = "y"
          /\ {e1.op, e2.op} # {"=", "!="} /\ ~TwoOf("!=", s, e1, e2)
      BY <1>4, OneRule
    <3> QED
      BY <1>4, <3>1 DEF AndOf
  <2>2. OperandValue(Comp("=", s, "y"), val) = IF val[s] = Yes THEN Yes ELSE No
    BY <1>1, <1>3, CompValue
  <2>3. OperandValue(Sym(s), val) = val[s]
    BY <1>1, OperandLeaf
  <2> QED
    BY <1>2, <1>4, <2>1, <2>2, <2>3, Pairing DEF Min2, No, Mod, Yes
<1>5. CASE {e1, e2} = {Sym(s), Comp("!=", s, "n")}
  <2>1. AndOf(s, e1, e2) = Sym(s)
    <3>1. /\ \A p, d : {e1, e2} = {Sym(s), Comp(p, s, d)} => p = "!=" /\ d = "n"
          /\ {e1.op, e2.op} # {"=", "!="} /\ ~TwoOf("!=", s, e1, e2)
      BY <1>5, OneRule
    <3> QED
      BY <1>5, <3>1 DEF AndOf
  <2>2. OperandValue(Comp("!=", s, "n"), val) = IF val[s] = No THEN No ELSE Yes
    BY <1>1, <1>3, CompValue
  <2>3. OperandValue(Sym(s), val) = val[s]
    BY <1>1, OperandLeaf
  <2> QED
    BY <1>2, <1>5, <2>1, <2>2, <2>3, Pairing DEF Min2, No, Mod, Yes
<1>6. CASE {e1, e2} = {Sym(s), Comp("!=", s, "m")}
  <2>1. AndOf(s, e1, e2) = Comp("=", s, "y")
    <3>1. /\ \A p, d : {e1, e2} = {Sym(s), Comp(p, s, d)} => p = "!=" /\ d = "m"
          /\ {e1.op, e2.op} # {"=", "!="} /\ ~TwoOf("!=", s, e1, e2)
      BY <1>6, OneRule
    <3> QED
      BY <1>6, <3>1 DEF AndOf
  <2>2. /\ OperandValue(Comp("!=", s, "m"), val) = IF val[s] = Reads("m", val) THEN No ELSE Yes
        /\ OperandValue(Comp("=", s, "y"), val) = IF val[s] = Yes THEN Yes ELSE No
    BY <1>1, <1>3, CompValue
  <2>3. Reads("m", val) = IF ValueOf(ModulesSym, val) # No THEN Mod ELSE No
    BY DEF Reads
  <2>4. OperandValue(Sym(s), val) = val[s]
    BY <1>1, OperandLeaf
  <2> QED
    BY <1>2, <1>6, <2>1, <2>2, <2>3, <2>4, Pairing DEF Min2, No, Mod, Yes
<1>7. ASSUME e1.op \in {"=", "!="}, e2.op \in {"=", "!="}
      PROVE  /\ {e1, e2} # {Sym(s), Comp("=", s, "y")} /\ {e1, e2} # {Sym(s), Comp("!=", s, "n")}
             /\ {e1, e2} # {Sym(s), Comp("!=", s, "m")}
             /\ e1.l = s /\ e2.l = s /\ ValueOf(ModulesSym, val) # No
  <2>1. Sym(s) \notin {e1, e2}
    BY <1>7 DEF Sym
  <2>2. e1.l = s /\ e2.l = s
    BY <1>7 DEF Joinable, TestOne, Tested
  <2>3. ValueOf(ModulesSym, val) # No
    BY <1>7 DEF Joinable
  <2> QED
    BY <2>1, <2>2, <2>3
<1>8. CASE /\ TypeOf[s] = "tristate" /\ {e1.op, e2.op} = {"=", "!="}
           /\ e1.r \in Constants3 /\ e2.r \in Constants3
  <2>1. (e1.op = "=" /\ e2.op = "!=") \/ (e1.op = "!=" /\ e2.op = "=")
    BY <1>8, Pairing
  <2>2. AndOf(s, e1, e2) = IF e1.r = e2.r THEN Sym("n") ELSE IF e1.op = "=" THEN e1 ELSE e2
    <3>1. ~TwoOf("!=", s, e1, e2)
      BY <2>1 DEF TwoOf, Comp
    <3> QED
      BY <1>7, <1>8, <2>1, <3>1 DEF AndOf
  <2>3. e1.r = e2.r <=> Reads(e1.r, val) = Reads(e2.r, val)
    BY <1>7, <1>8, <2>1, ReadsApart
  <2>4. CASE e1.op = "=" /\ e2.op = "!="
    <3>1. /\ OperandValue(e1, val) = IF val[s] = Reads(e1.r, val) THEN Yes ELSE No
          /\ OperandValue(e2, val) = IF val[s] = Reads(e2.r, val) THEN No ELSE Yes
      BY <1>1, <1>7, <1>8, <2>4, ComparedValue
    <3> QED
      BY <2>2, <2>3, <2>4, <3>1, ConstantLeaf DEF Min2, No, Yes
  <2>5. CASE e1.op = "!=" /\ e2.op = "="
    <3>1. /\ OperandValue(e1, val) = IF val[s] = Reads(e1.r, val) THEN No ELSE Yes
          /\ OperandValue(e2, val) = IF val[s] = Reads(e2.r, val) THEN Yes ELSE No
      BY <1>1, <1>7, <1>8, <2>5, ComparedValue
    <3> QED
      BY <2>2, <2>3, <2>5, <3>1, ConstantLeaf DEF Min2, No, Yes
  <2> QED
    BY <2>1, <2>4, <2>5
<1>9. CASE TypeOf[s] = "tristate" /\ TwoOf("!=", s, e1, e2)
  <2>1. PICK b \in Constants3, c \in Constants3 : b # c /\ e1 = Comp("!=", s, b) /\ e2 = Comp("!=", s, c)
    BY <1>9 DEF TwoOf
  <2>2. /\ e1.op = "!=" /\ e1.r = b
        /\ e2.op = "!=" /\ e2.r = c
    BY <2>1 DEF Comp
  <2>3. PICK d \in Constants3 : d \notin {b, c} /\ Constants3 = {b, c, d} /\ d = Third(e1, e2)
    BY <2>1, <2>2, ThirdOne
  <2>4. AndOf(s, e1, e2) = Comp("=", s, d)
    BY <1>7, <1>9, <2>2, <2>3 DEF AndOf
  <2>5. /\ OperandValue(Comp("=", s, d), val) = IF val[s] = Reads(d, val) THEN Yes ELSE No
        /\ OperandValue(e1, val) = IF val[s] = Reads(b, val) THEN No ELSE Yes
        /\ OperandValue(e2, val) = IF val[s] = Reads(c, val) THEN No ELSE Yes
    BY <1>1, <2>1, CompValue
  <2>6. val[s] = Reads(d, val) <=> val[s] # Reads(b, val) /\ val[s] # Reads(c, val)
    BY <1>2, <1>7, <2>1, <2>2, <2>3, ReadsApart
  <2> QED
    BY <2>4, <2>5, <2>6 DEF Min2, No, Yes
<1> QED
  BY <1>4, <1>5, <1>6, <1>8, <1>9 DEF AndOf

\* Whatever expr_join_or and expr_join_and make of two operands that test one
\* symbol of the file has the value of the || or && it takes the place of; two
\* comparisons only with modules.
THEOREM JoinsKeepValue ==
    \A val, s, e1, e2 : Joinable(s, e1, e2, val) =>
        /\ OrOf(s, e1, e2) # Null =>
              OperandValue(OrOf(s, e1, e2), val) = Max2(OperandValue(e1, val), OperandValue(e2, val))
        /\ AndOf(s, e1, e2) # Null =>
              OperandValue(AndOf(s, e1, e2), val) = Min2(OperandValue(e1, val), OperandValue(e2, val))
BY OrKeepsValue, AndKeepsValue

-----------------------------------------------------------------------------
(* Rewriting one: expr_transform, expr_trans_bool *)

\* a comparison of a symbol of the file to another symbol or a constant
IsComparison(e) ==
    /\ e.op \in Relations /\ e = Comp(e.op, e.l, e.r)
    /\ e.l \in DOMAIN TypeOf \ Constants3 /\ e.r \in DOMAIN TypeOf

LEMMA ReadsNumber ==
    ASSUME NEW val, Fits(val), NEW s \in DOMAIN TypeOf
    PROVE  StringOf(s, val) \in Int
BY DEF StringOf, ValueOf, ConstantValue, Constants3, Fits, No, Mod, Yes

LEMMA OppositeHolds ==
    ASSUME NEW op \in Relations, NEW a, NEW b,
           op \in {"=", "!="} \/ (a \in Int /\ b \in Int)
    PROVE  Opposite[op] \in Relations /\ (Holds(Opposite[op], a, b) <=> ~Holds(op, a, b))
           /\ (Opposite[op] \in {"=", "!="} <=> op \in {"=", "!="})
<1>1. CASE op \in {"=", "!="}
  BY <1>1 DEF Opposite, Holds, Relations
<1>2. CASE op \in {"<", "<=", ">", ">="}
  <2>1. CASE op = "<"
    BY <1>2, <2>1 DEF Opposite, Holds, Relations
  <2>2. CASE op = "<="
    BY <1>2, <2>2 DEF Opposite, Holds, Relations
  <2>3. CASE op = ">"
    BY <1>2, <2>3 DEF Opposite, Holds, Relations
  <2>4. CASE op = ">="
    BY <1>2, <2>4 DEF Opposite, Holds, Relations
  <2> QED
    BY <1>2, <2>1, <2>2, <2>3, <2>4
<1> QED
  BY <1>1, <1>2 DEF Relations

LEMMA NegationKeepsValue ==
    ASSUME NEW val, NEW e, Fits(val), IsComparison(e) \/ e \in {Sym(c) : c \in Constants3}
    PROVE  OperandValue(NegatedLeaf(e), val) = Yes - OperandValue(e, val)
<1>1. CASE IsComparison(e)
  <2>1. e.op \in Relations /\ e.l \in DOMAIN TypeOf /\ e.r \in DOMAIN TypeOf
    BY <1>1 DEF IsComparison
  <2>2. NegatedLeaf(e) = Comp(Opposite[e.op], e.l, e.r)
    <3>1. e # Sym("y") /\ e # Sym("n") /\ e # Sym("m")
      BY <2>1 DEF Sym, Relations
    <3> QED
      BY <2>1, <3>1 DEF NegatedLeaf
  <2>3. Compare(Opposite[e.op], e.l, e.r, val) <=> ~Compare(e.op, e.l, e.r, val)
    BY <2>1, ReadsNumber, OppositeHolds DEF Compare
  <2>4. Opposite[e.op] \in Relations
    BY <2>1 DEF Opposite, Relations
  <2>5. OperandValue(Comp(Opposite[e.op], e.l, e.r), val)
          = IF Compare(Opposite[e.op], e.l, e.r, val) THEN Yes ELSE No
    BY <2>4 DEF OperandValue, LeafValue, Comp, Relations
  <2>6. OperandValue(e, val) = IF Compare(e.op, e.l, e.r, val) THEN Yes ELSE No
    BY <2>1 DEF OperandValue, LeafValue, Relations
  <2> QED
    BY <2>2, <2>3, <2>5, <2>6 DEF Yes, No
<1>2. CASE e \in {Sym(c) : c \in Constants3}
  <2>1. PICK c \in Constants3 : e = Sym(c)
    BY <1>2
  <2>2. /\ OperandValue(Sym("y"), val) = 2 /\ OperandValue(Sym("n"), val) = 0
        /\ OperandValue(Sym("m"), val) = 1
    BY TypesAssumption DEF OperandValue, LeafValue, Sym, TristateOf, ValueOf, ConstantValue,
       Constants3, Yes, No, Mod
  <2>3. /\ Sym("y") # Sym("n") /\ Sym("y") # Sym("m") /\ Sym("n") # Sym("m")
        /\ e.op \notin Relations
    BY <2>1 DEF Sym, Relations
  <2>4. \/ e = Sym("y") /\ NegatedLeaf(e) = Sym("n")
        \/ e = Sym("n") /\ NegatedLeaf(e) = Sym("y")
        \/ e = Sym("m") /\ NegatedLeaf(e) = Sym("m")
    BY <2>1, <2>3 DEF NegatedLeaf, Constants3
  <2> QED
    BY <2>2, <2>4 DEF Yes
<1> QED
  BY <1>1, <1>2

LEMMA BoolKeepsTruth ==
    ASSUME NEW val, NEW e, Fits(val), IsComparison(e)
    PROVE  OperandValue(BoolLeaf(e), val) = No <=> OperandValue(e, val) = No
<1>1. CASE e.op = "!=" /\ TypeOf[e.l] = "tristate" /\ e.r = "n"
  <2>1. BoolLeaf(e) = Sym(e.l)
    BY <1>1 DEF BoolLeaf
  <2>2. OperandValue(Sym(e.l), val) = val[e.l]
    BY <1>1, OperandLeaf DEF IsComparison
  <2>3. OperandValue(e, val) = IF val[e.l] = No THEN No ELSE Yes
    <3>1. Reads("n", val) = No /\ "n" \in Constants3
      BY DEF Reads, Constants3
    <3> QED
      BY <1>1, <3>1, ComparedValue DEF IsComparison
  <2> QED
    BY <2>1, <2>2, <2>3 DEF No, Yes
<1>2. CASE ~(e.op = "!=" /\ TypeOf[e.l] = "tristate" /\ e.r = "n")
  BY <1>2 DEF BoolLeaf
<1> QED
  BY <1>1, <1>2

LEMMA TransformKeepsValue ==
    ASSUME NEW val, NEW e, Fits(val), IsComparison(e), e.op \in {"=", "!="}, TypeOf[e.l] = "boolean",
           e.r = "m" => ValueOf(ModulesSym, val) # No
    PROVE  OperandValue(TransformBool(e), val) = OperandValue(e, val)
<1>1. val[e.l] \in {No, Yes} /\ e.l \in DOMAIN TypeOf \ Constants3
  BY DEF Fits, IsComparison
<1>2. /\ OperandValue(Sym(e.l), val) = val[e.l]
      /\ OperandValue(Not(Sym(e.l)), val) = Yes - val[e.l]
  BY <1>1, OperandLeaf
<1>3. CASE e.r \in Constants3
  <2>1. /\ e.op = "=" => OperandValue(e, val) = IF val[e.l] = Reads(e.r, val) THEN Yes ELSE No
        /\ e.op = "!=" => OperandValue(e, val) = IF val[e.l] = Reads(e.r, val) THEN No ELSE Yes
    BY <1>1, <1>3, ComparedValue
  <2>2. CASE e.r = "m"
    <3>1. val[e.l] # Reads(e.r, val)
      BY <1>1, <2>2 DEF Reads, No, Mod, Yes
    <3>2. TransformBool(e) = Sym(IF e.op = "=" THEN "n" ELSE "y")
      BY <2>2 DEF TransformBool
    <3> QED
      BY <2>1, <3>1, <3>2, ConstantLeaf
  <2>3. CASE e.r = "y"
    <3>1. Reads(e.r, val) = Yes
      BY <2>3 DEF Reads
    <3>2. TransformBool(e) = IF e.op = "=" THEN Sym(e.l) ELSE Not(Sym(e.l))
      BY <2>3 DEF TransformBool
    <3> QED
      BY <1>1, <1>2, <2>1, <3>1, <3>2 DEF No, Yes
  <2>4. CASE e.r = "n"
    <3>1. Reads(e.r, val) = No
      BY <2>4 DEF Reads
    <3>2. TransformBool(e) = IF e.op = "=" THEN Not(Sym(e.l)) ELSE Sym(e.l)
      BY <2>4 DEF TransformBool
    <3> QED
      BY <1>1, <1>2, <2>1, <3>1, <3>2 DEF No, Yes
  <2> QED
    BY <1>3, <2>2, <2>3, <2>4 DEF Constants3
<1>4. CASE e.r \notin Constants3
  BY <1>4 DEF TransformBool, Constants3
<1> QED
  BY <1>3, <1>4

\* A negated comparison or constant becomes one with the value of the negation; a
\* bool compared to a constant becomes what has the value of the comparison, to m
\* only with modules; and what takes the place of T != n holds when that does
\* (expr_transform, expr_trans_bool).
THEOREM RewritesKeepValue ==
    \A val, e : Fits(val) =>
        /\ IsComparison(e) \/ e \in {Sym(c) : c \in Constants3} =>
              OperandValue(NegatedLeaf(e), val) = Yes - OperandValue(e, val)
        /\ IsComparison(e) => (OperandValue(BoolLeaf(e), val) = No <=> OperandValue(e, val) = No)
        /\ /\ IsComparison(e) /\ e.op \in {"=", "!="} /\ TypeOf[e.l] = "boolean"
           /\ e.r = "m" => ValueOf(ModulesSym, val) # No
           => OperandValue(TransformBool(e), val) = OperandValue(e, val)
BY NegationKeepsValue, BoolKeepsTruth, TransformKeepsValue

=============================================================================
