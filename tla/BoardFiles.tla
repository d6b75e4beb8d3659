------------------------------ MODULE BoardFiles ------------------------------
(***************************************************************************)
(* The files of a board's configuration: which of its targets opens,       *)
(* writes, copies and moves which file, in which order, and where it can   *)
(* be interrupted.  What a tool writes is left open here; BoardConfig      *)
(* says it, and how the tools work that out.                               *)
(***************************************************************************)
EXTENDS Sequences

CONSTANT Sources   \* what the Config.in files may say

\* mutant: one make for both goals
OneMake(target) ==
    CASE target = "config"     -> <<"defconfig">>
      [] target = "build"      -> <<"makefile", "defconfig", "syncconfig">>
      [] target = "menuconfig" -> <<"defconfig", "mconf", "cp", "savedefconfig", "sed">>
      [] target = "make"       -> <<"makefile", "syncconfig">>
\* mutant: the copy is made when the defconfig is saved
CopyLast(target) ==
    CASE target = "config"     -> <<"defconfig">>
      [] target = "build"      -> <<"defconfig", "makefile", "syncconfig">>
      [] target = "menuconfig" -> <<"defconfig", "mconf", "savedefconfig", "sed", "cp">>
      [] target = "make"       -> <<"makefile", "syncconfig">>
Targets == {"config", "build", "menuconfig", "make"}
ToolsOf(target) ==
    CASE target = "config"     -> <<"defconfig">>
      [] target = "build"      -> <<"defconfig", "makefile", "syncconfig">>
      [] target = "menuconfig" -> <<"defconfig", "mconf", "cp", "savedefconfig", "sed">>
      [] target = "make"       -> <<"makefile", "syncconfig">>

VARIABLES
    source,     \* the parsed Config.in
    defconfig,  \* the board's configs/<board>_defconfig
    bak,        \* the copy menuconfig makes of it
    config,     \* Buildroot's .config
    old,        \* .config.old
    newer,      \* .config is newer than auto.conf, or there is no auto.conf
    used,       \* the .config whose settings the running make builds with
    target,     \* the target that runs or ran last
    tools,      \* its tools that are still to run, the running one first
    at,         \* where that one is
    out         \* the lines it is writing

files     == <<defconfig, bak, config, old, newer>>
fileVars  == <<source, files, used, target, tools, at, out>>

\* by: the Config.in a .config was written under
Missing       == [there |-> FALSE, whole |-> FALSE, lines |-> <<>>, by |-> {}]
File(lines)   == [there |-> TRUE, whole |-> TRUE, lines |-> lines, by |-> {source}]
Torn(lines)   == [there |-> TRUE, whole |-> FALSE, lines |-> lines, by |-> {source}]
Idle          == tools = <<>>
Running(t)    == tools # <<>> /\ Head(tools) = t
EndTool       == tools' = Tail(tools) /\ at' = "start" /\ out' = <<>>

FilesInit ==
    /\ source \in Sources
    /\ defconfig = File(<<>>)
    /\ bak = Missing /\ config = Missing /\ old = Missing /\ newer = TRUE /\ used = Missing
    /\ target = "none" /\ tools = <<>> /\ at = "start" /\ out = <<>>

\* The Makefiles
StartTarget(t) ==
    /\ Idle
    /\ target' = t /\ tools' = ToolsOf(t) /\ used' = Missing
    /\ UNCHANGED <<source, files, at, out>>

ChangeSource ==
    /\ Idle
    /\ source' \in Sources
    /\ UNCHANGED <<files, used, target, tools, at, out>>

\* conf and mconf at work, on no file
Work(t, from, to) ==
    /\ Running(t) /\ at = from /\ at' = to
    /\ UNCHANGED <<source, files, used, target, tools, out>>

\* conf_write: the lines, out', go to a file of its own, the old .config is moved
\* away and the new one put in its place
StartWriting ==
    /\ \/ Running("defconfig") /\ at = "start"
       \/ Running("mconf") /\ at = "edit"
       \/ Running("syncconfig") /\ at = "ask"
    /\ at' = "move"
    /\ UNCHANGED <<source, files, used, target, tools>>

MoveOld ==
    /\ at = "move" /\ at' = "place"
    /\ old' = IF config.there THEN config ELSE old
    /\ config' = Missing
    /\ UNCHANGED <<source, defconfig, bak, newer, used, target, tools, out>>

PlaceNew ==
    /\ at = "place"
    /\ config' = File(out) /\ newer' = TRUE
    /\ IF Running("syncconfig") THEN at' = "auto" /\ UNCHANGED <<tools, out>> ELSE EndTool
    /\ UNCHANGED <<source, defconfig, bak, old, used, target>>

\* mconf with nothing changed, or "no" to the question
ExitUnsaved ==
    /\ Running("mconf") /\ at = "edit"
    /\ EndTool
    /\ UNCHANGED <<source, files, used, target>>

\* an open for writing empties the file
OpenCopy ==
    /\ Running("cp") /\ at = "start"
    /\ out' = defconfig.lines /\ bak' = Torn(<<>>) /\ at' = "fill"
    /\ UNCHANGED <<source, defconfig, config, old, newer, used, target, tools>>

FillCopy ==
    /\ Running("cp") /\ at = "fill"
    /\ bak' = [defconfig EXCEPT !.lines = out] /\ EndTool
    /\ UNCHANGED <<source, defconfig, config, old, newer, used, target>>

\* conf --savedefconfig writes the lines, out', over the defconfig itself
OpenDefconfig ==
    /\ Running("savedefconfig") /\ at = "start"
    /\ defconfig' = Torn(<<>>) /\ at' = "fill"
    /\ UNCHANGED <<source, bak, config, old, newer, used, target, tools>>

FillDefconfig ==
    /\ Running("savedefconfig") /\ at = "fill"
    /\ defconfig' = File(out) /\ EndTool
    /\ UNCHANGED <<source, bak, config, old, newer, used, target>>

\* sed -i drops the line of BR2_DEFCONFIG, which is not among the lines here: it
\* moves a file of its own in the place of the defconfig, which is whole all along
DropLocation ==
    /\ Running("sed")
    /\ EndTool
    /\ UNCHANGED <<source, files, used, target>>

\* Buildroot's Makefile includes .config as it is and refuses to build without it;
\* then it has syncconfig run when auto.conf is older
ReadMakefile ==
    /\ Running("makefile")
    /\ IF config.there THEN used' = config ELSE UNCHANGED used
    /\ tools' = IF config.there /\ newer THEN Tail(tools) ELSE <<>>
    /\ UNCHANGED <<source, files, target, at, out>>

\* the last file conf_write_autoconf puts in place marks its completion
WriteAuto ==
    /\ at = "auto"
    /\ newer' = FALSE /\ EndTool
    /\ UNCHANGED <<source, defconfig, bak, config, old, used, target>>

\* the tool that runs is killed and make stops; what is being written is cut off
Kill ==
    /\ ~Idle
    /\ tools' = <<>> /\ at' = "start" /\ out' = <<>>
    /\ IF at = "fill" /\ Running("cp") THEN bak' = Torn(bak'.lines) ELSE UNCHANGED bak
    /\ IF at = "fill" /\ Running("savedefconfig")
       THEN defconfig' = Torn(defconfig'.lines) ELSE UNCHANGED defconfig
    /\ UNCHANGED <<source, config, old, newer, used, target>>

FilesNext ==
    \/ \E t \in Targets : StartTarget(t)
    \/ ChangeSource \/ ReadMakefile \/ Kill
    \/ Work("mconf", "start", "edit") \/ Work("syncconfig", "start", "ask")
    \/ Work("syncconfig", "ask", "auto")
    \/ StartWriting \/ MoveOld \/ PlaceNew \/ ExitUnsaved \/ WriteAuto
    \/ OpenCopy \/ FillCopy \/ OpenDefconfig \/ FillDefconfig \/ DropLocation

FilesSpec == FilesInit /\ [][FilesNext]_fileVars

-----------------------------------------------------------------------------
(* Properties *)

\* What is whole is touched only when it is whole elsewhere, so that one
\* interrupt loses nothing: menuconfig writes over a defconfig that its .bak
\* equals (src/Makefile), conf moves .config to .config.old before a new one
\* takes its place, and .config.old gives way only to a whole one.  A defconfig
\* that is cut off already has no such copy.
CopiedBeforeTouched ==
    [][/\ defconfig' # defconfig /\ defconfig.whole => bak = defconfig
       /\ config' # config /\ config.there => old' = config
       /\ old' # old => old'.whole]_fileVars

=============================================================================
