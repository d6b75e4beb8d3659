---------------------------- MODULE EditorSession ----------------------------
(***************************************************************************)
(* A session of the two text front ends, mconf and nconf: which function   *)
(* waits for a key, what is in memory and in the files, and whether the    *)
(* change count that decides about the question at the end still tells the *)
(* two apart.  A dialog is reduced to the answers it can give.             *)
(***************************************************************************)
EXTENDS Integers, SequencesExt

CONSTANTS
    Files,     \* the names that are entered to save and load
    Config,    \* .config, what conf_get_configname returns
    Contents,  \* what a configuration can be
    MaxCalls   \* bounds the nested calls

ASSUME SessionAssumption == Config \in Files /\ MaxCalls \in Nat \ {0}

\* calls: the functions that wait, the innermost last; conf has one for every
\* menu it is in.  mem: the values of the symbols.  forgotten: changes were
\* made that the change count no longer tells of.  over: how the program ended.
VARIABLE ed

NoFile == "no file"

SessionInit ==
    ed = [front |-> "none", calls |-> <<>>, mem |-> NoFile, changed |-> FALSE,
          disk |-> [f \in Files |-> NoFile], filename |-> Config, forgotten |-> FALSE, over |-> "not started"]

\* main: conf_read counts a missing file, a value the file disagrees with, and
\* any warning
Main ==
    /\ ed.over = "not started"
    /\ \E front \in {"mconf", "nconf"}, mem \in Contents, disk \in [Files -> Contents \cup {NoFile}] :
          \E changed \in {TRUE, disk[Config] # mem} :
             ed' = [ed EXCEPT !.front = front, !.calls = <<"conf">>, !.mem = mem, !.changed = changed,
                              !.disk = disk, !.filename = Config, !.over = "no"]

On(front)   == ed.over = "no" /\ ed.front = front
Running     == ed.over = "no"
Waiting     == Last(ed.calls)
Called(e, call) == [e EXCEPT !.calls = Append(@, call)]
Returned(e) == [e EXCEPT !.calls = Front(@)]
Over(e, over) == [e EXCEPT !.calls = <<>>, !.over = over]

\* the sym_set functions count a value only when it is another one
Valued(e, mem) ==
    IF mem = e.mem THEN e ELSE [e EXCEPT !.mem = mem, !.changed = TRUE, !.forgotten = FALSE]

\* conf_write: opening the temporary file may fail, or renaming it, after the
\* file of that name was renamed to .old or not.  By then the count is not zero.
Written(e, name) == [e EXCEPT !.disk[name] = e.mem, !.changed = FALSE, !.forgotten = FALSE]
Unwritten(e, name) ==
    {e} \cup {[e EXCEPT !.disk[name] = kept, !.changed = TRUE, !.forgotten = FALSE] :
                  kept \in {NoFile, e.disk[name]}}

\* mutant: the title and the question at the end keep the old name
SavedAside(e, name) == Returned(Written(e, name))
Saved(e, name) == [Returned(Written(e, name)) EXCEPT !.filename = name]

\* conf_read resets the count before it opens the file
Loaded(e, name) ==
    [Returned(e) EXCEPT !.mem = e.disk[name], !.filename = name, !.changed = TRUE, !.forgotten = FALSE]
Unloaded(e) == [e EXCEPT !.changed = FALSE, !.forgotten = @ \/ e.changed]

(***************************************************************************)
(* conf and the functions it calls                                         *)
(***************************************************************************)

\* a submenu, a choice or a string; for mconf also the search and the two files
Call ==
    /\ Running
    /\ Waiting = "conf" /\ Len(ed.calls) < MaxCalls
    /\ \/ \E call \in {"conf", "choice", "string"} : ed' = Called(ed, call)
       \/ ed.front = "mconf" /\ \E call \in {"search", "save", "load"} : ed' = Called(ed, call)
\* function keys, which work in a choice as well
CallKey ==
    /\ On("nconf")
    /\ Waiting \in {"conf", "choice"} /\ Len(ed.calls) < MaxCalls
    /\ \E call \in {"search", "save", "load"} : ed' = Called(ed, call)

SetTristate == Running /\ Waiting = "conf" /\ \E mem \in Contents : ed' = Valued(ed, mem)
\* after help conf_choice and conf_string ask again
SetChoice == Running /\ Waiting = "choice" /\ \E mem \in Contents : ed' = Returned(Valued(ed, mem))
SetString == Running /\ Waiting = "string" /\ \E mem \in Contents : ed' = Returned(Valued(ed, mem))

Save ==
    /\ Running
    /\ Waiting = "save"
    /\ \E name \in Files : ed' \in {Saved(ed, name)} \cup Unwritten(ed, name)

Load ==
    /\ Running
    /\ Waiting = "load"
    /\ \E name \in Files :
          \/ ed.disk[name] # NoFile /\ ed' = Loaded(ed, name)
          \/ ed' = Unloaded(ed)

\* escape, or an empty name
LeaveCall ==
    Running /\ Waiting \in {"choice", "string", "search", "save", "load", "results"} /\ ed' = Returned(ed)
LeaveSubmenu == Running /\ Waiting = "conf" /\ Len(ed.calls) > 1 /\ ed' = Returned(ed)

\* the pattern was entered; a jump key calls conf for the menu of the result,
\* which comes back to the results
Found == On("mconf") /\ Waiting = "search" /\ ed' = Called(Returned(ed), "results")
JumpTo == On("mconf") /\ Waiting = "results" /\ Len(ed.calls) < MaxCalls /\ ed' = Called(ed, "conf")

(***************************************************************************)
(* The end: handle_exit of mconf and do_exit of nconf                      *)
(***************************************************************************)
Asking(e, call) == IF e.changed THEN Called(e, call) ELSE Over(e, "quietly")
\* a write that fails is reported, and the program ends all the same
WrittenOver(e) ==
    {Over(Written(e, e.filename), "quietly")} \cup {Over(u, "not saved") : u \in Unwritten(e, e.filename)}

\* what dialog_yesno and btn_dialog answer
YesNo   == {"yes", "no", "escape", "too small"}
Buttons == {"save", "don't save", "escape"}

LeaveMconf == On("mconf") /\ ed.calls = <<"conf">> /\ ed' = Asking([ed EXCEPT !.calls = <<>>], "exit")

\* sig_handler asks wherever the program is
Interrupt == On("mconf") /\ Waiting # "interrupt" /\ ed' = Asking(ed, "interrupt")

\* escape: main calls conf for the root menu again, but sig_handler exits
AnswerMconf ==
    /\ On("mconf")
    /\ Waiting \in {"exit", "interrupt"}
    /\ \E answer \in YesNo :
          \/ answer = "yes" /\ ed' \in WrittenOver(ed)
          \/ answer = "escape" /\ Waiting = "exit" /\ ed' = [ed EXCEPT !.calls = <<"conf">>]
          \/ /\ answer \in {"no", "too small"} \/ (answer = "escape" /\ Waiting = "interrupt")
             /\ ed' = Over(ed, "not saved")

\* the terminal is too small for the field: the loop does not look at that
\* result, and no key is read that would tell of a larger one
TooSmall == On("mconf") /\ Waiting \in {"string", "save", "load"} /\ ed' = Called(ed, "stuck")

\* F9 in a menu or a choice
ExitKey    == On("nconf") /\ Waiting \in {"conf", "choice"} /\ ed' = Asking(ed, "exit")
\* escape in the root menu ends conf
LeaveNroot == On("nconf") /\ ed.calls = <<"conf">> /\ ed' = Asking([ed EXCEPT !.calls = <<>>], "exit")

\* escape: back to where F9 was pressed, or main calls conf again; otherwise
\* global_exit ends every loop
AnswerNconf ==
    /\ On("nconf")
    /\ Waiting = "exit"
    /\ \E answer \in Buttons :
          \/ answer = "save" /\ ed' \in WrittenOver(ed)
          \/ answer = "don't save" /\ ed' = Over(ed, "not saved")
          \/ answer = "escape" /\ ed' = [ed EXCEPT !.calls = IF Len(@) = 1 THEN <<"conf">> ELSE Front(@)]

SessionNext ==
    \/ Main \/ Call \/ CallKey \/ SetTristate \/ SetChoice \/ SetString \/ Save \/ Load
    \/ LeaveCall \/ LeaveSubmenu \/ Found \/ JumpTo \/ LeaveMconf \/ Interrupt \/ AnswerMconf \/ TooSmall
    \/ ExitKey \/ LeaveNroot \/ AnswerNconf

SessionSpec == SessionInit /\ [][SessionNext]_ed

(***************************************************************************)
(* Properties                                                              *)
(***************************************************************************)

\* While the change count is zero, and when the program ended without a word,
\* the file named in the title holds the values on the screen, through saving
\* to other names, loading, failed writes and interrupts.  Only a load that
\* failed may have made the program forget changes (see the README).
NothingLostSilently ==
    (~ed.changed \/ ed.over = "quietly") /\ ~ed.forgotten => ed.disk[ed.filename] = ed.mem

=============================================================================
