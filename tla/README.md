# A TLA+ verification of YIO remote-os

remote-os is the Buildroot based operating system of the YIO remote. Its own
logic lives in `buildroot-external/`, `scripts/` and the top level `Makefile`;
`buildroot/` is vendored. Of the vendored code the Kconfig tools are modelled
too: the Makefile's targets run them on the remote's defconfigs, and whether a
board is built as it was configured is decided there.
This directory models that logic in TLA+, checks it with TLC and proves the
central properties with TLAPS.

## 1. Inventory

The paths below leave out `src/buildroot-external/`; `RO/` is its
`rootfs-overlay/`, `YS/` is `RO/opt/yio/scripts/`.

| Part | State it keeps | Operations | Correct when |
|---|---|---|---|
| U-Boot boot script, `board/remote/uboot-boot.ush`, `uboot.config` | `uboot.env`: `boot_slot`, `bootcount`, `upgrade_available`, `altbootcmd` | count a power-on, run `altbootcmd` beyond the limit, create missing variables, load the kernel or reset | a slot is left only after its trial used all power-ons; a trial can always be ended |
| SWUpdate integration, `sw-description`, `rootfs.sh`, `postupdate.sh` | the two root partitions, the environment | choose the target, stream, fail, commit the environment, reboot | the running system is never written; a torn image is never final |
| Good boot check, `RO/usr/libexec/reset-bootcount.sh` and its timer | environment | once per boot at 180 s: app active? trial pending? clear it, zero the count | only a verified image becomes final |
| App supervision, `app.service`, `RO/opt/yio/app-launch.sh` | starts within the interval; `app`, `app-previous` | start, restart, reboot at the start limit, restore `app-previous` | a crash loop reboots before the check calls it good |
| Init overlay, `RO/usr/libexec/init-overlay.sh` | data partition overlays, hostname, hosts, machine-id | mount or panic, provision at the first run | provisioning is complete or repeated |
| App, plugin and web updaters, `YS/*-update.sh`, `lib/common.bash` | component directory, backup, temporary directory, archive, marker, service | unpack, verify, stop, back up, activate, clean up, start | a complete version is always installed or restorable; the service runs afterwards |
| Dispatcher and releases, `YS/update.sh`, `lib/common.bash` | downloaded archives | dispatch, look up, download, compare versions | what was compared is what is installed; the exit code tells success |
| First setup, `YS/firstrun.sh`, `YS/wifi-copy-config.sh` | `firstrun` and `wificopy` markers, WiFi configuration | copy, mark, skip the setup, reboot | a provided configuration skips the setup |
| Board configuration, `src/Makefile`, `src/buildroot/Makefile` | the defconfig and its `.bak`, `.config`, `auto.conf` | `<board>-config`, `<board>`, `<board>-menuconfig`, `make`: run the Kconfig tools in turn | what was saved is what is built, without a question |
| Kconfig menu tree, `src/buildroot/support/kconfig/` `zconf.y`, `menu.c`, `expr.c` | nodes with list, next and parent, dependencies, prompts, properties | parse statements, finalize, check for loops | order and visibility are those of the file; loops are reported |
| Kconfig symbols and files, `symbol.c`, `confdata.c` | values, flags, "changed", the files | compute, set, choose, read, write, reduce to a defconfig | what is written reads back; a question is asked once |
| Text front ends, `mconf.c` with `lxdialog/`, `nconf.c`, `nconf.gui.c` | the menus that are open, what the screen shows, cursor and scroll positions, the change count, the file in the title | move, edit a line, read a text, search, jump, save, load, exit | a key acts on what the screen shows; nothing is lost without a word |
| Graphical front ends, `gconf.c`, `qconf.cc` | the view, the rows of its panes, the menu they show | choose a view, go down and back, browse, set a value, load | the rows are those of the values there are now |
| Maintenance scripts, `src/scripts/` | Buildroot patches, hash files | revert, download, patch; create hash files | a failed run can be repeated |

How they interact. U-Boot, SWUpdate and the good boot check share the
environment, without a lock across their separate accesses. U-Boot decides by
it which partition runs; what runs decides which partition SWUpdate writes.
systemd's start limit and the kernel's `panic=5` turn failures of an image into
power-ons that U-Boot counts. The component updaters write to the data
partition, which both slots mount, and stop and start the supervised app. The
first boot provisions files that are bound into `/etc`; the first starts of the
app write to them. A build sees of the configuration what the Kconfig tools,
run one after the other, leave in files.

Hard behaviours: power loss between any two writes, the check racing with
SWUpdate, an update during a trial, trials that meet trials after a rollback,
one-shot checks, updaters interrupted between removing and replacing a
directory, a first setup cut off between a file and the marker that speaks of
it, values that are dropped when they are hidden and computed when they are
asked for, lists that are spliced while they are walked, screens that are
repainted in part, positions that are kept twice. `PROJECT.json` lists each one
at its line under `hazards`, with the property that covers it or the module
planned for it.

## 2. Modules

| Module | What it is |
|---|---|
| `SystemUpdate` | the A/B system update: U-Boot, Linux and app supervision, good boot check, SWUpdate, power cuts; properties |
| `ABUpdate` | abstract specification of the A/B update: install, activate, try, confirm, roll back |
| `ComponentUpdate` | the three component updaters, command by command, with failing commands, power cuts and retries; properties |
| `Replacement` | abstract specification of a component update: an installation, its backup and a new version, of which one is whole at any time |
| `FirstSetup` | provisioning, WiFi configuration and first setup, command by command, with power cuts, stops of the service and changes of the card; properties |
| `KconfigLeaf` | operators: symbols and comparisons, the rules of `expr.c` that join two or rewrite one, and their values |
| `KconfigExpr` | operators: the dependency expressions of `expr.c` made of them |
| `KconfigMenu` | the Kconfig parser's tree, `menu_finalize` and the loop check, for every small file; properties |
| `KconfigSymbols` | operators: values of symbols, reading and writing files |
| `BoardFiles` | the Makefile's targets and what their tools do to the files, in which order, whatever they write; property |
| `BoardConfig` | extends it by what the tools work out, ask and write; properties |
| `MenuBox` | lxdialog's scrolled lists, `dialog_menu` and `dialog_checklist`; properties |
| `InputBox` | the input lines of mconf and nconf; properties |
| `TextBox` | `dialog_textbox` with mconf's search results, and nconf's `show_scroll_win`; properties |
| `NconfMenu` | nconf's menus over the ncurses menu library, and the search in them; properties |
| `GconfTree` | the views of gconf: rows built anew and changed in place; properties |
| `EditorSession` | a session of mconf or nconf: nested calls, memory, files, exit; properties |
| `MC...` | sets for the TLC configurations |
| `SystemUpdate_proofs`, `ComponentUpdate_proofs`, `FirstSetup_proofs`, `BoardConfig_proofs` (of `BoardFiles` and `KconfigLeaf`), `FrontEnd_proofs` (of `EditorSession` and `NconfMenu`), `InputBox_proofs`, `MenuBox_proofs`, `TextBox_proofs` | theorems |

`KconfigExpr` extends `KconfigLeaf`, `KconfigMenu` and `KconfigSymbols` extend
`KconfigExpr`, `BoardConfig` extends `KconfigSymbols` and `BoardFiles`. The other models share no state: the component updaters write
to the data partition, the system update to the root partitions and
`uboot.env`, the first setup to `/var/etc` and two markers. Where they meet, one
has the other as an action of its environment: `StopService` of `FirstSetup` is
an updater, `PowerCut` a reboot by whatever causes it. The six modules of the
front ends meet only in what a dialog returns: `EditorSession` takes the
results of the others as choices of the user, and `BoardConfig` has a session's
effect on the files as one step.

### SystemUpdate

Persistent state is `env`, a record of the four variables (the last two as
Booleans: is the variable set?), and `image`, which gives each partition the
*behaviour* of its image: `good`, `flaky` (its app may exit at any time),
`crashing` (its app exits within seconds of each start), `panics`, `unbootable`
or `torn` (partly written). `stage`, `ram`, `root`, `app`, `starts`, `check` and
`sw` are lost at each `Restart`.

| Action | Code |
|---|---|
| `PowerOn` | U-Boot loads the environment, counts, and saves the count in a trial (`BOOTCOUNT_ENV`, limit 3) |
| `AltBoot` | `altbootcmd`, uboot-boot.ush:20-30; `upgrade_available` stays set |
| `DefaultSlot`, `CreateAltbootcmd` | uboot-boot.ush:8-13 and 16-32, each with its own `saveenv` |
| `LoadKernel`, `LoadFails` | uboot-boot.ush:55-87 |
| `InitSystem`, `KernelPanic` | init-overlay.sh; `panic=5` of the kernel command line |
| `AppStart`, `AppExit`, `StartLimitHit`, `IntervalElapses` | app.service: `Restart=always`, two starts per 60 s, `reboot-force` |
| `TimerElapses`, `ReadUpgradeAvailable`, `ClearUpgradeAvailable`, `ZeroBootcount` | the four accesses of reset-bootcount.sh, in order |
| `UpdateStart`, `UpdateWritten`, `UpdateFails`, `UpdateCommit`, `PostUpdate` | rootfs.sh, sw-description, postupdate.sh |
| `PowerCut` | loss of power, or a reboot by the user, in any stage |

U-Boot, SWUpdate, systemd and the `fw_setenv` tool are outside this repository.
They are modelled from how the repository configures and uses them: the boot
counter counts and saves only while `upgrade_available` is set; one
`fw_setenv`, one `saveenv` and SWUpdate's `bootenv` list are each one atomic
save. The text of `altbootcmd` is taken for what U-Boot's parser makes of its
quoting: the swap of the slots. `uboot-boot.ush` is the same for both boards.

Time is abstracted to order. A crash loop reaches the start limit before the
minute, and so before the check at 180 s (`Lasts` guards `IntervalElapses` and
`TimerElapses`); everything else may happen in any order. `starts` counts
within an interval that begins anew at `IntervalElapses`.

Four history variables serve the properties: `boots`, `verified` (slots whose
present image the check passed, both at the factory, where genimage.cfg writes
the same image to both), `overlapped` (an update started from a system that was
not verified) and `raced` (the check cleared a trial after SWUpdate had
committed another update).

### ComponentUpdate

The scripts for the app, the plugins and the web-configurator go through the
same phases, so one module has them all; `component`, chosen in `Init`, says
which one a behaviour is about. A directory maps each top level entry to a
version, or is missing (`NoDir`). `pc` is the next command of the script.

| Action | Code |
|---|---|
| `Begin`, `Unpack`, `UnpackFails` | preconditions, `tar`/`unzip`, the checks, the pre-install hook |
| `StopService` | plugin:154, web:168-175; remembers what the end will start |
| `StopServiceUnknown` | app:151: no such function, every run ends here |
| `NothingToSave`, `DropBackup` | the test of the directory, `rm -rf` of the old backup |
| `RenameDir`; `CopyFile`, `CopyDone`; `RemoveFile`, `RemoveDone` | `mv` to the backup where the overlay can rename; `cp -r` for plugins and the first half of a `mv` that cannot; its second half |
| `MakeDir`, `MoveFile` | `mkdir -p`, `mv TMPDIR/*`: one rename per entry |
| `RemoveArchive`, `FinishFails` | the post-install hook, `rm` of TMPDIR and archive |
| `StartService` | plugin:197, web:207-210 |
| `CommandFails` | `set -eE` and `errorTrap`, at any command |
| `PowerCut`, `Boot` | a reboot; systemd starts the app, app-launch.sh restores `app-previous` |
| `Offer`, `Discard`, `SwitchWebServer` | the user and remote-software |

`upper` tells whether a directory lies in the upper layer of the `/opt/yio`
overlay alone. The factory's does not, and with `redirect_dir` unset
(kernel.config:3101) its first `mv` is a copy and a delete.

An archive is a version, the entries it brings (a plugin archive brings some,
the others all) and a kind: `plain`, `damaged` in a way the tools notice,
with a hook, named by a `relative` path, or `downloaded` to `/tmp`. A marker
file is taken together with the archive it names. The rest of app-update.sh
behind line 151 would be the same actions; the code does not reach them, nor
therefore the restore of app-launch.sh.

The history variables are `begun` (archive, directory and service when the last
run began), `outcome`, `disturbed` (a command of the run was made to fail) and
`lost` (a reboot lost the downloaded archive of an unfinished installation).

### FirstSetup

| Action | Code |
|---|---|
| `PowerOn`, `Provision` | init-overlay.sh: only when `hostname` is not there, copy `hostname` and `hosts`, write `machine-id` |
| `Boot` | the bind mounts onto `/etc`, each needs its source; systemd reads or makes the machine id |
| `NoCardFile`, `CompareCardFile`, `CopyCardFile`, `TouchMarker` | wifi-copy-config.sh: no file removes the marker; a file that is the stored one ends the script |
| `FirstRun`, `WriteNames`, `SkipSetup`, `Reboot` | firstrun.sh |
| `Shutdown` | the reboot it asked for; until then app-launch.sh goes on |
| `FinishSetup` | the app, outside this repository, removes the marker of the first run |
| `StopService`, `PowerCut`, `ChangeCard` | an updater stops and starts app.service and with it the scripts; power; a card reader |

Each `cp` and each redirection is two steps: it empties its file, then fills it.
A name file is missing, `torn`, the `image`'s, or `named` after the device. Two
history variables serve the properties: `cutShort` (power failed during the
provisioning) and `unmarked` (the stored configuration is the card's and its
marker was not made, or was taken away while the file was off the card).

### KconfigLeaf, KconfigExpr and KconfigMenu

A behaviour of `KconfigMenu` is a file, statement by statement, and what the
tools make of it.

| Action | Code |
|---|---|
| `ConfigStmt`, `Property`, `MenuStmt`, `IfStmt`, `ChoiceStmt`, `EndStmt` | the rules of zconf.y with `menu_add_entry`, `menu_add_dep`, `menu_add_prompt`, `menu_add_visibility`, `menu_end_menu` |
| `Finalize` | `menu_finalize(&rootmenu)`: passing dependencies down, the type of a choice, automatic submenus, flattening, members of a choice |
| `CheckSymbol` | one `sym_check_deps` of the loop at the end of `conf_parse`; the order of the symbols is that of a hash table, so any |

`list`, `next` and `parent` are the pointers of `struct menu`, as functions. An
`&&` or `||` of `KconfigExpr` has the sequence of its operands: how they are
paired is irrelevant within a level (expr.c:215). `parsed` (the tree before
`Finalize`) and `written` (the condition of a prompt as it stands in the file)
are history.

### KconfigSymbols, BoardFiles and BoardConfig

`KconfigSymbols` has the memory of a tool as a record and `symbol.c` and
`confdata.c` as operators that take it and give the memory they leave: a value
is computed when it is asked for and kept while its symbol is `VALID`. Symbols
are bools, ints and choices of bools, which is what Buildroot's own
configuration uses.

The files and the order in which tools open, write and move them are in
`BoardFiles`, a specification of its own (`FilesSpec`) that leaves open what is
written; each action of `BoardConfig` is one of these with the contents added, or
leaves the files alone. So what holds of the files in `BoardFiles` holds in
`BoardConfig` by the way it is written.

| Action | Code |
|---|---|
| `Run` | a target of the Makefile: the tools it will run |
| `Defconfig` | `conf --defconfig` |
| `OpenCopy`, `FillCopy`, `StartSave` (`OpenDefconfig`), `EndSave` (`FillDefconfig`) | the `cp` to `.bak` and `conf --savedefconfig`, both of which empty a file before they fill it |
| `DropLocation` | the `sed -i` behind `savedefconfig`, which drops `BR2_DEFCONFIG`, a line the models leave out; it renames a file of its own over the defconfig, so there is a whole one at any time |
| `MoveOld`, `PlaceNew` | the two renames at the end of `conf_write` |
| `OpenMenu`, `Edit`, `SaveAndExit`, `ExitUnsaved` | mconf: drawing the menus, keys, the exit dialog |
| `ReadMakefile` | `-include .config` and the rule for `auto.conf` of Buildroot's Makefile |
| `StartSync`, `Answer`, `AnswerChoice`, `VisitAgain`, `EndSync`, `WriteAuto` | `conf --syncconfig`: `check_conf` and `conf` up to the next question, the developer's answer, again until nothing was asked, `conf_write_autoconf` |
| `Interrupt` (`Kill`) | the tool that runs is killed, make stops |
| `Upgrade` | Config.in changes between two targets |

`saved`, `used` and `answered` are history: what the last `savedefconfig`
reduced, what the last `make` read, what was asked.

### MenuBox, InputBox, TextBox and NconfMenu

Each has one record as its state: what the function keeps in its locals, what
is painted, and little of history. Drawing is a function from such a record to
the next, in the order of the code.

| Action | Code |
|---|---|
| `OpenMenu`, `OpenList` | `dialog_menu` and `dialog_checklist` up to their first key; `mb.saved` is `s_scroll` of conf |
| `KeyUp`, `KeyDown`, `KeyPageUp`, `KeyPageDown`, `HotKey`, `ListUp`, `ListDown`, `ListHotKey` | the keys that move, with the rows and arrows they repaint |
| `MenuButton`, `MenuReturn`, `MenuEscape`, `MenuResize`, `ListButton`, `ListClose`, `ListResize` | buttons, keys that return, a new terminal size |
| `OpenInput`, `Backspace`, `KeyLeft`, `KeyRight`, `TypeKey`, `InputButton`, `InputResize`, `InputClose` | lxdialog's `dialog_inputbox` |
| `OpenEntry`, `Entry...` | nconf's `dialog_inputbox`, which prints the whole field after every key |
| `OpenText`, `FirstPage` ... `NextPage`, `ScrollSideways`, `TextResize`, `TextClose` | `dialog_textbox` with `get_line`, `back_lines`, `print_page` |
| `OpenSearch`, `Jump` | the results of `search_conf`: the text with its jump keys, shown again after each jump |
| `OpenScroll`, `ScrollKey`, `ScrollClose` | `show_scroll_win` |
| `OpenNconf`, `Drive`, `Again`, `LeaveNconf` | `conf` and `conf_choice` of nconf: the list built, `menu_driver`, the list built anew at the remembered place |
| `SlashKey`, `TypePattern`, `NextMatch`, `RubOut` | `do_match` and `get_mext_match` |

In nconf's input line the delete key moves a byte more than there is (nconf.gui.c:456),
from behind the buffer when the line fills it. That byte lands behind the
terminator, where nothing looks, so `EntryDelete` leaves it out.

A menu of nconf may be empty: `child_count` is never reset (nconf.c:756-1086), so
`conf` goes on with a list whose entries have all been hidden. The page may be of
no or fewer rows: `mwin_max_lines` is seven less than the terminal has (line 1471),
and only `main` looks at its size. `lines` is this height, `format` what
`set_menu_format` made of it: zero stands for the rows the library has, and
fewer are refused. A choice is opened with the row of the menu it is in (line 1268), when
its value is listed. `do_match` makes `selected_index` -1 with every key (line 1025);
when the list is built anew, with a value that is hidden by then, it stays so
(lines 1253-1275), and `show_menu` reads what is before the first entry. What the
library makes of that is open: it refuses it, or the program ends (`crashed`).

A text is a sequence of characters and newlines, and the pointer `page` a number.
An entry is its number; which entries a pattern or a letter matches is chosen
freely, a longer pattern matching less. `Formats`, `Rows`, `NewItems`,
`SetTop`, `Brought`, `SetCurrent`, `Turned`, `PageTurned`, `Stepped` and `Paged` are
the ncurses menu library as nconf uses it, from outside of the repository:
`set_current_item` and `menu_driver` turn the page by rules of their own, and what
is no row or no entry is refused. `left` and `right`, `line`, `asked` and
`since` are history: the line the user has in mind, the line that is due at the
top, the last search, what happened since the list was opened.

### GconfTree

| Action or operator | Code |
|---|---|
| `OpenGconf` | `main` |
| `ClickValue`, `ChooseColumn`, `GoDown` | `on_treeview2_button_press_event`, `on_treeview2_key_press_event`, with `toggle_sym_value` and `change_sym_value` |
| `EnterText` | `renderer_edited` |
| `Browse`, `ToggleLeft` | the first and the second click of `on_treeview1_button_press_event` |
| `GoBack`, `SingleView`, `SplitView`, `FullView`, `SetOptionMode`, `LoadFile` | the callbacks of the buttons and menus |
| `Calculated`, `SetTo`, `Toggled`, `menu_is_visible` | `symbol.c` and `menu.c`, down to which symbols are calculated when, and flagged as changed |
| `display_tree`, `update_tree`, `gtktree_iter_find_node`, `fill_row` | the functions of that name; a row is its entry, its value and the rows below |

Unlike `KconfigSymbols`, which computes all values at once, this module keeps
what `sym_calc_value` leaves valid or flagged: `update_tree` repaints by those
flags. Entries are bools, texts and menus, a symbol with one prompt; choices
and tristates are left out, as are (NEW), colours, icons and column widths. The
left pane keeps its rows while it is hidden. `loaded` is history.

### EditorSession

| Action | Code |
|---|---|
| `Main` | `main` up to the first `conf(&rootmenu)` |
| `Call`, `CallKey` | the cases of conf that call another function; function keys of nconf |
| `SetTristate`, `SetChoice`, `SetString` | the `sym_set` functions, which count a change |
| `Save`, `Load` | `conf_save` with each way `conf_write` may fail, `conf_load` with `conf_read` |
| `LeaveCall`, `LeaveSubmenu`, `Found`, `JumpTo` | returns, and mconf's search with its nested `conf` |
| `LeaveMconf`, `Interrupt`, `AnswerMconf` | `handle_exit`, from `main` and from `sig_handler` |
| `ExitKey`, `LeaveNroot`, `AnswerNconf` | `do_exit`, from F9 and from `main`, with `global_exit` |
| `TooSmall` | a terminal too small for an input line |

## 3. Properties

Of `SystemUpdate`:

| Property | Says |
|---|---|
| `OnlyVerifiedIsFinal` | outside of a trial `boot_slot` holds a verified image, unless `raced` |
| `RollbackReady` | a saved trial has a saved `altbootcmd`, and in the trial of an unverified image the other slot is verified, unless `overlapped` |
| `VerifiedKeepsWorking` | a verified image is complete, boots and is not in a crash loop |
| `RunningRootIntact` | the mounted root is never written |
| `TrialBudget` | a slot on trial is started at most `BootLimit` power-ons after it was set |
| `RollbackOnlyWhenExhausted` | U-Boot leaves a slot only in a trial with all power-ons used: a system marked OK is never left, also when power failed between the two `fw_setenv` calls |
| `EventuallyRunning` | in the end the app runs and no trial is pending, unless `overlapped` or `raced` |
| `ImplementsAB` | the refinement of `ABUpdate` |

The exceptions `overlapped` and `raced` are not assumptions of convenience: both are reachable, and
the runs `check_race` and `second_update` show what the code then does.

Of `ComponentUpdate`:

| Property | Says |
|---|---|
| `CompleteSomewhere` | over any number of failed, interrupted and repeated runs a complete version is installed, in the backup or in the archive, unless `lost` |
| `SuccessReplacesAll` | a run that succeeds has installed all entries of its archive and changed no other, and its backup is exactly what was installed before |
| `PluginsNeverLost` | no plugin is missing or goes back, not even while it is replaced |
| `ChangedOnlyWhenStopped` | the installation changes only while its service is stopped |
| `ServiceRestored` | a run that succeeds leaves lighttpd as it was and the app running |
| `Converges` | from any wreck, a plain archive is in the end installed or given up with the installation whole |
| `ImplementsReplacement` | the refinement of `Replacement`, in which a thing is whole or is not there: however a run is cut into commands, fails and is retried, a whole installation goes only into the backup and a backup only while a usable archive is at hand, a plugin is replaced where its old version is in the backup, and an archive goes from an installation that is not whole only by a reboot |

`lost` is reachable, and `CompleteSomewhere` does fail beyond it: `-l` downloads
to `/tmp` (web:64), a cut during the switch loses the archive, the next attempt
deletes the complete backup to put the wreck in its place, and a second cut then
leaves nothing complete (a failing command may stand for the first cut). `ServiceRestored` speaks of one run: a retry after a
failed one finds the web server stopped and leaves it so.

Of `FirstSetup`:

| Property | Says |
|---|---|
| `NamedAfterSetup` | once the marker of the first run is gone both name files name the device, unless the provisioning was cut short and left no `hosts` |
| `IdentityKept` | the machine id is the stored one at every boot, unless the provisioning was cut short |
| `SetupSkipped` | with a configuration on the card the app does not start into its first setup, unless `unmarked` |
| `CardConfigStored` | a configuration that stays on the card becomes, and stays, the stored one |
| `AppRuns` | the device does not reboot for ever |

The exceptions are reachable. `hostname` is written first and is all that the
next boot looks at: a cut behind it leaves `hosts` or `machine-id` missing for
good. A cut or stop between the copy and the marker leaves a file that counts as
already copied; so does the same file put back after a boot without it.

Of `KconfigMenu`:

| Property | Says |
|---|---|
| `KeepsOrder` | every entry is shown once, in the order of the file, and parents agree with lists |
| `PromptsKeepMeaning` | a prompt is visible exactly when its conditions, those around it and every `visible if` around it hold, under all values, for a tristate to the same degree |
| `SubmenusReachable` | an entry put below a symbol is not hidden by it, with the exceptions named there |
| `LoopsReported` | a file with a symbol or a choice whose value depends on itself is reported, in whatever order the symbols are checked, but for loops through an `imply`, and loops from a choice to an entry in it that is no member |

Of `BoardConfig`:

| Property | Says |
|---|---|
| `RebuildsWhatWasSaved` | the reduced defconfig brings the whole `.config` back |
| `AsksOnlyWhatIsNew` | a build asks nothing unless Config.in changed since the `.config` was written |
| `BuildsWhatConfigSays` | what make read of `.config` is what `.config` says when it ends, under the same condition |
| `AsksOnce` | what was answered is not asked again, a choice only when its visible entries differ |
| `CopiedBeforeTouched` | a whole defconfig or `.config` is touched only when a copy of it stays, and `.config.old` gives way only to a whole one |

Of the front ends:

| Property | Says |
|---|---|
| `ScreenShowsMenu` | each row shows the entry a key acts on, through single-row repaints and pages; a list opens with its entry on the screen, at a saved position or not; until a resize |
| `EditsLikeALine` | the line is the one that was typed, the cursor is where the next key acts, the field shows the line there |
| `ShowsTheRightLines` | a key moves a text by the lines it says, and stops only at its two ends; jump keys are those written on the page, and lead to the result they are written at |
| `SearchFinds` | a search in nconf goes to the nearest match in its direction, and ends but in one case |
| `PageHoldsCurrent` | in a list that is not empty an entry is current, the remembered one if there is one of that number; while there is room for a row it is on the page, and no row is empty for want of scrolling; a menu crashes only when it is empty or is shown at entry -1 |
| `FullViewTracks` | in the full view nothing hidden stays after a value changed in place, nothing is out of place, and values are current; what is missing is at the end of a menu |
| `NothingLostSilently` | while nothing counts as changed, and when a session ended without a word, the file in the title holds what was on the screen, unless `forgotten` |

`forgotten` is reachable: `conf_read` clears the change count before it opens
the file (confdata.c:413), so after "File does not exist!" mconf and nconf end
without a question and the edits are gone.

What the Kconfig modules showed and no text of the repository contradicts, so
that it is no finding:

- An entry that names a promptless symbol goes below that symbol whatever else
  it depends on (menu.c:448), and into the submenu the symbol is in (menu.c:567).
- The `= y` that a bool member of a tristate choice gets (menu.c:499) comes
  after its submenu is built: while the choice is m, what lies below the member
  cannot be reached. A second entry of the same member does not get it.
- `sym_calc_value` computes a symbol from what implies it (symbol.c:262, 432), but
  `sym_check_sym_deps` does not follow that: of `config T, imply B if !B` the check
  says nothing, although the value of B depends on itself. The run has such files.
- A choice is not marked while its members are checked (symbol.c:1288). In a choice
  with a member that depends on X, and X in a menu in an `if` of the choice, X
  depends on the choice, the choice looks at the member and the member at X: this
  is reported when the check starts at X and not when it starts elsewhere. It
  takes five statements; the property was tried on these as well.
- `sym_check_deps` clears its result when it has printed a loop, so `conf_parse`
  does not count it as an error (symbol.c:1340, zconf.y:555): `errors` stays
  false.
- `expr_trans_bool` turns `T != n` of a tristate into `T` where a bool is asked
  for; a comment at expr.c:561 speaks of 'm' where the code gives 'y'.
- Without modules `m` reads as "n" in a comparison (symbol.c:803), but the rules of
  `expr.c` take it for a third value: for a tristate `T = y || T = n` becomes
  `T != m`, false when T is n, `T = m && T != n` becomes `T = m`, true then, and
  for a bool `B = m` becomes n. A dependency changes its value only if it has
  such a comparison and modules are off; Buildroot's own Config.in files have no
  tristates.
- `menu_is_visible` marks symbols as entered by the user as a side effect
  (menu.c:657).
- `savedefconfig` interrupted leaves the defconfig cut off, and the next
  `<board>-menuconfig` copies it over the `.bak`: both are then torn.
  `CopiedBeforeTouched` speaks of whole files for this reason: one interrupt
  loses nothing, a second target after it may.
- After a resize `dialog_menu` keeps `first_item` of the smaller or larger
  window: it may print past the last entry, which faults, or show other entries
  than keys act on. The highlighted button is drawn as the first and kept as it
  was (menu, choice, input line, question). The arrow below a choice's list is
  computed from the highlighted row (checklist.c:85), right until a resize.
- A text that does not end with a newline scrolls away by a line whenever its
  end is reprinted, and paging down from an exact last page shows an empty one.
  `show_scroll_win` pages up by four lines more than down (nconf.gui.c:622).
- A search for the next match from the last entry of nconf, with none, never
  ends: the loop waits for `match_start`, which is not an entry (nconf.c:519).
  A search in an empty menu divides by zero (nconf.c:508).
  Rubbing out in an empty pattern writes in front of it (nconf.c:1052), and the
  key NUL ends the reading of keys with `res` zero; both are left out.
- Loading a file from within a choice of nconf may hide the value the choice was
  at; the list is then shown at entry -1 (nconf.c:1275). In an
  empty menu on a terminal without room for a row, where the library refuses the
  empty list, `conf` remembers the entry of a list before.
- When the last row of a menu in gconf is hidden, `update_tree` returns
  (gconf.c:1291), and what the same value shows behind it is not added until
  the view is built anew. This is why `FullViewTracks` speaks of the first
  entries of a menu only.
- In the other option modes `update_tree` calculates nothing (gconf.c:1280): the
  flag it repaints by is not set, the row keeps its old value, and the next
  click starts from that. In the split view it adds the menus that
  `display_tree` leaves to the other pane; in the single and the split view
  `renderer_edited` puts the entries of `rootmenu` there (gconf.c:801). A symbol
  with two prompts has its flag cleared by the first row.
- `display_tree(&rootmenu)` sets `current`, and only some callers disable the
  button: down into a menu, then the single view or an option mode, then back
  takes the parent of `rootmenu`, which is NULL (gconf.c:711).
- Loading a file in gconf adds its rows behind the old ones (gconf.c:501).
  Answering the question at its end with a save that fails ends it all the same
  (gconf.c:447).
- A write that fails in its second rename leaves no file of that name, only
  its `.old` (confdata.c:831); a full disk goes unnoticed (confdata.c:826).
- On a terminal too small for an input line, mconf's `conf_string`, `conf_load`
  and `conf_save` ask again without end.
- An interrupt of mconf offers to continue with escape, and exits all the same.

## 4. Runs

| Run | Configuration | Result |
|---|---|---|
| `system_update` | limit 3, burst 2, all packages, 3 updates, 5 power cuts, fairness | all properties hold, about 425 000 states |
| `check_race` | 1 update | finding 1 |
| `second_update` | 2 updates, 4 cuts | finding 2 |
| `failed_check` | 1 update, fairness | finding 3 |
| `component_update` | all components and kinds, 2 entries, 2 archives, 2 failing commands, 2 cuts, fairness | all properties hold, about 480 000 states |
| `app_update` | app, plain archive, nothing fails | finding 4 |
| `plugin_hook` | plugins, one archive, nothing fails | finding 5 |
| `web_switch` | web-configurator, one cut | finding 6 |
| `first_setup` | two configurations, 2 cuts, 2 stops, 2 changes of the card, fairness | all properties hold, about 31 000 states |
| `kconfig_menu` | every file of 3 statements and one select, imply or default | all properties hold, about 299 000 states |
| `board_config` | 22 sources, 2 targets, 1 edit, 1 interrupt, 1 change of Config.in | all properties hold, about 437 000 states |
| `front_ends` | lists of 5 entries, menus of nconf of 0 to 4, lines of 4 characters, texts of 4 lines, windows of 1 to 3 rows, 2 jump keys, 2 trees of 6 entries with 5 callbacks, calls nested 4 deep, 2 files | all properties hold, about 248 000 states |

The limits are those of the code. Power-ons are counted to 4, and an image may
fail by itself, so 5 cuts cover a trial that only cuts exhaust (4) with one to
spare for the middle of a save or of the check; 3 updates allow an update, one
that overlaps its trial and one after the rollback. A third slot does not
exist. Deadlock is not checked: with updates and power cuts used up a running
system has nothing left to do, and that it does not stop anywhere else is what
`EventuallyRunning` says.

For `component_update`, two entries are enough to have a half copied, half
deleted or half replaced directory; two archives give an update of the
factory's directory, by copy and delete, and one of a directory that can be
renamed; two cuts or two failures reach the retry of a retry, and a
wreck that a second fault meets. Deadlock
is not checked for the same reason as above.

Fairness of `SystemUpdate`. U-Boot and init run to their end (no step waits for anything);
systemd restarts the app and applies the start limit; a crashing app crashes;
the timer fires and the script runs to its end; SWUpdate, once the image is
written, commits and reboots. Nobody is obliged to start or finish a transfer,
to cut power, or, for `flaky`, to exit: the app of such an image may exit for
ever at the wrong time, so the two liveness properties make an exception of it
(`Gamble`). Liveness holds for the time after the
last update and power cut, which the bounds end.

Fairness of `ComponentUpdate`. A script that runs goes on to its next command,
a device without power is switched on again, and an archive that is still there
is tried again: an assumption on the user and on remote-software, whose "update
loop" app-update.sh:30-31 speaks of. Failures and cuts are bounded, so `Converges` says what holds once they
end.

For `first_setup`, two cuts and two stops are enough to interrupt a run and the
one that repairs it, two changes take a file away and put it, or another, back.
Fairness: a device that is off is switched on, and its scripts go on, as no
command of theirs waits for anything; nobody has to finish the first setup, to
change the card or to cut power.

For `kconfig_menu`, three statements nest (a menu, an `if` or a choice, an entry
in it), follow (a symbol, two entries that may go below it) and repeat a symbol;
B is a bool, T a tristate, and the expressions are those the rewriting rules
treat each in its own way. A block may be empty, but for a choice; with that, a menu
in an `if` in a choice fits. A block that depends on `B = y` goes below B by
`expr_depends_symbol`, one that names it otherwise as its dependencies are B's and
more. A fourth statement multiplies the states by fifty.
For `board_config`, a source has a bool, a choice with an entry that has an entry
below it, and an int, with every combination of prompts, defaults, ranges and
selects that has no loop; two targets are the one that saves and the one that
builds. Neither run has fairness: `AsksOnce` bounds the questions, and a build
ends when they do. A tool may stop anywhere, so deadlock is not checked.

`front_ends` has the six modules of the front ends in one run, each behavior
belonging to one of them. Windows of one to three rows have every case of
scrolling: nothing above, nothing below, the highlighted row at an edge, in the
middle or both (dialog_menu scrolls two rows before the edge). Lists are longer
than any window by two entries, lines by one character beyond what makes a
field of two or three cells scroll at both ends, texts by a line. Menus of nconf
have none to four entries and pages of -3 to 3 rows: fewer than none as much as half
a page up from the first and the last entry tells apart. Two jump keys
let a page have more results than keys. One tree has a menu in which a value
hides the last entry and shows another, one an entry that is visible for its
children only, and one without a prompt; five callbacks set and reset a value
after a change of view, and load a file in between. Four calls are a submenu of a submenu
with a dialog and its question, and a jump from the results of a search. A
fifth call, a third file or configuration bring no new case, which the theorem
of section 5 confirms, as the others there do for longer lists and lines and
higher windows. No fairness: a program waits for keys. A session ends and
`SearchFinds` has the one endless loop, so deadlock is not checked.

Findings.

1. `MarkedOkIsRunning`: reset-bootcount.sh reads `upgrade_available` and later
   clears it, without a look at `boot_slot`. A commit in between, or one not
   yet followed by its reboot, has its trial cleared: an image that never
   booted is final, and if it fails nothing rolls it back.
2. `RollbackLandsOnOld`: an update may be installed while the running system
   is on trial. It overwrites the old system, to which `altbootcmd` claims to
   return.
3. `FailedCheckReboots`: a check that finds the app in its restart delay exits
   1. The comment in the script promises a reboot; nothing reboots, nothing
   checks again, and the trial stays pending until a later boot passes.
4. `UpdatesTheApp`: app-update.sh calls `stopService` without sourcing
   `util.bash`. Every run ends there; no app archive is ever installed.
5. `InstalledIsFinished`: hooks are tested as `hooks/post-install.sh` and run as
   `post-install.sh`. The run fails after the plugins were installed, the archive
   stays, the app stays stopped. A relative archive name has the same effect.
6. `SwitchIsAtomic`: comments promise an atomic operation. The switch is a
   backup, a `mkdir` and a rename per entry, and nothing repairs what a power cut
   leaves of a web-configurator.

## 5. Proofs

`SystemUpdate_proofs` proves, for every `BootLimit` and `StartLimitBurst` above
zero, every set of packages and all bounds:

- `TypeCorrect`: `TypeOK` is an invariant. It is not inductive alone: the
  check adds `root` to the verified slots, so `TypeInv` adds that a running
  system has a root.
- `FinalIsVerified`, `RollbackIsSafe`, `VerifiedWorks`, `RootIntact`,
  `TrialIsBounded`: the safety invariants of section 3.
- `RollbackIsLastResort`: the action property.
- `Refinement`: `Spec => ImplementsAB`; the abstract specification promises
  nothing (`void`) once check and commit have raced.

All rest on `IInv`, inductive relative to `TypeInv`. Its parts say why the
properties survive each step: `RamInv` (U-Boot's copy differs from the saved
environment in the count only, so a `saveenv` changes nothing else), `IdleInv`,
`RootInv` (the root is the boot slot until SWUpdate commits; this ties what is
running to what is saved), `WriteInv` (the slot written is not verified, the
system writing it is, unless `overlapped`; without it a commit could put an
unverified image beside another), `FactoryInv` (the first boot) and `CountInv`
(in a trial the saved count is the number of power-ons since the slot was set,
which excludes an early rollback from a stale count).

`ComponentUpdate_proofs` proves, for every set of entries, every subset of the
components and kinds, and all bounds: `TypeCorrect`, `VersionSurvives`
(`CompleteSomewhere`), `SuccessIsComplete`, `PluginsStay`,
`StoppedMeanwhile`, `ServiceIsRestored` and `ReplacementRefined`
(`Spec => ImplementsReplacement`).

All rest on its `IInv`, whose parts say where things are in each phase:
`ArchiveInv` (the archive of a run stays, and is newer than anything in the
directory or the backup), `ServiceInv` (stopped from stop to start), `PluginInv`
(only ever added to), `OldInv` (the backup agrees with the old directory as far
as it was copied, and is equal to it before the first entry is removed), `NewInv`
(entries are in TMPDIR or, with the new version, in the directory), `SavedInv`
(what is overwritten or removed is in the backup, and where a web-configurator
is moved to there is nothing) and
`WholeInv` (a run that has deleted its archive has completed the installation).
`CompleteSomewhere` alone is not inductive: that `rm` of the archive is safe
follows from `NewInv`. Each part has a lemma; the lemma goes through the
phases, and through the actions of those phases that can disturb the part.
The refinement has a lemma for each step that is seen: the first entry removed
takes a whole directory away, the last one moved installs one, the last one
copied completes a backup; what comes before and after is a stutter. For these
the invariants of section 3 were not enough: that a backup which becomes whole is
the directory, that the last entry moved does not complete a mixture, and that a
plugin moved over is the one in the backup needed `SavedInv`.

`FirstSetup_proofs` proves, for every set of configurations and all bounds:
`SetupTypeCorrect`, `NamesWritten` (`NamedAfterSetup`), `IdentityStored`
(`IdentityKept`) and `SetupIsSkipped` (`SetupSkipped`). All rest on `SetupInv`
(theorem `SetupInvariant`): `Provisioned` (how far init-overlay.sh is, tells
which files are there; behind it a missing one was lost to a cut), `Mounted`
(what is bound is what was there at boot, so a name that is written is stored),
`Named` (how far firstrun.sh is, tells which names are written; the marker goes
behind them) and `Copied` (a stored configuration of a card has its marker, is
about to get it, or is `unmarked`). `SetupSkipped` alone is not inductive: it
looks at the app, and what decides is whether the marker was there at `skip`.

`BoardConfig_proofs` proves `NothingWholeIsLost` (`CopiedBeforeTouched`) of
`FilesSpec`, for every Config.in and whatever the tools write; with
the actions of `BoardConfig` being those of `BoardFiles` and steps that leave the
files alone, it is a statement about `BoardConfig` too, where the run checks it. Its `FileInv` (theorem
`FilesInvariant`) ties the place of a tool to the tool (`ToolInv`), says that
`.config` is never cut off and not there between the two renames (`ConfigInv`),
and that the copy equals the defconfig from the end of `cp` until `savedefconfig`
opens it (`CopyInv`): for this `ToolOrder` goes through what is left of each
target's tools, and finds no `savedefconfig` that does not follow a `cp`.

It also proves the rules of `expr.c` on which `PromptsKeepMeaning` rests:
`JoinsKeepValue` of `expr_join_or` and `expr_join_and`, `RewritesKeepValue` of
the leaves of `expr_transform` and `expr_trans_bool`, for all symbols, types and
values. What they assume of the values is `Fits`: those of bools are n and y,
and no tristate is m without modules, as `sym_calc_value` sees to. That modules
are on when two comparisons are joined, or a bool is compared to m, is a
hypothesis because it is not true otherwise (end of section 3). The induction over
an expression that carries the rules to all of it is beyond the prover and
stays with the run.

`FrontEnd_proofs` proves `NothingIsLost` (`NothingLostSilently`) for every
set of file names and configurations and every depth of calls. Its invariant is
the property together with `Formed`, the type of the state: a file must be
among those of `disk` for a write to it to be read back. Each operator of the
module has a lemma, each action a step that puts its operators together.

Of the menus of nconf it proves `SearchIsRight` (`SearchFinds`) and `PageIsRight`
(`PageHoldsCurrent`) for every number of entries, every height and all matches; no entry, no room for one and
the value of a choice that is not listed included.
Its `NconfInv` adds `OnPage` (what the menu library keeps of a list that has
entries: one of them is current, on a page that is full while there is room for a
row), `Emptied` (what it keeps of an empty one) and `Remembers` (the matches are entries; a list that was
just built is at the entry remembered). Both are needed, as a search starts from
the current entry, and the next list is built at a row that was on the page of the
last. `set_current_item` would leave rows empty if it turned the page to an entry:
`SetCurrentOnPage` needs the entry to be on it, which is what `center_item` sets the top
row for. `StepsReach` says how often the loop of `get_mext_match` has turned when it
looks at an entry, `SearchStops` that it therefore stops at the nearest match; and
that without a match it ends at the entry it began with, unless that is the last
entry, or the first one upwards, and the search is for the next match.

`InputBox_proofs` proves `LineIsRight` (`EditsLikeALine`) for every set of
characters, width and buffer. The invariant is the property with the types, but
no key is proved in one step: the boxes first change the line and the counters
(`Held`), then repaint, and nconf corrects the counters while it repaints.
`Typed`, `Rubbed`, `WentLeft`, `WentRight`, `Deleted` are about the line as a
sequence with the cursor in it; `ReprintShows`, `RefreshShows` and `DrawShows`
about the window onto it.

`MenuBox_proofs` proves `ScreenIsRight` (`ScreenShowsMenu`) for every length of a
list, every height and saved position. A key takes the highlight away, moves
rows and highlights another: `Dark` is what holds in between (each row shows its
entry, none is highlighted), and each key is proved to lead from one dark list to
another, page up and down by the number of turns of their loop. `MenuInv` adds
`Fits` (all rows shown are entries), without which a row could be printed that is
none, and `Listed`: the rows of a choice are right also after a resize, since its
height stays. For a menu that is not so, and `ScreenShowsMenu` makes no promise.

`TextBox_proofs` proves `LinesAreRight` (`ShowsTheRightLines`) for all texts,
every height and number of jump keys. `LineAfter` and `LineAbove` say that the
next newline, and the one before, is the next line and the one above; `At` says
on which line the pointer is, with one line more behind the end, which
`back_lines` leaves without moving. `GetLinesFollows` and `BackLinesFollows` are
the two loops for any number of turns, `PrintPageFollows` the page. The property
is not inductive: `TextInv` adds that the pointer is behind the last line shown
and that `page_length` is the number of lines down to it, for this is what every
key goes back by. The keys of a search rest on `KeysDiffer` (results with the
same remainder by JUMP_NB are too far apart for both to have a key on one page)
and `FirstOnes` (how many get one). Of a text without a newline at its end only
the type and a positive `page_length` are shown, as the property says no more.

What is true of all numbers of turns of a loop is proved by the first number it
fails for (`LeastNumber`, from the library's theorem that `<` on `Nat` is
well-founded): the theorems that take a property as a parameter cannot be
instantiated by the provers. The loops of page up and page down in `MenuBox`, and
all loops of `TextBox`, are recursive functions, not folds, so that they can be
reasoned about this way.

Only model-checked: `EventuallyRunning`, `Converges`,
`CardConfigStored` and `AppRuns`, as the prover does not reach liveness under
fairness; the properties of `KconfigMenu`, and those of `BoardConfig` that are
about what its tools work out, whose trees and expressions are recursive
operators (of the expressions the rules for leaves are proved); and
`FullViewTracks` of `GconfTree`, whose rows are trees as well.

The assumptions are those named in the modules: limits above zero, packages,
components and kinds among the known ones, bounds in `Nat`, and that `NoDir` and
`NoArchive` are neither directories nor archives, and that the factory's WiFi
configuration is none that may be on a card. `MaxUpdates` and `MaxCuts` are arbitrary, so
the theorems hold for any number of updates and power cuts.

## 6. Not modelled

- A save of the environment torn by a power cut. There is one copy of
  `uboot.env`, and U-Boot's default environment boots slot A without a trial;
  the file writes are outside the repository.
- The recovery partition, which no code here selects: `boot_slot` only ever
  holds A or B.
- A data partition that does not mount fails both slots alike.
- Hanging kernels: nothing here would restart them but the user.
- Build scripts, package recipes, and the vendored code but for the Kconfig
  tools; compilation and the assembly of the image.
- Of Kconfig: tristates, strings, hex and `imply` in `KconfigSymbols`;
  `randconfig` and the other modes of conf that the Makefile does not run;
  printing, help texts and the order of search results; two tools at once.
- Of the front ends: qconf, a program of its own in C++ that the Makefile does
  not run; gconf's dialogs and choices; nconf's `build_conf`, colours, layout
  and widths; a full disk while a file is written. nconf does not catch an
  interrupt: it ends there, like any killed program.
- The WiFi daemon, which reads the stored file at a boot or a restart.
- Two updaters at once, which no lock excludes, and the app switching the web
  server while it is updated.
- Damage of a web-configurator tar that `tar` does not notice: unlike the
  other two archives it has no checksums.
- Temporary directories left behind by an explicit `exit` or a power cut, and
  the free space they take.
- That a script started from the app belongs to app.service, which it stops;
  how remote-software starts it is not part of this repository.

## 7. Plan

Done: `SystemUpdate` with `ABUpdate` and `ComponentUpdate` with `Replacement`,
and the two refinements; `FirstSetup`; the proofs of the three; the Kconfig
modules, and the proofs about the files of a board and the rules of its expressions; the front ends and the
proofs about their sessions, menus, input lines and texts.

1. `Device`: app.service with its start limit, the manual stops and starts of
   the updaters and both slots sharing the data partition, composed from
   `SystemUpdate` and `ComponentUpdate`; against the text of `doc/swupdate.md`.
2. `Releases`: look up, compare, download, install, the exit code of
   `update.sh`; `Maintenance`: the patch and hash scripts under failure.
3. Two runs of `ComponentUpdate` side by side: what of `Replacement` is left.
4. The torn environment as a fault of `SystemUpdate`.
