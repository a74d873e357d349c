---------------------------- MODULE Conversions ----------------------------
(***************************************************************************)
(* The algorithms of the program that keep no state: what the scripts and  *)
(* the Go code compute from what they find.  Each action is one call with  *)
(* any of its inputs; done is the call, its input and its result.          *)
(*                                                                         *)
(* Texts are sequences of lines, words or characters, whichever the        *)
(* algorithm works on.  A loop over one is a function: what it has made    *)
(* of the first n elements, for every n.                                   *)
(***************************************************************************)
EXTENDS Integers, SequencesExt

CONSTANTS
  Size,    (* bounds the length of the inputs                              *)
  Short,   (* and that of inputs which consist of several texts            *)
  W        (* bits of a digit of an address                                *)

ASSUME ConversionsAssumption == {Size, Short, W} \subseteq Nat \ {0}

VARIABLE done

Init == done = [call |-> "none", arg |-> <<>>, result |-> <<>>]

Call(name, arg, result) == done' = [call |-> name, arg |-> arg, result |-> result]

-----------------------------------------------------------------------------
(* NormalizeSearchSuffixes.  A value is known by what is left of it after  *)
(* trimming: its text, in lower case (key), and whether all its characters *)
(* are valid.                                                              *)
Values == {[text |-> "cr2", key |-> "cr2", valid |-> TRUE],
              [text |-> "CR2", key |-> "cr2", valid |-> TRUE],
              [text |-> "cro", key |-> "cro", valid |-> TRUE],
              [text |-> "", key |-> "", valid |-> TRUE],
              [text |-> "bad cr2", key |-> "bad cr2", valid |-> FALSE]}

Usable(v) == v.text # "" /\ v.valid

(* Mutant of Seen: case is looked at. *)
SeenText(result, v) == \E i \in DOMAIN result : result[i].text = v.text

Seen(result, v) == \E i \in DOMAIN result : result[i].key = v.key

Kept(values) ==
  LET kept[n \in 0 .. Len(values)] ==
        IF n = 0 THEN <<>>
        ELSE LET v == values[n]   result == kept[n - 1]
             IN IF Usable(v) /\ ~Seen(result, v) THEN Append(result, v) ELSE result
  IN kept

NormalizeSearchSuffixes(values) == Kept(values)[Len(values)]

(* Manager.Start: those of Windows where none of the config is usable.     *)
SearchSuffixes(configured, windows) ==
  LET own == NormalizeSearchSuffixes(configured)
  IN IF own # <<>> THEN own ELSE NormalizeSearchSuffixes(windows)

ChooseSuffixes ==
  \E configured \in SeqOf(Values, Size), windows \in SeqOf(Values, Short) :
    Call("suffixes", <<configured, windows>>, SearchSuffixes(configured, windows))

-----------------------------------------------------------------------------
(* findAsset.  A name is the set of the words that occur in it.            *)
Binaries == {"gvproxy", "gvforwarder"}
Arches   == {"amd64", "arm64"}
Names    == {{"gvforwarder"}, {"gvforwarder", "linux", "arm64"}, {"gvproxy", "windows"},
             {"gvproxy", "windows", "gui"}, {"gvproxy", "windows", "arm64"},
             {"gvproxy", "windows", "amd64"}, {"gvproxy", "linux", "amd64"}}
System(binary) == IF binary = "gvproxy" THEN "windows" ELSE "linux"

(* The names that are taken whatever else there is. *)
Plain(binary, arch) == IF binary = "gvforwarder" THEN {{"gvforwarder"}}
                       ELSE IF arch # "arm64" THEN {{"gvproxy", "windows"}} ELSE {}

Words(binary, arch) == {binary, System(binary), arch}

(* Mutant of Preferences: any architecture will do. *)
PreferencesAnyArch(binary, arch) ==
  <<Plain(binary, arch), {n \in Names : {binary, System(binary)} \subseteq n}>>

(* What each of the loops looks for. *)
Preferences(binary, arch) ==
  <<Plain(binary, arch),
    {n \in Names : Words(binary, arch) \subseteq n},
    {n \in Names : {binary, System(binary)} \subseteq n}>>

(* The index of the asset, 0 when there is none: the first name that the   *)
(* first of the loops finds.                                               *)
FindAsset(assets, binary, arch) ==
  LET wanted == Preferences(binary, arch)
      Place(k) == SelectInSeq(assets, LAMBDA n : n \in wanted[k])
      found == {k \in DOMAIN wanted : Place(k) # 0}
  IN IF found = {} THEN 0 ELSE Place(Min(found))

ChooseAsset ==
  \E assets \in SeqOf(Names, Size), binary \in Binaries, arch \in Arches :
    Call("asset", <<assets, binary, arch>>, FindAsset(assets, binary, arch))

-----------------------------------------------------------------------------
(* decodeWSLOutput and ListDistros, on bytes.  65 is a letter, 266 is one  *)
(* whose low byte is a line feed, 12354 one whose high byte is not 0.      *)
Letters == {65, 266, 12354}
CR == 13
LF == 10

(* wsl.exe writes each name on a line of its own. *)
Listing(distros) ==
  LET text[n \in 0 .. Len(distros)] ==
        IF n = 0 THEN <<>> ELSE text[n - 1] \o distros[n] \o <<CR, LF>>
  IN text

EncodeUTF16(text) ==
  [i \in 1 .. 2 * Len(text) |-> IF i % 2 = 1 THEN text[(i + 1) \div 2] % 256
                                           ELSE text[i \div 2] \div 256]

(* Mutant of IsUTF16: the wrong byte of a pair. *)
IsUTF16Low(bytes) == Len(bytes) >= 2 /\ bytes[1] = 0

IsUTF16(bytes) == Len(bytes) >= 2 /\ bytes[2] = 0

Decode(bytes) ==
  IF ~IsUTF16(bytes) THEN bytes
  ELSE [i \in 1 .. Len(bytes) \div 2 |-> bytes[2 * i - 1] + 256 * bytes[2 * i]]

Split(text) ==
  LET lines[n \in 0 .. Len(text)] ==
        IF n = 0 THEN << <<>> >>
        ELSE LET before == lines[n - 1]
             IN IF text[n] = LF THEN Append(before, <<>>)
                ELSE [before EXCEPT ![Len(before)] = Append(@, text[n])]
  IN lines

Trim(line, cutset) ==
  LET kept == {i \in DOMAIN line : line[i] \notin cutset}
  IN IF kept = {} THEN <<>>
     ELSE SubSeq(line, CHOOSE i \in kept : \A j \in kept : i <= j,
                       CHOOSE i \in kept : \A j \in kept : j <= i)

Named(lines) ==
  LET named[n \in 0 .. Len(lines)] ==
        IF n = 0 THEN <<>>
        ELSE LET name == Trim(Trim(lines[n], {0}), {CR, 32})   before == named[n - 1]
             IN IF name # <<>> THEN Append(before, name) ELSE before
  IN named

ListDistros(bytes) ==
  LET text == Decode(bytes)
      lines == Split(text)[Len(text)]
  IN Named(lines)[Len(lines)]

ReadDistros ==
  \E distros \in SeqOf(SeqOf(Letters, Short) \ {<<>>}, Short), wide \in BOOLEAN :
    LET listing == Listing(distros)[Len(distros)]
    IN /\ wide \/ \A i \in DOMAIN listing : listing[i] < 128
       /\ Call("distros", <<distros, wide>>,
               ListDistros(IF wide THEN EncodeUTF16(listing) ELSE listing))

-----------------------------------------------------------------------------
(* WindowsPathToWSL, on characters.  The pattern for UNC paths gives back  *)
(* what it matches, as the test for a leading slash does.                  *)
Characters == {"c", "C", ":", "/", "\\"}
Normalized(path) == [i \in DOMAIN path |-> IF path[i] = "\\" THEN "/" ELSE path[i]]
Lower(char) == IF char = "C" THEN "c" ELSE char

(* Mutant of HasDrive: C:name counts as an absolute path. *)
HasDriveLetter(path) == Len(path) >= 3 /\ path[2] = ":"

HasDrive(path) == Len(path) >= 3 /\ path[2] = ":" /\ path[3] = "/"

NoPath == <<"error">>

WindowsPathToWSL(path) ==
  LET p == Normalized(path)
  IN IF HasDrive(p) THEN <<"/", "mnt", "/", Lower(p[1])>> \o SubSeq(p, 3, Len(p))
     ELSE IF p # <<>> /\ p[1] = "/" THEN p
     ELSE NoPath

ConvertPath == \E path \in SeqOf(Characters, Size + 1) :
                 Call("path", path, WindowsPathToWSL(path))

-----------------------------------------------------------------------------
(* trayExecutable, on the words of a file name between hyphens. *)

(* Mutant of Inner: -cli only at the end. *)
InnerNever(name) == {}

Inner(name) == {i \in 2 .. Len(name) - 1 : name[i] = "cli"}

TrayName(name) ==
  IF Inner(name) # {} THEN RemoveAt(name, CHOOSE i \in Inner(name) : \A j \in Inner(name) : i <= j)
  ELSE IF Len(name) > 1 /\ Last(name) = "cli" THEN Front(name)
  ELSE name

TrayExecutable(name, existing) ==
  IF TrayName(name) \in existing THEN TrayName(name) ELSE name

FindTray ==
  \E tray \in SeqOf({"wsl", "cli", "x64"}, Size), k \in 1 .. Size + 1, there \in BOOLEAN :
    /\ tray # <<>> /\ k <= Len(tray) + 1
    /\ LET cli == InsertAt(tray, k, "cli")
       IN Call("tray", <<tray, k, there>>, TrayExecutable(cli, IF there THEN {tray, cli} ELSE {cli}))

-----------------------------------------------------------------------------
(* The block of startScript in /etc/wsl.conf, and the awk program that     *)
(* takes it out, both to save and to restore the file.                     *)
Block == <<"", "begin", "network", "generate", "end">>

WithBlock(conf) == IF Contains(conf, "begin") THEN conf ELSE conf \o Block

(* Mutant of Skips: the end of the block is not seen. *)
SkipsOn(skipping, line) == skipping \/ line = "begin"

Skips(skipping, line) == line = "begin" \/ (skipping /\ line # "end")

Awk(conf) ==
  LET acc[n \in 0 .. Len(conf)] ==
        IF n = 0 THEN [skip |-> FALSE, out |-> <<>>]
        ELSE LET line == conf[n]   before == acc[n - 1]   skip == Skips(before.skip, line)
             IN [skip |-> skip,
                 out |-> IF skip \/ line = "end" THEN before.out ELSE Append(before.out, line)]
  IN acc

WithoutBlock(conf) == Awk(conf)[Len(conf)].out

(* Start on a file with or without the block of an earlier Start, lines    *)
(* that the user adds, and Stop, with or without the copy made by Start.   *)
Restored(before, added, copy) ==
  WithoutBlock(IF copy THEN WithoutBlock(before) ELSE WithBlock(before) \o added)

RestoreConf ==
  \E user, added \in SeqOf({"user", "", "network"}, Short), again, copy \in BOOLEAN :
    Call("conf", <<user, added, again, copy>>,
         Restored(IF again THEN WithBlock(user) ELSE user, added, copy))

-----------------------------------------------------------------------------
(* eth0_gateway of stopScript: the gateway that Stop guesses from eth0's   *)
(* address, for the default route or the resolver it finds not saved.  An  *)
(* address has four digits of W bits, 8 in the code; the shell computes in *)
(* twice the width.  A shift is a product or a quotient.                   *)
Bits == 4 * W

Power[n \in 0 .. 2 * Bits] == IF n = 0 THEN 1 ELSE 2 * Power[n - 1]

Ones(n) == Power[n] - 1

Bit(x, n) == (x \div Power[n]) % 2

(* The bits up to n that two numbers share. *)
Shared(x, y) ==
  LET sum[n \in 0 .. 2 * Bits] ==
        IF n = 0 THEN 0
        ELSE sum[n - 1] + Power[n - 1] * (Bit(x, n - 1) * Bit(y, n - 1))
  IN sum

And(x, y) == Shared(x, y)[2 * Bits]

Number(digits) ==
  digits[1] * Power[3 * W] + digits[2] * Power[2 * W] + digits[3] * Power[W] + digits[4]

(* Mutant of Mask: the shift is one too long. *)
MaskLong(prefix) == And((Ones(Bits) * Power[Bits + 1 - prefix]) % Power[2 * Bits], Ones(Bits))

Mask(prefix) == And((Ones(Bits) * Power[Bits - prefix]) % Power[2 * Bits], Ones(Bits))

Gateway(digits, prefix) ==
  LET gw == And(Number(digits), Mask(prefix)) + 1
  IN [k \in 1 .. 4 |-> And(gw \div Power[(4 - k) * W], Ones(W))]

GuessGateway ==
  \E digits \in [1 .. 4 -> 0 .. Ones(W)], prefix \in 0 .. Bits :
    Call("gateway", <<digits, prefix>>, Gateway(digits, prefix))

Next ==
  /\ done.call = "none"
  /\ \/ ChooseSuffixes \/ ChooseAsset \/ ReadDistros
     \/ ConvertPath \/ FindTray \/ RestoreConf \/ GuessGateway

Spec == Init /\ [][Next]_done

-----------------------------------------------------------------------------
Is(name) == done.call = name

(* Of the usable suffixes the first of each name is kept, in their order,  *)
(* and doing it again changes nothing.                                     *)
Firsts(values) ==
  {i \in DOMAIN values :
     Usable(values[i]) /\ \A j \in 1 .. i - 1 : ~(Usable(values[j]) /\ values[j].key = values[i].key)}

AreAt(result, values, places) ==
  \E from \in [DOMAIN result -> places] :
    /\ \A k, l \in DOMAIN result : k < l => from[k] < from[l]
    /\ \A i \in places : \E k \in DOMAIN result : from[k] = i
    /\ \A k \in DOMAIN result : result[k] = values[from[k]]

SuffixesAreNormal ==
  Is("suffixes") =>
    LET configured == \E i \in DOMAIN done.arg[1] : Usable(done.arg[1][i])
        values == done.arg[IF configured THEN 1 ELSE 2]
    IN /\ AreAt(done.result, values, Firsts(values))
       /\ NormalizeSearchSuffixes(done.result) = done.result

(* How well a name suits: the plain name, one with the machine's           *)
(* architecture, any other of the system, no name for it at all.           *)
Rank(n, binary, arch) == IF n \in Plain(binary, arch) THEN 1
                         ELSE IF ~({binary, System(binary)} \subseteq n) THEN 4
                         ELSE IF arch \in n THEN 2 ELSE 3

(* In whatever order a release lists its assets, none of them suits better *)
(* than the one that is taken, and none that suits as well comes before    *)
(* it.  So a build for another architecture is taken only when there is    *)
(* none for the machine's, but then it may be taken rather than one that   *)
(* names no architecture, if it comes first.                               *)
AssetIsBest ==
  Is("asset") =>
    LET assets == done.arg[1]
        i == done.result
        R(j) == Rank(assets[j], done.arg[2], done.arg[3])
    IN IF i = 0 THEN \A j \in DOMAIN assets : R(j) = 4
       ELSE /\ R(i) # 4
            /\ \A j \in DOMAIN assets : R(i) <= R(j) /\ (j < i => R(i) < R(j))

(* The distros are read from the UTF-16 that wsl.exe writes and from plain *)
(* ASCII, also names with letters whose bytes are those of a line feed.    *)
(* But the first letter of a list in UTF-16 must have a high byte of 0.    *)
DistrosAreRead ==
  Is("distros") =>
    LET distros == done.arg[1]
    IN \/ done.result = distros
       \/ done.arg[2] /\ distros # <<>> /\ distros[1][1] >= 256

(* A converted path is absolute, has no backslash, and is not changed by   *)
(* another conversion; a relative one and one relative to a drive are      *)
(* refused.                                                                *)
PathsAreAbsolute ==
  Is("path") /\ done.result # NoPath =>
    /\ done.result[1] = "/" /\ ~Contains(done.result, "\\")
    /\ WindowsPathToWSL(done.result) = done.result
    /\ Normalized(done.arg)[1] # "/" => done.result[5] = "/"

(* install-service finds the tray next to the command line, wherever in    *)
(* its name the cli is, but not at the beginning; and registers itself     *)
(* where there is no tray.                                                 *)
TrayIsFound ==
  Is("tray") =>
    LET tray == done.arg[1]   k == done.arg[2]   there == done.arg[3]
    IN ~Contains(tray, "cli") /\ k > 1 =>
         done.result = IF there THEN tray ELSE InsertAt(tray, k, "cli")

(* What Stop leaves in /etc/wsl.conf is what the user had in it; without   *)
(* the copy also what was added since.  Nothing is left of the block but   *)
(* perhaps the empty line before it.  With the copy what was added is lost.*)
UserLinesAreKept ==
  Is("conf") =>
    LET user == done.arg[1]   added == done.arg[2]   copy == done.arg[4]
    IN \E blank \in {<<>>, <<"">>} :
         done.result = user \o blank \o (IF copy THEN <<>> ELSE added)

(* The address Stop takes for eth0's gateway is the first one after the    *)
(* network's own, whatever the prefix; except for a /32, which has no      *)
(* other address.                                                          *)
GatewayIsFirstHost ==
  Is("gateway") =>
    LET prefix  == done.arg[2]
        Part(n) == n \div Power[Bits - prefix]
        guess   == Number(done.result)
    IN prefix < Bits => /\ Part(guess) = Part(Number(done.arg[1]))
                        /\ guess % Power[Bits - prefix] = 1
=============================================================================
