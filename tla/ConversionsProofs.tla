--------------------------- MODULE ConversionsProofs ---------------------------
(***************************************************************************)
(* Proofs about what the conversions compute, for inputs of any length.    *)
(***************************************************************************)
EXTENDS Conversions, SequenceTheorems, WellFoundedInduction, TLAPS

(* An input is a sequence. *)
LEMMA SeqOfIsSeq ==
  ASSUME NEW S, NEW n \in Nat, NEW s \in SeqOf(S, n)
  PROVE  s \in Seq(S)
<1>1. PICK m \in 0 .. n : s \in [1 .. m -> S]
  BY DEF SeqOf
<1> QED
  BY <1>1

(* What a concatenation is. *)
LEMMA ConcatIs ==
  ASSUME NEW S, NEW s \in Seq(S), NEW t \in Seq(S)
  PROVE  /\ s \o t \in Seq(S) /\ Len(s \o t) = Len(s) + Len(t)
         /\ \A i \in 1 .. Len(s) : (s \o t)[i] = s[i]
         /\ \A i \in Len(s) + 1 .. Len(s) + Len(t) : (s \o t)[i] = t[i - Len(s)]
<1>1. Len(s) \in Nat /\ Len(t) \in Nat
  BY LenProperties
<1>2. /\ s \o t \in Seq(S) /\ Len(s \o t) = Len(s) + Len(t)
      /\ \A i \in 1 .. Len(s) + Len(t) :
           (s \o t)[i] = IF i <= Len(s) THEN s[i] ELSE t[i - Len(s)]
  BY ConcatProperties
<1> QED
  BY <1>1, <1>2

(* Each action leaves its own call in done. *)
LEMMA CallOf ==
  /\ ChooseSuffixes => done'.call = "suffixes"
  /\ ChooseAsset => done'.call = "asset"
  /\ ReadDistros => done'.call = "distros"
  /\ ConvertPath => done'.call = "path"
  /\ FindTray => done'.call = "tray"
  /\ RestoreConf => done'.call = "conf"
  /\ GuessGateway => done'.call = "gateway"
<1>1. ASSUME NEW name, NEW arg, NEW result, Call(name, arg, result)
      PROVE  done'.call = name
  BY <1>1 DEF Call
<1>2. ChooseSuffixes => done'.call = "suffixes"
  BY <1>1 DEF ChooseSuffixes
<1>3. ChooseAsset => done'.call = "asset"
  BY <1>1 DEF ChooseAsset
<1>4. ReadDistros => done'.call = "distros"
  BY <1>1 DEF ReadDistros
<1>5. ConvertPath => done'.call = "path"
  BY <1>1 DEF ConvertPath
<1>6. FindTray => done'.call = "tray"
  BY <1>1 DEF FindTray
<1>7. RestoreConf => done'.call = "conf"
  BY <1>1 DEF RestoreConf
<1>8. GuessGateway => done'.call = "gateway"
  BY <1>1 DEF GuessGateway
<1> QED
  BY <1>2, <1>3, <1>4, <1>5, <1>6, <1>7, <1>8

-----------------------------------------------------------------------------
(* WindowsPathToWSL *)

LEMMA NormalizedIs ==
  ASSUME NEW S, {"c", "/", "mnt"} \subseteq S, NEW path \in Seq(S)
  PROVE  /\ Normalized(path) \in Seq(S)
         /\ Len(Normalized(path)) = Len(path)
         /\ \A i \in 1 .. Len(path) :
              Normalized(path)[i] = IF path[i] = "\\" THEN "/" ELSE path[i]
         /\ ~Contains(Normalized(path), "\\")
<1>1. DOMAIN path = 1 .. Len(path) /\ Len(path) \in Nat
  OBVIOUS
<1>2. Normalized(path) = [i \in 1 .. Len(path) |-> IF path[i] = "\\" THEN "/" ELSE path[i]]
  BY <1>1 DEF Normalized
<1>3. \A i \in 1 .. Len(path) : path[i] \in S
  OBVIOUS
<1>4. Normalized(path) \in Seq(S) /\ Len(Normalized(path)) = Len(path)
  <2>1. Normalized(path) \in [1 .. Len(path) -> S]
    BY <1>2, <1>3
  <2> HIDE <1>2
  <2> QED
    BY <1>1, <2>1
<1> QED
  BY <1>2, <1>4 DEF Contains

(* What begins with a slash and has no backslash is left as it is. *)
LEMMA AbsoluteIsKept ==
  ASSUME NEW S, {"c", "/", "mnt"} \subseteq S, NEW path \in Seq(S), path # <<>>, path[1] = "/", ~HasDrive(path),
         ~Contains(path, "\\")
  PROVE  WindowsPathToWSL(path) = path
<1>1. \A i \in 1 .. Len(path) : path[i] # "\\"
  BY DEF Contains
<1>2. Normalized(path) = path
  <2>1. DOMAIN path = 1 .. Len(path)
    OBVIOUS
  <2>2. Normalized(path) = [i \in DOMAIN path |-> path[i]]
    BY <1>1, <2>1 DEF Normalized
  <2> QED
    BY <2>2
<1> QED
  BY <1>2 DEF WindowsPathToWSL

LEMMA PathIsAbsolute ==
  ASSUME NEW S, {"c", "/", "mnt"} \subseteq S, NEW path \in Seq(S), WindowsPathToWSL(path) # NoPath
  PROVE  LET result == WindowsPathToWSL(path)
         IN  /\ result[1] = "/" /\ ~Contains(result, "\\")
             /\ WindowsPathToWSL(result) = result
             /\ Normalized(path)[1] # "/" => result[5] = "/"
<1> DEFINE p == Normalized(path)
           result == WindowsPathToWSL(path)
<1>1. p \in Seq(S) /\ ~Contains(p, "\\")
  BY NormalizedIs
<1> HIDE DEF p
<1>2. CASE HasDrive(p)
  <2>1. result = <<"/", "mnt", "/", Lower(p[1])>> \o SubSeq(p, 3, Len(p))
    BY <1>2 DEF WindowsPathToWSL, p
  <2>2. Len(p) >= 3 /\ p[3] = "/"
    BY <1>2 DEF HasDrive
  <2>3. Lower(p[1]) \in S /\ Lower(p[1]) # "\\"
    <3>1. p[1] \in S /\ p[1] # "\\"
      BY <1>1, <2>2 DEF Contains
    <3> QED
      BY <3>1 DEF Lower
  <2>4. /\ SubSeq(p, 3, Len(p)) \in Seq(S)
        /\ Len(SubSeq(p, 3, Len(p))) = Len(p) - 2
        /\ \A i \in 1 .. Len(p) - 2 : SubSeq(p, 3, Len(p))[i] = p[i + 2]
    BY <1>1, <2>2
  <2>5. /\ result \in Seq(S) /\ Len(result) = Len(p) + 2
        /\ result[1] = "/" /\ result[2] = "mnt" /\ result[3] = "/"
        /\ result[4] = Lower(p[1])
        /\ \A i \in 5 .. Len(result) : result[i] = p[i - 2]
    <3> DEFINE head == <<"/", "mnt", "/", Lower(p[1])>>
               tail == SubSeq(p, 3, Len(p))
    <3>1. /\ head \in Seq(S) /\ Len(head) = 4
          /\ head[1] = "/" /\ head[2] = "mnt" /\ head[3] = "/" /\ head[4] = Lower(p[1])
      BY <2>3
    <3>2. tail \in Seq(S) /\ Len(tail) = Len(p) - 2
          /\ \A i \in 1 .. Len(tail) : tail[i] = p[i + 2]
      BY <2>4
    <3>3. result = head \o tail /\ Len(p) \in Nat
      BY <1>1, <2>1
    <3> HIDE DEF head, tail, result
    <3>4. Len(tail) \in Nat
      BY <3>2, LenProperties
    <3>5. /\ result \in Seq(S) /\ Len(result) = 4 + Len(tail)
          /\ \A i \in 1 .. 4 : result[i] = head[i]
          /\ \A i \in 4 + 1 .. 4 + Len(tail) : result[i] = tail[i - 4]
      <4>1. /\ head \o tail \in Seq(S) /\ Len(head \o tail) = Len(head) + Len(tail)
            /\ \A i \in 1 .. Len(head) : (head \o tail)[i] = head[i]
            /\ \A i \in Len(head) + 1 .. Len(head) + Len(tail) :
                 (head \o tail)[i] = tail[i - Len(head)]
        BY <3>1, <3>2, ConcatIs, Zenon
      <4> QED
        BY <3>1, <3>3, <4>1, Zenon
    <3>6. \A i \in 1 .. 4 : result[i] = head[i]
      BY <3>5
    <3>7. \A i \in 5 .. Len(result) : result[i] = tail[i - 4] /\ i - 4 \in 1 .. Len(tail)
      BY <3>4, <3>5
    <3>8. \A i \in 5 .. Len(result) : result[i] = p[i - 2]
      BY <3>2, <3>7
    <3> QED
      BY <2>2, <3>1, <3>2, <3>3, <3>5, <3>6, <3>8
  <2> HIDE DEF result
  <2>6. ~Contains(result, "\\")
    BY <1>1, <2>2, <2>3, <2>5 DEF Contains
  <2>7. ~HasDrive(result)
    BY <2>5 DEF HasDrive
  <2>8. WindowsPathToWSL(result) = result
    BY <2>2, <2>5, <2>6, <2>7, AbsoluteIsKept
  <2> QED
    BY <1>1, <2>2, <2>5, <2>6, <2>8 DEF result
<1>3. CASE ~HasDrive(p)
  <2>1. result = p /\ p # <<>> /\ p[1] = "/"
    BY <1>3 DEF WindowsPathToWSL, p
  <2> QED
    BY <1>1, <1>3, <2>1, AbsoluteIsKept DEF p
<1> QED
  BY <1>2, <1>3

(* For paths of any length: what WindowsPathToWSL returns without an error *)
(* is absolute, has no backslash and is not changed by another call, and a *)
(* path relative to the directory or to a drive is refused.                *)
THEOREM PathsStayAbsolute == Spec => []PathsAreAbsolute
<1>1. Init => PathsAreAbsolute
  BY DEF Init, PathsAreAbsolute, Is
<1>2. PathsAreAbsolute /\ [Next]_done => PathsAreAbsolute'
  <2> SUFFICES ASSUME PathsAreAbsolute, [Next]_done
               PROVE  PathsAreAbsolute'
    OBVIOUS
  <2>1. CASE ConvertPath
    <3>1. PICK path \in SeqOf(Characters, Size + 1) : Call("path", path, WindowsPathToWSL(path))
      BY <2>1 DEF ConvertPath
    <3> DEFINE S == Characters \union {"mnt"}
    <3>2. path \in Seq(S) /\ {"c", "/", "mnt"} \subseteq S
      <4>1. path \in Seq(Characters)
        BY SeqOfIsSeq, ConversionsAssumption
      <4> QED
        BY <4>1 DEF Characters
    <3> HIDE DEF S
    <3>3. WindowsPathToWSL(path) # NoPath =>
            /\ WindowsPathToWSL(path)[1] = "/" /\ ~Contains(WindowsPathToWSL(path), "\\")
            /\ WindowsPathToWSL(WindowsPathToWSL(path)) = WindowsPathToWSL(path)
            /\ Normalized(path)[1] # "/" => WindowsPathToWSL(path)[5] = "/"
      BY <3>2, PathIsAbsolute
    <3>4. done'.arg = path /\ done'.result = WindowsPathToWSL(path)
      BY <3>1 DEF Call
    <3> QED
      BY <3>3, <3>4 DEF PathsAreAbsolute
  <2>2. CASE Next /\ ~ConvertPath
    BY <2>2, CallOf DEF Next, PathsAreAbsolute, Is
  <2>3. CASE UNCHANGED done
    BY <2>3 DEF PathsAreAbsolute, Is
  <2> QED
    BY <2>1, <2>2, <2>3
<1> QED
  BY <1>1, <1>2, PTL DEF Spec

-----------------------------------------------------------------------------
(* findAsset *)

LEMMA MinIs ==
  ASSUME NEW I, I \subseteq Nat, I # {}
  PROVE  Min(I) \in I /\ \A i \in I : Min(I) <= i
<1>1. PICK x \in I : \A y \in I : ~(<<y, x>> \in OpToRel(<, Nat))
  BY NatLessThanWellFounded, WFMin
<1>2. \A i, j \in Nat : i < j => <<i, j>> \in OpToRel(<, Nat)
  BY DEF OpToRel
<1>3. \A y \in I : x <= y
  <2> SUFFICES ASSUME NEW y \in I
               PROVE  x <= y
    OBVIOUS
  <2>1. x \in Nat /\ y \in Nat /\ ~(y < x)
    BY <1>1, <1>2
  <2> QED
    BY <2>1
<1> QED
  BY <1>3 DEF Min

(* The place of the first name of a set, 0 when there is none.             *)
LEMMA PlaceIs ==
  ASSUME NEW S, NEW assets \in Seq(S), NEW wanted
  PROVE  LET place == SelectInSeq(assets, LAMBDA n : n \in wanted)
         IN  \/ place = 0 /\ \A j \in DOMAIN assets : assets[j] \notin wanted
             \/ /\ place # 0 /\ place \in DOMAIN assets /\ assets[place] \in wanted
                /\ \A j \in DOMAIN assets : j < place => assets[j] \notin wanted
<1> DEFINE place == SelectInSeq(assets, LAMBDA n : n \in wanted)
           I == {i \in 1 .. Len(assets) : assets[i] \in wanted}
<1>1. DOMAIN assets = 1 .. Len(assets) /\ Len(assets) \in Nat
  OBVIOUS
<1>2. place = IF I # {} THEN Min(I) ELSE 0
  BY DEF SelectInSeq
<1> HIDE DEF place
<1>3. ASSUME I # {}
      PROVE  place \in I /\ \A j \in I : place <= j
  <2>1. I \subseteq Nat
    BY <1>1
  <2> HIDE DEF I
  <2> QED
    BY <1>2, <1>3, <2>1, MinIs
<1>4. CASE I = {}
  <2>1. place = 0 /\ \A j \in DOMAIN assets : assets[j] \notin wanted
    BY <1>1, <1>2, <1>4
  <2> QED
    BY <2>1 DEF place
<1>5. CASE I # {}
  <2>1. place \in 1 .. Len(assets) /\ assets[place] \in wanted
    BY <1>3, <1>5
  <2>2. \A j \in 1 .. Len(assets) : j < place => j \notin I
    BY <1>3, <1>5, <2>1
  <2>3. \A j \in DOMAIN assets : j < place => assets[j] \notin wanted
    BY <1>1, <2>2
  <2>4. place # 0 /\ place \in DOMAIN assets
    BY <1>1, <2>1
  <2> HIDE DEF I
  <2> QED
    BY <2>1, <2>3, <2>4 DEF place
<1> QED
  BY <1>4, <1>5

(* What findAsset takes is the first name that one of the loops looks for, *)
(* and no loop before that one finds any.                                  *)
LEMMA FoundIs ==
  ASSUME NEW assets \in Seq(Names), NEW binary, NEW arch
  PROVE  LET wanted == Preferences(binary, arch)
             i == FindAsset(assets, binary, arch)
         IN  \/ i = 0 /\ \A k \in 1 .. 3 : \A j \in DOMAIN assets : assets[j] \notin wanted[k]
             \/ i # 0 /\ \E k \in 1 .. 3 :
                  /\ i \in DOMAIN assets /\ assets[i] \in wanted[k]
                  /\ \A j \in DOMAIN assets : j < i => assets[j] \notin wanted[k]
                  /\ \A l \in 1 .. k - 1 : \A j \in DOMAIN assets : assets[j] \notin wanted[l]
<1> DEFINE wanted == Preferences(binary, arch)
           Place(k) == SelectInSeq(assets, LAMBDA n : n \in wanted[k])
           found == {k \in DOMAIN wanted : Place(k) # 0}
<1>1. DOMAIN wanted = 1 .. 3
  BY DEF Preferences
<1>2. FindAsset(assets, binary, arch) = IF found = {} THEN 0 ELSE Place(Min(found))
  BY DEF FindAsset
<1> HIDE DEF wanted
<1>3. \A k : \/ Place(k) = 0 /\ \A j \in DOMAIN assets : assets[j] \notin wanted[k]
             \/ /\ Place(k) # 0 /\ Place(k) \in DOMAIN assets /\ assets[Place(k)] \in wanted[k]
                /\ \A j \in DOMAIN assets : j < Place(k) => assets[j] \notin wanted[k]
  BY PlaceIs
<1> HIDE DEF Place
<1>4. found \subseteq 1 .. 3 /\ \A k \in 1 .. 3 : k \in found <=> Place(k) # 0
  BY <1>1
<1> HIDE DEF found
<1>5. CASE found = {}
  BY <1>2, <1>3, <1>4, <1>5 DEF wanted
<1>6. CASE found # {}
  <2> DEFINE first == Min(found)
  <2>1. found \subseteq Nat
    BY <1>4
  <2>2. first \in found /\ \A k \in found : first <= k
    BY <1>6, <2>1, MinIs
  <2>3. FindAsset(assets, binary, arch) = Place(first)
    BY <1>2, <1>6
  <2> HIDE DEF first
  <2>4. first \in 1 .. 3 /\ \A l \in 1 .. first - 1 : l \in 1 .. 3 /\ l \notin found
    BY <1>4, <2>2
  <2>5. Place(first) # 0 /\ \A l \in 1 .. first - 1 : Place(l) = 0
    BY <1>4, <2>2, <2>4
  <2> QED
    BY <1>3, <2>3, <2>4, <2>5 DEF wanted
<1> QED
  BY <1>5, <1>6

(* What each loop looks for, in terms of how well a name suits.            *)
LEMMA RankIs ==
  ASSUME NEW binary \in Binaries, NEW arch \in Arches, NEW n \in Names
  PROVE  LET wanted == Preferences(binary, arch)
         IN  /\ n \in wanted[1] <=> Rank(n, binary, arch) = 1
             /\ n \in wanted[2] => Rank(n, binary, arch) \in {1, 2}
             /\ Rank(n, binary, arch) = 2 => n \in wanted[2]
             /\ n \in wanted[3] => Rank(n, binary, arch) \in {1, 2, 3}
             /\ Rank(n, binary, arch) \in {2, 3} => n \in wanted[3]
             /\ Rank(n, binary, arch) \in 1 .. 4
<1> DEFINE wanted == Preferences(binary, arch)
<1>1. /\ wanted[1] = Plain(binary, arch)
      /\ wanted[2] = {m \in Names : Words(binary, arch) \subseteq m}
      /\ wanted[3] = {m \in Names : {binary, System(binary)} \subseteq m}
  BY DEF Preferences
<1>2. Words(binary, arch) \subseteq n <=> {binary, System(binary)} \subseteq n /\ arch \in n
  BY DEF Words
<1> HIDE DEF wanted
<1> QED
  BY <1>1, <1>2 DEF Rank, wanted

LEMMA AssetIs ==
  ASSUME NEW assets \in Seq(Names), NEW binary \in Binaries, NEW arch \in Arches
  PROVE  LET i == FindAsset(assets, binary, arch)
             R(j) == Rank(assets[j], binary, arch)
         IN IF i = 0 THEN \A j \in DOMAIN assets : R(j) = 4
            ELSE /\ R(i) # 4
                 /\ \A j \in DOMAIN assets : R(i) <= R(j) /\ (j < i => R(i) < R(j))
<1> DEFINE wanted == Preferences(binary, arch)
           i == FindAsset(assets, binary, arch)
           R(j) == Rank(assets[j], binary, arch)
<1>1. \A j \in DOMAIN assets : assets[j] \in Names
  OBVIOUS
<1>2. \A j \in DOMAIN assets :
        /\ assets[j] \in wanted[1] <=> R(j) = 1
        /\ assets[j] \in wanted[2] => R(j) \in {1, 2}
        /\ R(j) = 2 => assets[j] \in wanted[2]
        /\ assets[j] \in wanted[3] => R(j) \in {1, 2, 3}
        /\ R(j) \in {2, 3} => assets[j] \in wanted[3]
        /\ R(j) \in 1 .. 4
  BY <1>1, RankIs
<1> HIDE DEF wanted
<1>3. \/ i = 0 /\ \A k \in 1 .. 3 : \A j \in DOMAIN assets : assets[j] \notin wanted[k]
      \/ i # 0 /\ \E k \in 1 .. 3 :
           /\ i \in DOMAIN assets /\ assets[i] \in wanted[k]
           /\ \A j \in DOMAIN assets : j < i => assets[j] \notin wanted[k]
           /\ \A l \in 1 .. k - 1 : \A j \in DOMAIN assets : assets[j] \notin wanted[l]
  BY FoundIs DEF wanted
<1> HIDE DEF i, R
<1>4. CASE i = 0
  <2>1. \A j \in DOMAIN assets : R(j) = 4
    BY <1>2, <1>3, <1>4
  <2> QED
    BY <1>4, <2>1 DEF i, R
<1>5. CASE i # 0
  <2>1. PICK k \in 1 .. 3 :
          /\ i \in DOMAIN assets /\ assets[i] \in wanted[k]
          /\ \A j \in DOMAIN assets : j < i => assets[j] \notin wanted[k]
          /\ \A l \in 1 .. k - 1 : \A j \in DOMAIN assets : assets[j] \notin wanted[l]
    BY <1>3, <1>5
  <2>2. R(i) = k /\ \A j \in DOMAIN assets : R(j) \in k .. 4
    <3>1. CASE k = 1
      BY <1>2, <2>1, <3>1
    <3>2. CASE k = 2
      <4>1. \A j \in DOMAIN assets : assets[j] \notin wanted[1]
        BY <2>1, <3>2
      <4> QED
        BY <1>2, <2>1, <3>2, <4>1
    <3>3. CASE k = 3
      <4>1. \A j \in DOMAIN assets : assets[j] \notin wanted[1] /\ assets[j] \notin wanted[2]
        BY <2>1, <3>3
      <4> QED
        BY <1>2, <2>1, <3>3, <4>1
    <3> QED
      BY <3>1, <3>2, <3>3
  <2>3. \A j \in DOMAIN assets : j < i => R(j) # k
    BY <1>2, <2>1
  <2>4. R(i) # 4 /\ \A j \in DOMAIN assets : R(i) <= R(j) /\ (j < i => R(i) < R(j))
    BY <2>2, <2>3
  <2> QED
    BY <1>5, <2>4 DEF i, R
<1> QED
  BY <1>4, <1>5

(* For a release with any number of assets in any order: findAsset takes   *)
(* the first of those that suit best, so one for another architecture only *)
(* when there is none for the machine's.                                   *)
THEOREM AssetAlwaysBest == Spec => []AssetIsBest
<1>1. Init => AssetIsBest
  BY DEF Init, AssetIsBest, Is
<1>2. AssetIsBest /\ [Next]_done => AssetIsBest'
  <2> SUFFICES ASSUME AssetIsBest, [Next]_done
               PROVE  AssetIsBest'
    OBVIOUS
  <2>1. CASE ChooseAsset
    <3>1. PICK assets \in SeqOf(Names, Size), binary \in Binaries, arch \in Arches :
            Call("asset", <<assets, binary, arch>>, FindAsset(assets, binary, arch))
      BY <2>1 DEF ChooseAsset
    <3>2. assets \in Seq(Names)
      BY SeqOfIsSeq, ConversionsAssumption
    <3>3. /\ done'.arg = <<assets, binary, arch>>
          /\ done'.result = FindAsset(assets, binary, arch)
      BY <3>1 DEF Call
    <3>4. done'.arg[1] = assets /\ done'.arg[2] = binary /\ done'.arg[3] = arch
      BY <3>3
    <3> QED
      BY <3>2, <3>3, <3>4, AssetIs DEF AssetIsBest
  <2>2. CASE Next /\ ~ChooseAsset
    BY <2>2, CallOf DEF Next, AssetIsBest, Is
  <2>3. CASE UNCHANGED done
    BY <2>3 DEF AssetIsBest, Is
  <2> QED
    BY <2>1, <2>2, <2>3
<1> QED
  BY <1>1, <1>2, PTL DEF Spec

-----------------------------------------------------------------------------
(* trayExecutable *)

(* What InsertAt and then RemoveAt at the same place make of a name. *)
LEMMA InsertedIs ==
  ASSUME NEW S, NEW tray \in Seq(S), NEW e \in S, NEW k \in 1 .. Len(tray) + 1
  PROVE  LET cli == InsertAt(tray, k, e)
         IN  /\ cli \in Seq(S) /\ Len(cli) = Len(tray) + 1 /\ cli[k] = e
             /\ \A i \in 1 .. k - 1 : cli[i] = tray[i]
             /\ \A i \in k + 1 .. Len(tray) + 1 : cli[i] = tray[i - 1]
<1> DEFINE head == SubSeq(tray, 1, k - 1)
           tail == SubSeq(tray, k, Len(tray))
           front == head \o <<e>>
           cli == InsertAt(tray, k, e)
<1>1. Len(tray) \in Nat /\ k \in Nat
  OBVIOUS
<1>2. /\ head \in Seq(S) /\ Len(head) = k - 1
      /\ \A i \in 1 .. k - 1 : head[i] = tray[i]
  BY <1>1
<1>3. /\ tail \in Seq(S) /\ Len(tail) = Len(tray) + 1 - k
      /\ \A i \in 1 .. Len(tray) + 1 - k : tail[i] = tray[i + k - 1]
  BY <1>1
<1>4. cli = front \o tail
  BY DEF InsertAt
<1> HIDE DEF head, tail, cli
<1>5. /\ front \in Seq(S) /\ Len(front) = k
      /\ \A i \in 1 .. k - 1 : front[i] = tray[i]
      /\ front[k] = e
  BY <1>1, <1>2
<1> HIDE DEF front
<1>6. /\ front \o tail \in Seq(S) /\ Len(front \o tail) = Len(front) + Len(tail)
      /\ \A i \in 1 .. Len(front) : (front \o tail)[i] = front[i]
      /\ \A i \in Len(front) + 1 .. Len(front) + Len(tail) :
           (front \o tail)[i] = tail[i - Len(front)]
  BY <1>3, <1>5, ConcatIs, Zenon
<1>7. /\ cli \in Seq(S) /\ Len(cli) = Len(front) + Len(tail)
      /\ \A i \in 1 .. Len(front) : cli[i] = front[i]
      /\ \A i \in Len(front) + 1 .. Len(front) + Len(tail) : cli[i] = tail[i - Len(front)]
  BY <1>4, <1>6, Zenon
<1>8. Len(cli) = Len(tray) + 1
  BY <1>1, <1>3, <1>5, <1>7
<1>9. cli[k] = e /\ \A i \in 1 .. k - 1 : cli[i] = tray[i]
  BY <1>1, <1>5, <1>7
<1>10. \A i \in k + 1 .. Len(tray) + 1 : cli[i] = tray[i - 1]
  <2> SUFFICES ASSUME NEW i \in k + 1 .. Len(tray) + 1
               PROVE  cli[i] = tray[i - 1]
    OBVIOUS
  <2>1. i \in Len(front) + 1 .. Len(front) + Len(tail) /\ i - k \in 1 .. Len(tray) + 1 - k
    BY <1>1, <1>3, <1>5
  <2>2. cli[i] = tail[i - k] /\ tail[i - k] = tray[(i - k) + k - 1]
    BY <1>3, <1>5, <1>7, <2>1
  <2>3. (i - k) + k - 1 = i - 1
    BY <1>1
  <2> QED
    BY <2>2, <2>3
<1> QED
  BY <1>7, <1>8, <1>9, <1>10 DEF cli

LEMMA TrayNameIs ==
  ASSUME NEW S, "cli" \in S, NEW tray \in Seq(S), ~Contains(tray, "cli"),
         NEW k \in 2 .. Len(tray) + 1
  PROVE  LET cli == InsertAt(tray, k, "cli") IN TrayName(cli) = tray /\ tray # cli
<1> DEFINE cli == InsertAt(tray, k, "cli")
<1>1. Len(tray) \in Nat /\ k \in Nat /\ k > 1 /\ k <= Len(tray) + 1
  OBVIOUS
<1>2. /\ cli \in Seq(S) /\ Len(cli) = Len(tray) + 1 /\ cli[k] = "cli"
      /\ \A i \in 1 .. k - 1 : cli[i] = tray[i]
      /\ \A i \in k + 1 .. Len(tray) + 1 : cli[i] = tray[i - 1]
  BY <1>1, InsertedIs
<1>3. \A i \in 1 .. Len(tray) : tray[i] # "cli"
  BY DEF Contains
<1> HIDE DEF cli
<1>4. \A i \in 1 .. Len(cli) : cli[i] = "cli" <=> i = k
  <2> SUFFICES ASSUME NEW i \in 1 .. Len(cli), i # k
               PROVE  cli[i] # "cli"
    BY <1>2
  <2>1. CASE i < k
    BY <1>1, <1>2, <1>3, <2>1
  <2>2. CASE i > k
    BY <1>1, <1>2, <1>3, <2>2
  <2> QED
    BY <1>1, <1>2, <2>1, <2>2
<1>5. TrayName(cli) = tray
  <2>1. CASE k <= Len(tray)
    <3> DEFINE head == SubSeq(cli, 1, k - 1)
               tail == SubSeq(cli, k + 1, Len(cli))
    <3>1. Inner(cli) = {k}
      BY <1>1, <1>2, <1>4, <2>1 DEF Inner
    <3>2. TrayName(cli) = head \o tail
      <4>1. (CHOOSE i \in Inner(cli) : \A j \in Inner(cli) : i <= j) = k
        BY <1>1, <3>1
      <4>2. TrayName(cli) = RemoveAt(cli, k)
        BY <3>1, <4>1 DEF TrayName
      <4> QED
        BY <4>2 DEF RemoveAt
    <3>3. /\ head \in Seq(S) /\ Len(head) = k - 1
          /\ \A i \in 1 .. k - 1 : head[i] = tray[i]
      BY <1>1, <1>2
    <3>4. /\ tail \in Seq(S) /\ Len(tail) = Len(tray) + 1 - k
          /\ \A i \in 1 .. Len(tray) + 1 - k : tail[i] = tray[i + k - 1]
      BY <1>1, <1>2
    <3> HIDE DEF head, tail
    <3>5. /\ head \o tail \in Seq(S) /\ Len(head \o tail) = Len(head) + Len(tail)
          /\ \A i \in 1 .. Len(head) : (head \o tail)[i] = head[i]
          /\ \A i \in Len(head) + 1 .. Len(head) + Len(tail) :
               (head \o tail)[i] = tail[i - Len(head)]
      <4>1. head \in Seq(S) /\ tail \in Seq(S)
        BY <3>3, <3>4
      <4> QED
        BY <4>1, ConcatIs, Zenon
    <3> DEFINE result == head \o tail
    <3>6. /\ result \in Seq(S) /\ Len(result) = Len(head) + Len(tail)
          /\ \A i \in 1 .. Len(head) : result[i] = head[i]
          /\ \A i \in Len(head) + 1 .. Len(head) + Len(tail) : result[i] = tail[i - Len(head)]
      BY <3>5
    <3> HIDE DEF result
    <3>7. Len(result) = Len(tray)
      BY <1>1, <3>3, <3>4, <3>6
    <3>8. \A i \in 1 .. Len(result) : result[i] = tray[i]
      <4> SUFFICES ASSUME NEW i \in 1 .. Len(result)
                   PROVE  result[i] = tray[i]
        OBVIOUS
      <4>1. CASE i < k
        BY <1>1, <3>3, <3>6, <4>1
      <4>2. CASE i >= k
        <5>1. i \in Len(head) + 1 .. Len(head) + Len(tail) /\ i - (k - 1) \in 1 .. Len(tray) + 1 - k
          BY <1>1, <3>3, <3>4, <3>7, <4>2
        <5>2. result[i] = tail[i - (k - 1)] /\ tail[i - (k - 1)] = tray[(i - (k - 1)) + k - 1]
          BY <3>3, <3>4, <3>6, <5>1
        <5>3. (i - (k - 1)) + k - 1 = i
          BY <1>1
        <5> QED
          BY <5>2, <5>3
      <4> QED
        BY <1>1, <3>7, <4>1, <4>2
    <3>9. result = tray
      BY <3>6, <3>7, <3>8, SeqEqual
    <3> QED
      BY <3>2, <3>9 DEF result
  <2>2. CASE k = Len(tray) + 1
    <3>1. Inner(cli) = {}
      BY <1>1, <1>2, <1>4, <2>2 DEF Inner
    <3>2. TrayName(cli) = SubSeq(cli, 1, Len(cli) - 1)
      BY <1>1, <1>2, <2>2, <3>1 DEF TrayName, Last, Front
    <3> DEFINE result == SubSeq(cli, 1, Len(cli) - 1)
    <3>3. /\ result \in Seq(S) /\ Len(result) = Len(tray)
          /\ \A i \in 1 .. Len(tray) : result[i] = tray[i]
      BY <1>1, <1>2, <2>2
    <3> HIDE DEF result
    <3>4. result = tray
      BY <3>3, SeqEqual
    <3> QED
      BY <3>2, <3>4 DEF result
  <2> QED
    BY <1>1, <2>1, <2>2
<1>6. tray # cli
  BY <1>1, <1>2
<1> QED
  BY <1>5, <1>6 DEF cli

(* For names of any length: install-service finds the tray next to the     *)
(* command line wherever in its name, but not at its beginning, the cli    *)
(* is, and registers itself where there is no tray.                        *)
THEOREM TrayIsAlwaysFound == Spec => []TrayIsFound
<1>1. Init => TrayIsFound
  BY DEF Init, TrayIsFound, Is
<1>2. TrayIsFound /\ [Next]_done => TrayIsFound'
  <2> SUFFICES ASSUME TrayIsFound, [Next]_done
               PROVE  TrayIsFound'
    OBVIOUS
  <2>1. CASE FindTray
    <3> DEFINE S == {"wsl", "cli", "x64"}
               Cli(tray, k) == InsertAt(tray, k, "cli")
    <3>1. PICK tray \in SeqOf(S, Size), k \in 1 .. Size + 1, there \in BOOLEAN :
            /\ k <= Len(tray) + 1
            /\ Call("tray", <<tray, k, there>>,
                    TrayExecutable(Cli(tray, k), IF there THEN {tray, Cli(tray, k)} ELSE {Cli(tray, k)}))
      BY <2>1 DEF FindTray
    <3>2. tray \in Seq(S) /\ "cli" \in S
      BY SeqOfIsSeq, ConversionsAssumption
    <3>3. /\ done'.arg[1] = tray /\ done'.arg[2] = k /\ done'.arg[3] = there
          /\ done'.result = TrayExecutable(Cli(tray, k), IF there THEN {tray, Cli(tray, k)} ELSE {Cli(tray, k)})
      BY <3>1 DEF Call
    <3> HIDE DEF S
    <3>4. ASSUME ~Contains(tray, "cli"), k > 1
          PROVE  done'.result = IF there THEN tray ELSE Cli(tray, k)
      <4>1. k \in 2 .. Len(tray) + 1
        BY <3>1, <3>2, <3>4, ConversionsAssumption
      <4>2. TrayName(Cli(tray, k)) = tray /\ tray # Cli(tray, k)
        BY <3>2, <3>4, <4>1, TrayNameIs
      <4> QED
        BY <3>3, <4>2 DEF TrayExecutable
    <3> QED
      BY <3>3, <3>4 DEF TrayIsFound
  <2>2. CASE Next /\ ~FindTray
    BY <2>2, CallOf DEF Next, TrayIsFound, Is
  <2>3. CASE UNCHANGED done
    BY <2>3 DEF TrayIsFound, Is
  <2> QED
    BY <2>1, <2>2, <2>3
<1> QED
  BY <1>1, <1>2, PTL DEF Spec

-----------------------------------------------------------------------------
(* Loops.  A loop over data is a recursive function on 0 .. m; what holds   *)
(* after each of its turns is proved by induction, as a set of numbers. *)

(* Induction up to m, on the set of the numbers for which a fact holds. *)
LEMMA Induction ==
  ASSUME NEW m \in Nat, NEW Good, 0 \in Good,
         \A n \in 1 .. m : n - 1 \in Good => n \in Good
  PROVE  \A n \in 0 .. m : n \in Good
<1> DEFINE Bad == (0 .. m) \ Good
<1> SUFFICES ASSUME Bad # {} PROVE FALSE
  OBVIOUS
<1> DEFINE least == Min(Bad)
<1>1. least \in Bad /\ \A i \in Bad : least <= i
  <2>1. Bad \subseteq Nat
    OBVIOUS
  <2> HIDE DEF Bad
  <2> QED
    BY <2>1, MinIs
<1> HIDE DEF least
<1>2. least \in 1 .. m /\ least - 1 \in 0 .. m
  BY <1>1
<1>3. least - 1 \in Good
  BY <1>1, <1>2
<1> QED
  BY <1>1, <1>2, <1>3

(* There is a function that computes from base with a step for each n. *)
LEMMA LoopExists ==
  ASSUME NEW S, NEW base \in S, NEW m \in Nat, NEW step \in [1 .. m -> [S -> S]]
  PROVE  \E f \in [0 .. m -> S] : f[0] = base /\ \A n \in 1 .. m : f[n] = step[n][f[n - 1]]
<1> DEFINE Upto(n) == {f \in [0 .. n -> S] : f[0] = base /\ \A i \in 1 .. n : f[i] = step[i][f[i - 1]]}
           Good == {n \in Nat : Upto(n) # {}}
<1>1. 0 \in Good
  <2>1. [i \in 0 .. 0 |-> base] \in Upto(0)
    OBVIOUS
  <2> QED
    BY <2>1
<1>2. ASSUME NEW n \in 1 .. m, n - 1 \in Good
      PROVE  n \in Good
  <2>1. PICK g : g \in Upto(n - 1)
    BY <1>2
  <2> DEFINE f == [i \in 0 .. n |-> IF i = n THEN step[n][g[n - 1]] ELSE g[i]]
  <2>2. g \in [0 .. n - 1 -> S] /\ g[0] = base /\ \A i \in 1 .. n - 1 : g[i] = step[i][g[i - 1]]
    BY <2>1
  <2>3. step[n][g[n - 1]] \in S
    BY <2>2
  <2>4. f \in [0 .. n -> S]
    BY <2>2, <2>3
  <2>5. f[0] = base
    BY <2>2
  <2>6. ASSUME NEW i \in 1 .. n PROVE f[i] = step[i][f[i - 1]]
    BY <2>2
  <2> HIDE DEF f
  <2>7. n \in Nat /\ Upto(n) # {}
    BY <2>4, <2>5, <2>6
  <2> HIDE DEF Upto
  <2> QED
    BY <2>7
<1>3. m \in Good
  <2>1. \A n \in 1 .. m : n - 1 \in Good => n \in Good
    BY <1>2
  <2> HIDE DEF Good
  <2>2. \A n \in 0 .. m : n \in Good
    BY <1>1, <2>1, Induction
  <2> QED
    BY <2>2
<1> QED
  BY <1>3

(* What each turn keeps in S is there. *)
LEMMA LoopStays ==
  ASSUME NEW S, NEW m \in Nat, NEW loop, loop[0] \in S,
         \A n \in 1 .. m : loop[n - 1] \in S => loop[n] \in S
  PROVE  \A n \in 0 .. m : loop[n] \in S
<1> DEFINE Good == {n \in 0 .. m : loop[n] \in S}
<1>1. 0 \in Good /\ \A n \in 1 .. m : n - 1 \in Good => n \in Good
  OBVIOUS
<1>2. Good \subseteq 0 .. m /\ \A n \in Good : loop[n] \in S
  OBVIOUS
<1> HIDE DEF Good
<1>3. \A n \in 0 .. m : n \in Good
  BY <1>1, Induction
<1> QED
  BY <1>2, <1>3

(* Of some numbers up to m one is the least, and one the greatest. *)
LEMMA LeastIs ==
  ASSUME NEW m \in Nat, NEW I, I \subseteq 1 .. m, I # {}
  PROVE  \E i \in I : \A j \in I : i <= j
<1>1. I \subseteq Nat
  OBVIOUS
<1> QED
  BY <1>1, MinIs

LEMMA GreatestIs ==
  ASSUME NEW m \in Nat, NEW I, I \subseteq 1 .. m, I # {}
  PROVE  \E i \in I : \A j \in I : j <= i
<1> DEFINE J == {i \in 1 .. m : m + 1 - i \in I}
<1>1. \A i \in I : i \in 1 .. m /\ m + 1 - i \in 1 .. m /\ m + 1 - (m + 1 - i) = i
  OBVIOUS
<1>2. \A i \in I : m + 1 - i \in J
  BY <1>1
<1>3. J # {} /\ J \subseteq 1 .. m
  BY <1>2
<1>4. \A j \in J : j \in 1 .. m /\ m + 1 - j \in I
  OBVIOUS
<1> HIDE DEF J
<1>5. PICK j \in J : \A i \in J : j <= i
  BY <1>3, LeastIs
<1>6. \A i \in I : i <= m + 1 - j
  BY <1>1, <1>2, <1>4, <1>5
<1> QED
  BY <1>4, <1>6

(* How a part of a sequence grows by one element. *)
LEMMA SubSeqGrows ==
  ASSUME NEW S, NEW s \in Seq(S), NEW a \in Nat, NEW i \in a + 1 .. Len(s)
  PROVE  /\ SubSeq(s, a + 1, i - 1) \in Seq(S)
         /\ SubSeq(s, a + 1, i) = Append(SubSeq(s, a + 1, i - 1), s[i])
<1> DEFINE p == SubSeq(s, a + 1, i - 1)
           q == SubSeq(s, a + 1, i)
           r == Append(p, s[i])
<1>1. Len(s) \in Nat /\ i \in Nat /\ a < i /\ i <= Len(s) /\ s[i] \in S
  OBVIOUS
<1>2. p \in Seq(S) /\ Len(p) = i - 1 - a /\ \A j \in 1 .. i - 1 - a : p[j] = s[a + j]
  BY <1>1
<1>3. q \in Seq(S) /\ Len(q) = i - a /\ \A j \in 1 .. i - a : q[j] = s[a + j]
  BY <1>1
<1> HIDE DEF p, q
<1>4. r \in Seq(S) /\ Len(r) = i - a /\ \A j \in 1 .. i - a : r[j] = s[a + j]
  BY <1>1, <1>2
<1> HIDE DEF r
<1>5. q = r
  BY <1>3, <1>4, SeqEqual
<1> QED
  BY <1>2, <1>5 DEF p, q, r

(* How a concatenation grows by one element. *)
GrowsBy(s, t, e) == Append(s \o t, e) = s \o Append(t, e)

LEMMA ConcatGrows ==
  ASSUME NEW S, NEW s \in Seq(S), NEW t \in Seq(S), NEW e \in S
  PROVE  GrowsBy(s, t, e)
<1> DEFINE p == s \o t
           u == Append(t, e)
           q == Append(p, e)
           r == s \o u
<1>1. Len(s) \in Nat /\ Len(t) \in Nat
  OBVIOUS
<1>2. /\ p \in Seq(S) /\ Len(p) = Len(s) + Len(t)
      /\ \A i \in 1 .. Len(s) : p[i] = s[i]
      /\ \A i \in Len(s) + 1 .. Len(s) + Len(t) : p[i] = t[i - Len(s)]
  BY ConcatIs, Zenon
<1>3. /\ u \in Seq(S) /\ Len(u) = Len(t) + 1 /\ u[Len(t) + 1] = e
      /\ \A i \in 1 .. Len(t) : u[i] = t[i]
  OBVIOUS
<1> HIDE DEF p, u
<1>4. /\ q \in Seq(S) /\ Len(q) = Len(s) + Len(t) + 1 /\ q[Len(s) + Len(t) + 1] = e
      /\ \A i \in 1 .. Len(s) + Len(t) : q[i] = p[i]
  BY <1>1, <1>2
<1>5. /\ r \in Seq(S) /\ Len(r) = Len(s) + Len(u)
      /\ \A i \in 1 .. Len(s) : r[i] = s[i]
      /\ \A i \in Len(s) + 1 .. Len(s) + Len(u) : r[i] = u[i - Len(s)]
  BY <1>3, ConcatIs, Zenon
<1> HIDE DEF q, r
<1>6. \A i \in 1 .. Len(q) : q[i] = r[i]
  <2> SUFFICES ASSUME NEW i \in 1 .. Len(q)
               PROVE  q[i] = r[i]
    OBVIOUS
  <2>1. CASE i <= Len(s)
    BY <1>1, <1>2, <1>4, <1>5, <2>1
  <2>2. CASE Len(s) < i /\ i <= Len(s) + Len(t)
    <3>1. /\ i \in 1 .. Len(s) + Len(t) /\ i \in Len(s) + 1 .. Len(s) + Len(t)
          /\ i \in Len(s) + 1 .. Len(s) + Len(u) /\ i - Len(s) \in 1 .. Len(t)
      BY <1>1, <1>3, <1>4, <2>2
    <3> QED
      BY <1>2, <1>3, <1>4, <1>5, <3>1
  <2>3. CASE i = Len(s) + Len(t) + 1
    <3>1. i \in Len(s) + 1 .. Len(s) + Len(u) /\ i - Len(s) = Len(t) + 1
      BY <1>1, <1>3, <2>3
    <3> QED
      BY <1>3, <1>4, <1>5, <2>3, <3>1
  <2> QED
    BY <1>1, <1>4, <2>1, <2>2, <2>3
<1>7. q = r
  <2>1. Len(q) = Len(r)
    BY <1>1, <1>3, <1>4, <1>5
  <2> QED
    BY <1>4, <1>5, <1>6, <2>1, SeqEqual
<1> QED
  BY <1>7, Zenon DEF p, u, q, r, GrowsBy

(* How the last of some sequences is replaced. *)
LEMMA LastChanges ==
  ASSUME NEW Q, NEW whole \in Seq(Q), NEW line \in Q, NEW longer \in Q
  PROVE  LET before == Append(whole, line)
         IN  /\ [before EXCEPT ![Len(before)] = longer] = Append(whole, longer)
             /\ before[Len(before)] = line
<1> DEFINE before == Append(whole, line)
           last == Len(whole) + 1
           after == [before EXCEPT ![last] = longer]
           same == Append(whole, longer)
<1>1. Len(whole) \in Nat /\ last \in 1 .. last /\ \A k \in 1 .. last : k = last \/ k \in 1 .. Len(whole)
  OBVIOUS
<1>2. /\ before \in Seq(Q) /\ Len(before) = last /\ before[last] = line
      /\ \A k \in 1 .. Len(whole) : before[k] = whole[k]
  BY <1>1
<1>3. /\ same \in Seq(Q) /\ Len(same) = last /\ same[last] = longer
      /\ \A k \in 1 .. Len(whole) : same[k] = whole[k]
  BY <1>1
<1> HIDE DEF before, same
<1>4. DOMAIN before = 1 .. last /\ DOMAIN same = 1 .. last
  BY <1>2, <1>3
<1>5. \A k \in 1 .. last : after[k] = same[k]
  BY <1>1, <1>2, <1>3, <1>4
<1>6. after \in [1 .. last -> Q]
  <2>1. \A k \in 1 .. last : after[k] \in Q
    BY <1>3, <1>5
  <2> QED
    BY <1>2, <1>4, <2>1
<1> HIDE DEF after
<1>7. after \in Seq(Q) /\ Len(after) = last
  BY <1>1, <1>6
<1>8. after = same
  BY <1>3, <1>5, <1>7, SeqEqual
<1> QED
  BY <1>2, <1>8 DEF before, same, after

-----------------------------------------------------------------------------
(* NormalizeSearchSuffixes *)

(* The values kept after each turn of the loop. *)
LEMMA KeptIs ==
  ASSUME NEW S, NEW values \in Seq(S)
  PROVE  /\ Kept(values) \in [0 .. Len(values) -> Seq(S)]
         /\ Kept(values)[0] = <<>>
         /\ \A n \in 1 .. Len(values) :
              Kept(values)[n] =
                IF Usable(values[n]) /\ ~Seen(Kept(values)[n - 1], values[n])
                THEN Append(Kept(values)[n - 1], values[n]) ELSE Kept(values)[n - 1]
<1> DEFINE m == Len(values)
           T == Seq(S)
           base == <<>>
           Body(x, n) == IF Usable(values[n]) /\ ~Seen(x, values[n]) THEN Append(x, values[n]) ELSE x
           Eq(f) == f = [n \in 0 .. m |-> IF n = 0 THEN base ELSE Body(f[n - 1], n)]
           step == [n \in 1 .. m |-> [x \in T |-> Body(x, n)]]
           loop == Kept(values)
<1>1. loop = CHOOSE f : Eq(f)
  BY DEF Kept
<1>2. m \in Nat /\ base \in T
  OBVIOUS
<1>3. \A n \in 1 .. m : \A x \in T : Body(x, n) \in T
  OBVIOUS
<1> HIDE DEF T, Body, m, base, loop
<1>4. Eq(loop)
  <2>1. step \in [1 .. m -> [T -> T]]
    BY <1>3
  <2>2. \E f \in [0 .. m -> T] : f[0] = base /\ \A n \in 1 .. m : f[n] = step[n][f[n - 1]]
    <3> HIDE DEF step
    <3> QED
      BY <1>2, <2>1, LoopExists
  <2>3. PICK f \in [0 .. m -> T] : f[0] = base /\ \A n \in 1 .. m : f[n] = step[n][f[n - 1]]
    BY <2>2
  <2>4. \A n \in 1 .. m : f[n - 1] \in T
    BY <1>2
  <2>5. \A n \in 1 .. m : f[n] = Body(f[n - 1], n)
    BY <2>3, <2>4
  <2>6. Eq(f)
    BY <1>2, <2>3, <2>5
  <2> HIDE DEF Eq
  <2> QED
    BY <1>1, <2>6
<1>5. /\ loop = [n \in 0 .. m |-> loop[n]] /\ loop[0] = base
      /\ \A n \in 1 .. m : loop[n] = Body(loop[n - 1], n)
  <2>1. loop[0] = base /\ \A n \in 1 .. m : loop[n] = Body(loop[n - 1], n)
    BY <1>2, <1>4
  <2>2. DOMAIN loop = 0 .. m
    BY <1>4
  <2> QED
    BY <1>4, <2>1, <2>2
<1>6. loop \in [0 .. m -> T]
  <2>1. \A n \in 0 .. m : loop[n] \in T
    <3>1. loop[0] \in T /\ \A n \in 1 .. m : loop[n - 1] \in T => loop[n] \in T
      BY <1>2, <1>3, <1>5
    <3> QED
      BY <1>2, <3>1, LoopStays
  <2> QED
    BY <1>5, <2>1
<1> QED
  BY <1>5, <1>6 DEF Body, T, m, base, loop

(* A usable value that is seen among those kept was not the first.         *)
LEMMA FirstIs ==
  ASSUME NEW S, NEW values \in Seq(S), NEW n \in 1 .. Len(values),
         AreAt(Kept(values)[n - 1], values, Firsts(values) \cap 1 .. n - 1)
  PROVE  n \in Firsts(values) <=> Usable(values[n]) /\ ~Seen(Kept(values)[n - 1], values[n])
<1> DEFINE kept == Kept(values)[n - 1]
           Same(i) == Usable(values[i]) /\ values[i].key = values[n].key
<1>1. Len(values) \in Nat /\ n \in Nat /\ DOMAIN values = 1 .. Len(values)
  OBVIOUS
<1>2. \A i \in 1 .. n : i \in Firsts(values) <=>
        Usable(values[i]) /\ \A j \in 1 .. i - 1 : ~(Usable(values[j]) /\ values[j].key = values[i].key)
  BY <1>1 DEF Firsts
<1> HIDE DEF kept
<1>3. PICK from \in [DOMAIN kept -> Firsts(values) \cap 1 .. n - 1] :
        /\ \A i \in Firsts(values) \cap 1 .. n - 1 : \E k \in DOMAIN kept : from[k] = i
        /\ \A k \in DOMAIN kept : kept[k] = values[from[k]]
  BY DEF AreAt, kept
<1>4. ASSUME NEW j \in 1 .. n - 1, Same(j)
      PROVE  Seen(kept, values[n])
  <2> DEFINE I == {i \in 1 .. n - 1 : Same(i)}
  <2>1. I \subseteq 1 .. n - 1 /\ I # {} /\ n - 1 \in Nat
    BY <1>1, <1>4
  <2> HIDE DEF I
  <2>2. PICK i \in I : \A l \in I : i <= l
    BY <2>1, LeastIs
  <2>3. i \in 1 .. n - 1 /\ Same(i)
    BY DEF I
  <2>4. \A l \in 1 .. i - 1 : ~Same(l)
    <3> SUFFICES ASSUME NEW l \in 1 .. i - 1, Same(l)
                 PROVE  FALSE
      OBVIOUS
    <3>1. l \in 1 .. n - 1 /\ l < i
      BY <1>1, <2>3
    <3>2. l \in I
      BY <3>1 DEF I
    <3> QED
      BY <1>1, <2>2, <2>3, <3>1, <3>2
  <2>5. i \in Firsts(values)
    <3>1. i \in 1 .. n
      BY <1>1, <2>3
    <3> QED
      BY <1>2, <2>3, <2>4, <3>1
  <2>6. PICK k \in DOMAIN kept : from[k] = i
    BY <1>3, <2>3, <2>5
  <2> QED
    BY <1>3, <2>3, <2>6 DEF Seen
<1>5. ASSUME Seen(kept, values[n])
      PROVE  \E j \in 1 .. n - 1 : Same(j)
  <2>1. PICK k \in DOMAIN kept : kept[k].key = values[n].key
    BY <1>5 DEF Seen
  <2>2. from[k] \in Firsts(values) \cap 1 .. n - 1 /\ kept[k] = values[from[k]]
    BY <1>3
  <2>3. Usable(values[from[k]])
    BY <1>1, <1>2, <2>2
  <2> QED
    BY <2>1, <2>2, <2>3
<1>6. n \in Firsts(values) <=> Usable(values[n]) /\ \A j \in 1 .. n - 1 : ~Same(j)
  BY <1>1, <1>2
<1> QED
  BY <1>4, <1>5, <1>6 DEF kept

(* The values kept are those at the first places, in their order. *)
LEMMA KeptAreFirsts ==
  ASSUME NEW S, NEW values \in Seq(S)
  PROVE  /\ NormalizeSearchSuffixes(values) \in Seq(S)
         /\ AreAt(NormalizeSearchSuffixes(values), values, Firsts(values))
<1> DEFINE m == Len(values)
           Upto(n) == Firsts(values) \cap 1 .. n
           Good == {n \in 0 .. m : AreAt(Kept(values)[n], values, Upto(n))}
<1>1. m \in Nat /\ Firsts(values) \subseteq 1 .. m
  BY DEF Firsts
<1>2. 0 \in Good
  <2>1. Kept(values)[0] = <<>>
    BY KeptIs
  <2>2. AreAt(<<>>, values, {})
    <3>1. <<>> \in [DOMAIN <<>> -> {}] /\ DOMAIN <<>> = {}
      OBVIOUS
    <3> QED
      BY <3>1 DEF AreAt
  <2>3. Upto(0) = {}
    BY <1>1
  <2> QED
    BY <1>1, <2>1, <2>2, <2>3
<1>3. ASSUME NEW n \in 1 .. m, n - 1 \in Good
      PROVE  n \in Good
  <2> DEFINE kept == Kept(values)[n - 1]
             next == Kept(values)[n]
  <2>1. AreAt(kept, values, Upto(n - 1))
    BY <1>3
  <2>2. /\ kept \in Seq(S)
        /\ next = IF Usable(values[n]) /\ ~Seen(kept, values[n]) THEN Append(kept, values[n]) ELSE kept
    <3>1. n - 1 \in 0 .. m /\ n \in 1 .. m
      BY <1>1
    <3>2. Kept(values) \in [0 .. m -> Seq(S)]
      BY KeptIs
    <3> QED
      BY <3>1, <3>2, KeptIs
  <2>3. next = IF n \in Firsts(values) THEN Append(kept, values[n]) ELSE kept
    BY <2>1, <2>2, FirstIs
  <2>4. CASE n \notin Firsts(values)
    <3>1. Upto(n) = Upto(n - 1)
      BY <1>1, <2>4
    <3>2. next = kept
      BY <2>3, <2>4
    <3>3. AreAt(next, values, Upto(n))
      BY <2>1, <3>1, <3>2
    <3> QED
      BY <1>1, <3>3
  <2>5. CASE n \in Firsts(values)
    <3> HIDE DEF kept, next, Upto
    <3>1. PICK from \in [DOMAIN kept -> Upto(n - 1)] :
            /\ \A k, l \in DOMAIN kept : k < l => from[k] < from[l]
            /\ \A i \in Upto(n - 1) : \E k \in DOMAIN kept : from[k] = i
            /\ \A k \in DOMAIN kept : kept[k] = values[from[k]]
      BY <2>1 DEF AreAt
    <3> DEFINE last == Len(kept) + 1
               to == [k \in 1 .. last |-> IF k = last THEN n ELSE from[k]]
    <3>2. DOMAIN kept = 1 .. Len(kept) /\ Len(kept) \in Nat
      BY <2>2
    <3>3. /\ DOMAIN next = 1 .. last /\ next[last] = values[n]
          /\ \A k \in 1 .. Len(kept) : next[k] = kept[k]
      BY <2>2, <2>3, <2>5
    <3>4. /\ n \in Upto(n) /\ \A i \in Upto(n - 1) : i \in Upto(n) /\ i < n
          /\ \A i \in Upto(n) : i = n \/ i \in Upto(n - 1)
      BY <1>1, <2>5 DEF Upto
    <3>5. \A k \in 1 .. Len(kept) : to[k] = from[k] /\ from[k] \in Upto(n - 1)
      BY <3>1, <3>2
    <3>6. to[last] = n
      BY <3>2
    <3>7. to \in [DOMAIN next -> Upto(n)]
      BY <3>2, <3>3, <3>4, <3>5, <3>6
    <3> HIDE DEF to
    <3>8. \A k, l \in DOMAIN next : k < l => to[k] < to[l]
      BY <3>1, <3>2, <3>3, <3>4, <3>5, <3>6
    <3>9. \A i \in Upto(n) : \E k \in DOMAIN next : to[k] = i
      <4> SUFFICES ASSUME NEW i \in Upto(n)
                   PROVE  \E k \in DOMAIN next : to[k] = i
        OBVIOUS
      <4>1. CASE i = n
        BY <3>2, <3>3, <3>6, <4>1
      <4>2. CASE i \in Upto(n - 1)
        <5>1. PICK k \in 1 .. Len(kept) : from[k] = i
          BY <3>1, <3>2, <4>2
        <5> QED
          BY <3>2, <3>3, <3>5, <5>1
      <4> QED
        BY <3>4, <4>1, <4>2
    <3>10. \A k \in DOMAIN next : next[k] = values[to[k]]
      <4> SUFFICES ASSUME NEW k \in DOMAIN next
                   PROVE  next[k] = values[to[k]]
        OBVIOUS
      <4>1. CASE k = last
        BY <3>3, <3>6, <4>1
      <4>2. CASE k # last
        <5>1. k \in 1 .. Len(kept)
          BY <3>2, <3>3, <4>2
        <5> QED
          BY <3>1, <3>2, <3>3, <3>5, <5>1
      <4> QED
        BY <4>1, <4>2
    <3>11. AreAt(next, values, Upto(n))
      BY <3>7, <3>8, <3>9, <3>10 DEF AreAt
    <3> QED
      BY <1>1, <3>11 DEF next
  <2> QED
    BY <2>4, <2>5
<1>4. m \in Good
  <2>1. \A n \in 1 .. m : n - 1 \in Good => n \in Good
    BY <1>3
  <2> HIDE DEF Good
  <2>2. \A n \in 0 .. m : n \in Good
    BY <1>1, <1>2, <2>1, Induction
  <2> QED
    BY <1>1, <2>2
<1>5. Upto(m) = Firsts(values)
  BY <1>1
<1>6. Kept(values)[m] \in Seq(S)
  BY <1>1, KeptIs
<1> QED
  BY <1>4, <1>5, <1>6 DEF NormalizeSearchSuffixes

(* Usable values with names of their own are all kept.                     *)
LEMMA NormalIsKept ==
  ASSUME NEW S, NEW values \in Seq(S),
         \A i \in 1 .. Len(values) : Usable(values[i]),
         \A i, j \in 1 .. Len(values) : i < j => values[i].key # values[j].key
  PROVE  NormalizeSearchSuffixes(values) = values
<1> DEFINE m == Len(values)
           Good == {n \in 0 .. m : Kept(values)[n] = SubSeq(values, 1, n)}
<1>1. m \in Nat
  OBVIOUS
<1>2. 0 \in Good
  BY <1>1, KeptIs
<1>3. ASSUME NEW n \in 1 .. m, n - 1 \in Good
      PROVE  n \in Good
  <2> DEFINE before == SubSeq(values, 1, n - 1)
  <2>1. /\ before \in Seq(S) /\ Len(before) = n - 1
        /\ \A i \in 1 .. n - 1 : before[i] = values[i]
    BY <1>1
  <2>2. Kept(values)[n] = IF Usable(values[n]) /\ ~Seen(before, values[n]) THEN Append(before, values[n])
                          ELSE before
    BY <1>3, KeptIs
  <2>3. DOMAIN before = 1 .. n - 1
    BY <2>1
  <2> HIDE DEF before
  <2>4. ~Seen(before, values[n])
    <3> SUFFICES ASSUME NEW i \in 1 .. n - 1, before[i].key = values[n].key
                 PROVE  FALSE
      BY <2>3 DEF Seen
    <3>1. i \in 1 .. m /\ i < n
      BY <1>1
    <3> QED
      BY <2>1, <3>1
  <2>5. SubSeq(values, 1, n) = Append(before, values[n])
    <3>1. /\ SubSeq(values, 1, n) \in Seq(S) /\ Len(SubSeq(values, 1, n)) = n
          /\ \A i \in 1 .. n : SubSeq(values, 1, n)[i] = values[i]
      BY <1>1
    <3>2. /\ Append(before, values[n]) \in Seq(S) /\ Len(Append(before, values[n])) = n
          /\ \A i \in 1 .. n : Append(before, values[n])[i] = values[i]
      BY <1>1, <2>1
    <3> QED
      BY <1>1, <3>1, <3>2, SeqEqual
  <2>6. Kept(values)[n] = SubSeq(values, 1, n)
    BY <2>2, <2>4, <2>5
  <2> QED
    BY <1>1, <2>6
<1>4. m \in Good
  <2>1. \A n \in 1 .. m : n - 1 \in Good => n \in Good
    BY <1>3
  <2> HIDE DEF Good
  <2>2. \A n \in 0 .. m : n \in Good
    BY <1>1, <1>2, <2>1, Induction
  <2> QED
    BY <1>1, <2>2
<1>5. SubSeq(values, 1, m) = values
  BY <1>1
<1> QED
  BY <1>4, <1>5 DEF NormalizeSearchSuffixes

(* A second time NormalizeSearchSuffixes changes nothing. *)
LEMMA NormalizeTwice ==
  ASSUME NEW S, NEW values \in Seq(S)
  PROVE  LET result == NormalizeSearchSuffixes(values)
         IN  /\ NormalizeSearchSuffixes(result) = result
             /\ result # <<>> <=> \E i \in DOMAIN values : Usable(values[i])
<1> DEFINE result == NormalizeSearchSuffixes(values)
<1>1. result \in Seq(S) /\ AreAt(result, values, Firsts(values))
  BY KeptAreFirsts
<1>2. DOMAIN values = 1 .. Len(values) /\ Len(values) \in Nat
  OBVIOUS
<1> HIDE DEF result
<1>3. PICK from \in [DOMAIN result -> Firsts(values)] :
        /\ \A k, l \in DOMAIN result : k < l => from[k] < from[l]
        /\ \A i \in Firsts(values) : \E k \in DOMAIN result : from[k] = i
        /\ \A k \in DOMAIN result : result[k] = values[from[k]]
  BY <1>1 DEF AreAt
<1>4. DOMAIN result = 1 .. Len(result) /\ Len(result) \in Nat
  BY <1>1
<1>5. \A i \in Firsts(values) :
        /\ i \in 1 .. Len(values) /\ Usable(values[i])
        /\ \A j \in 1 .. i - 1 : ~(Usable(values[j]) /\ values[j].key = values[i].key)
  BY <1>2 DEF Firsts
<1>6. \A i \in 1 .. Len(result) : Usable(result[i])
  BY <1>3, <1>4, <1>5
<1>7. ASSUME NEW i \in 1 .. Len(result), NEW j \in 1 .. Len(result), i < j
      PROVE  result[i].key # result[j].key
  <2>1. from[i] \in Firsts(values) /\ from[j] \in Firsts(values) /\ from[i] < from[j]
    BY <1>3, <1>4, <1>7
  <2>2. from[i] \in 1 .. from[j] - 1 /\ Usable(values[from[i]])
    BY <1>2, <1>5, <2>1
  <2>3. ~(Usable(values[from[i]]) /\ values[from[i]].key = values[from[j]].key)
    BY <1>5, <2>1, <2>2
  <2>4. result[i] = values[from[i]] /\ result[j] = values[from[j]]
    BY <1>3, <1>4
  <2> QED
    BY <2>2, <2>3, <2>4
<1>8. NormalizeSearchSuffixes(result) = result
  BY <1>1, <1>6, <1>7, NormalIsKept
<1>9. result # <<>> => \E i \in DOMAIN values : Usable(values[i])
  <2> SUFFICES ASSUME result # <<>>
               PROVE  \E i \in DOMAIN values : Usable(values[i])
    OBVIOUS
  <2>1. 1 \in DOMAIN result
    BY <1>1
  <2>2. from[1] \in Firsts(values)
    BY <1>3, <2>1
  <2> QED
    BY <1>2, <1>5, <2>2
<1>10. ASSUME NEW u \in DOMAIN values, Usable(values[u])
       PROVE  result # <<>>
  <2> DEFINE I == {i \in 1 .. Len(values) : Usable(values[i])}
  <2>1. I \subseteq 1 .. Len(values) /\ I # {}
    BY <1>2, <1>10
  <2> HIDE DEF I
  <2>2. PICK i \in I : \A j \in I : i <= j
    BY <1>2, <2>1, LeastIs
  <2>3. i \in 1 .. Len(values) /\ Usable(values[i])
    BY DEF I
  <2>4. \A j \in 1 .. i - 1 : ~Usable(values[j])
    <3> SUFFICES ASSUME NEW j \in 1 .. i - 1, Usable(values[j])
                 PROVE  FALSE
      OBVIOUS
    <3>1. j \in 1 .. Len(values) /\ j < i
      BY <1>2, <2>3
    <3> QED
      BY <1>2, <2>2, <2>3, <3>1, <1>10 DEF I
  <2>5. i \in Firsts(values)
    BY <1>2, <2>3, <2>4 DEF Firsts
  <2>6. \E k \in DOMAIN result : TRUE
    BY <1>3, <2>5
  <2> QED
    BY <1>1, <2>6
<1> QED
  BY <1>8, <1>9, <1>10 DEF result

(* For lists of any length: the suffixes that Start takes are the usable   *)
(* ones of the config, or else of Windows, each once and in their order,   *)
(* and NormalizeSearchSuffixes leaves them as they are.                    *)
THEOREM SuffixesAreAlwaysNormal == Spec => []SuffixesAreNormal
<1>1. Init => SuffixesAreNormal
  BY DEF Init, SuffixesAreNormal, Is
<1>2. SuffixesAreNormal /\ [Next]_done => SuffixesAreNormal'
  <2> SUFFICES ASSUME SuffixesAreNormal, [Next]_done
               PROVE  SuffixesAreNormal'
    OBVIOUS
  <2>1. CASE ChooseSuffixes
    <3>1. PICK configured \in SeqOf(Values, Size), windows \in SeqOf(Values, Short) :
            Call("suffixes", <<configured, windows>>, SearchSuffixes(configured, windows))
      BY <2>1 DEF ChooseSuffixes
    <3>2. configured \in Seq(Values) /\ windows \in Seq(Values)
      BY SeqOfIsSeq, ConversionsAssumption
    <3>3. /\ done'.arg[1] = configured /\ done'.arg[2] = windows
          /\ done'.result = SearchSuffixes(configured, windows)
      BY <3>1 DEF Call
    <3> DEFINE own == NormalizeSearchSuffixes(configured)
               theirs == NormalizeSearchSuffixes(windows)
               some == \E i \in DOMAIN configured : Usable(configured[i])
    <3>4. /\ AreAt(own, configured, Firsts(configured)) /\ NormalizeSearchSuffixes(own) = own
          /\ own # <<>> <=> some
      BY <3>2, KeptAreFirsts, NormalizeTwice
    <3>5. AreAt(theirs, windows, Firsts(windows)) /\ NormalizeSearchSuffixes(theirs) = theirs
      BY <3>2, KeptAreFirsts, NormalizeTwice
    <3>6. done'.result = IF own # <<>> THEN own ELSE theirs
      BY <3>3 DEF SearchSuffixes
    <3> HIDE DEF own, theirs
    <3>7. CASE some
      BY <3>3, <3>4, <3>6, <3>7 DEF SuffixesAreNormal
    <3>8. CASE ~some
      BY <3>3, <3>4, <3>5, <3>6, <3>8 DEF SuffixesAreNormal
    <3> QED
      BY <3>7, <3>8
  <2>2. CASE Next /\ ~ChooseSuffixes
    BY <2>2, CallOf DEF Next, SuffixesAreNormal, Is
  <2>3. CASE UNCHANGED done
    BY <2>3 DEF SuffixesAreNormal, Is
  <2> QED
    BY <2>1, <2>2, <2>3
<1> QED
  BY <1>1, <1>2, PTL DEF Spec

-----------------------------------------------------------------------------
(* The block in /etc/wsl.conf *)

(* What awk knows and has put out after each line. *)
LEMMA AwkIs ==
  ASSUME NEW S, NEW conf \in Seq(S)
  PROVE  /\ Awk(conf) \in [0 .. Len(conf) -> [skip : BOOLEAN, out : Seq(S)]]
         /\ Awk(conf)[0] = [skip |-> FALSE, out |-> <<>>]
         /\ \A n \in 1 .. Len(conf) :
              LET before == Awk(conf)[n - 1]   skip == Skips(before.skip, conf[n])
              IN Awk(conf)[n] = [skip |-> skip,
                                 out |-> IF skip \/ conf[n] = "end" THEN before.out
                                         ELSE Append(before.out, conf[n])]
<1> DEFINE m == Len(conf)
           T == [skip : BOOLEAN, out : Seq(S)]
           base == [skip |-> FALSE, out |-> <<>>]
           Body(x, n) == [skip |-> Skips(x.skip, conf[n]),
                          out |-> IF Skips(x.skip, conf[n]) \/ conf[n] = "end" THEN x.out
                                  ELSE Append(x.out, conf[n])]
           Eq(f) == f = [n \in 0 .. m |-> IF n = 0 THEN base ELSE Body(f[n - 1], n)]
           step == [n \in 1 .. m |-> [x \in T |-> Body(x, n)]]
           loop == Awk(conf)
<1>1. loop = CHOOSE f : Eq(f)
  BY DEF Awk
<1>2. m \in Nat /\ base \in T
  OBVIOUS
<1>3. \A n \in 1 .. m : \A x \in T : Body(x, n) \in T
  <2> SUFFICES ASSUME NEW n \in 1 .. m, NEW x \in T
               PROVE  Body(x, n) \in T
    OBVIOUS
  <2>1. conf[n] \in S /\ x.skip \in BOOLEAN /\ x.out \in Seq(S)
    OBVIOUS
  <2>2. Skips(x.skip, conf[n]) \in BOOLEAN
    BY <2>1 DEF Skips
  <2>3. Append(x.out, conf[n]) \in Seq(S)
    BY <2>1
  <2> QED
    BY <2>1, <2>2, <2>3
<1> HIDE DEF T, Body, m, base, loop
<1>4. Eq(loop)
  <2>1. step \in [1 .. m -> [T -> T]]
    BY <1>3
  <2>2. \E f \in [0 .. m -> T] : f[0] = base /\ \A n \in 1 .. m : f[n] = step[n][f[n - 1]]
    <3> HIDE DEF step
    <3> QED
      BY ONLY <1>2, <2>1, LoopExists
  <2>3. PICK f \in [0 .. m -> T] : f[0] = base /\ \A n \in 1 .. m : f[n] = step[n][f[n - 1]]
    BY <2>2
  <2>4. \A n \in 1 .. m : f[n - 1] \in T
    BY <1>2
  <2>5. \A n \in 1 .. m : f[n] = Body(f[n - 1], n)
    BY <2>3, <2>4
  <2>6. Eq(f)
    BY <1>2, <2>3, <2>5
  <2> HIDE DEF Eq
  <2> QED
    BY <1>1, <2>6
<1>5. /\ loop = [n \in 0 .. m |-> loop[n]] /\ loop[0] = base
      /\ \A n \in 1 .. m : loop[n] = Body(loop[n - 1], n)
  <2>1. loop[0] = base /\ \A n \in 1 .. m : loop[n] = Body(loop[n - 1], n)
    BY <1>2, <1>4
  <2>2. DOMAIN loop = 0 .. m
    BY <1>4
  <2> QED
    BY <1>4, <2>1, <2>2
<1>6. loop \in [0 .. m -> T]
  <2>1. \A n \in 0 .. m : loop[n] \in T
    <3>1. loop[0] \in T /\ \A n \in 1 .. m : loop[n - 1] \in T => loop[n] \in T
      BY <1>2, <1>3, <1>5
    <3> QED
      BY <1>2, <3>1, LoopStays
  <2> QED
    BY <1>5, <2>1
<1> QED
  BY <1>5, <1>6 DEF Body, T, m, base, loop

(* What awk does with a line: a marker changes what it skips, any other    *)
(* line is put out unless it skips.                                        *)
LEMMA AwkTurn ==
  ASSUME NEW S, NEW conf \in Seq(S), NEW n \in 1 .. Len(conf)
  PROVE  LET before == Awk(conf)[n - 1]
             after == Awk(conf)[n]
             marker == conf[n] \in {"begin", "end"}
         IN  /\ before.skip \in BOOLEAN /\ before.out \in Seq(S)
             /\ after.skip \in BOOLEAN /\ after.out \in Seq(S)
             /\ conf[n] = "begin" => after.skip /\ after.out = before.out
             /\ conf[n] = "end" => ~after.skip /\ after.out = before.out
             /\ ~marker => (after.skip <=> before.skip)
             /\ ~marker /\ before.skip => after.out = before.out
             /\ ~marker /\ ~before.skip => after.out = Append(before.out, conf[n])
<1> DEFINE before == Awk(conf)[n - 1]
           after == Awk(conf)[n]
           skip == Skips(before.skip, conf[n])
<1>1. /\ before \in [skip : BOOLEAN, out : Seq(S)] /\ after \in [skip : BOOLEAN, out : Seq(S)]
      /\ after = [skip |-> skip,
                  out |-> IF skip \/ conf[n] = "end" THEN before.out ELSE Append(before.out, conf[n])]
  <2>1. n - 1 \in 0 .. Len(conf) /\ n \in 0 .. Len(conf)
    OBVIOUS
  <2>2. Awk(conf) \in [0 .. Len(conf) -> [skip : BOOLEAN, out : Seq(S)]]
    BY AwkIs
  <2> QED
    BY <2>1, <2>2, AwkIs
<1> HIDE DEF before, after
<1>2. before.skip \in BOOLEAN /\ before.out \in Seq(S) /\ after.skip \in BOOLEAN /\ after.out \in Seq(S)
  BY <1>1
<1>3. /\ conf[n] = "begin" => skip
      /\ conf[n] = "end" => ~skip
      /\ conf[n] \notin {"begin", "end"} => (skip <=> before.skip)
  BY <1>2 DEF Skips
<1> HIDE DEF skip
<1>4. /\ after.skip = skip
      /\ after.out = IF skip \/ conf[n] = "end" THEN before.out ELSE Append(before.out, conf[n])
  BY <1>1
<1>5. /\ conf[n] = "begin" => after.skip /\ after.out = before.out
      /\ conf[n] = "end" => ~after.skip /\ after.out = before.out
  BY <1>3, <1>4
<1>6. conf[n] \notin {"begin", "end"} =>
        /\ after.skip <=> before.skip
        /\ before.skip => after.out = before.out
        /\ ~before.skip => after.out = Append(before.out, conf[n])
  BY <1>3, <1>4
<1> QED
  BY <1>2, <1>5, <1>6 DEF before, after

(* Outside of a block, lines that are no markers are all put out. *)
LEMMA AwkKeeps ==
  ASSUME NEW S, NEW conf \in Seq(S), NEW a \in Nat, NEW b \in Nat, a <= b, b <= Len(conf),
         \A i \in a + 1 .. b : conf[i] \notin {"begin", "end"},
         ~Awk(conf)[a].skip
  PROVE  ~Awk(conf)[b].skip /\ Awk(conf)[b].out = Awk(conf)[a].out \o SubSeq(conf, a + 1, b)
<1> DEFINE m == b - a
           start == Awk(conf)[a].out
           part(i) == SubSeq(conf, a + 1, i)
           Keeps(i) == ~Awk(conf)[i].skip /\ Awk(conf)[i].out = start \o part(i)
           Good == {n \in 0 .. m : Keeps(a + n)}
<1>1. m \in Nat /\ b = a + m /\ Len(conf) \in Nat
  OBVIOUS
<1>2. start \in Seq(S)
  <2>1. a \in 0 .. Len(conf)
    BY <1>1
  <2>2. Awk(conf)[a] \in [skip : BOOLEAN, out : Seq(S)]
    BY <2>1, AwkIs
  <2> QED
    BY <2>2
<1>3. part(a) = <<>> /\ start \o <<>> = start
  BY <1>2
<1>4. \A i \in a + 1 .. b : part(i - 1) \in Seq(S) /\ part(i) = Append(part(i - 1), conf[i])
  BY <1>1, SubSeqGrows
<1>5. Keeps(a)
  BY <1>3
<1> HIDE DEF start, part
<1>6. ASSUME NEW i \in a + 1 .. b, Keeps(i - 1)
      PROVE  Keeps(i)
  <2>1. i \in 1 .. Len(conf) /\ conf[i] \notin {"begin", "end"}
    BY <1>1
  <2>2. ~Awk(conf)[i].skip /\ Awk(conf)[i].out = Append(Awk(conf)[i - 1].out, conf[i])
    <3>1. /\ conf[i] \notin {"begin", "end"} => (Awk(conf)[i].skip <=> Awk(conf)[i - 1].skip)
          /\ conf[i] \notin {"begin", "end"} /\ ~Awk(conf)[i - 1].skip
               => Awk(conf)[i].out = Append(Awk(conf)[i - 1].out, conf[i])
      BY <2>1, AwkTurn, Zenon
    <3> QED
      BY <1>6, <2>1, <3>1, Zenon DEF Keeps
  <2>3. Awk(conf)[i].out = Append(start \o part(i - 1), conf[i])
    BY <1>6, <2>2
  <2>4. conf[i] \in S
    BY <2>1
  <2>5. Append(start \o part(i - 1), conf[i]) = start \o Append(part(i - 1), conf[i])
    <3>1. part(i - 1) \in Seq(S)
      BY <1>4
    <3>2. GrowsBy(start, part(i - 1), conf[i])
      BY <1>2, <2>4, <3>1, ConcatGrows, Zenon
    <3> QED
      BY <3>2, Zenon DEF GrowsBy
  <2>6. Append(part(i - 1), conf[i]) = part(i)
    BY <1>4
  <2> QED
    BY <2>2, <2>3, <2>5, <2>6, Zenon
<1> HIDE DEF Keeps
<1>7. 0 \in Good
  BY <1>1, <1>5
<1>8. \A n \in 1 .. m : n - 1 \in Good => n \in Good
  <2> SUFFICES ASSUME NEW n \in 1 .. m, n - 1 \in Good
               PROVE  n \in Good
    OBVIOUS
  <2>1. a + n \in a + 1 .. b /\ (a + n) - 1 = a + (n - 1)
    BY <1>1
  <2>2. Keeps((a + n) - 1)
    BY <2>1
  <2>3. Keeps(a + n)
    BY <1>6, <2>1, <2>2
  <2> QED
    BY <2>3
<1>9. \A n \in Good : Keeps(a + n)
  OBVIOUS
<1> HIDE DEF Good
<1>10. \A n \in 0 .. m : n \in Good
  BY <1>1, <1>7, <1>8, Induction
<1>11. Keeps(b)
  <2>1. m \in 0 .. m
    BY <1>1
  <2> QED
    BY <1>1, <1>9, <1>10, <2>1
<1> QED
  BY <1>11 DEF Keeps, start, part

(* A file without the block is left as it is. *)
LEMMA WithoutNothing ==
  ASSUME NEW S, NEW conf \in Seq(S), \A i \in 1 .. Len(conf) : conf[i] \notin {"begin", "end"}
  PROVE  WithoutBlock(conf) = conf
<1>1. 0 \in Nat /\ Len(conf) \in Nat /\ 0 <= Len(conf) /\ Len(conf) <= Len(conf)
  OBVIOUS
<1>2. ~Awk(conf)[0].skip /\ Awk(conf)[0].out = <<>>
  BY AwkIs
<1>3. \A i \in 0 + 1 .. Len(conf) : conf[i] \notin {"begin", "end"}
  OBVIOUS
<1>4. Awk(conf)[Len(conf)].out = Awk(conf)[0].out \o SubSeq(conf, 0 + 1, Len(conf))
  BY <1>1, <1>2, <1>3, AwkKeeps
<1>5. SubSeq(conf, 0 + 1, Len(conf)) = conf /\ <<>> \o conf = conf
  OBVIOUS
<1> QED
  BY <1>2, <1>4, <1>5 DEF WithoutBlock

(* Of the block the empty line before it is left. *)
LEMMA WithoutTheBlock ==
  ASSUME NEW S, NEW blank, {blank, "begin", "network", "generate", "end"} \subseteq S,
         blank \notin {"begin", "end"},
         NEW user \in Seq(S), \A i \in 1 .. Len(user) : user[i] \notin {"begin", "end"},
         NEW added \in Seq(S), \A i \in 1 .. Len(added) : added[i] \notin {"begin", "end"}
  PROVE  WithoutBlock(user \o <<blank, "begin", "network", "generate", "end">> \o added)
           = user \o <<blank>> \o added
<1> DEFINE u == Len(user)
           c == Len(added)
           block == <<blank, "begin", "network", "generate", "end">>
           head == user \o block
           conf == head \o added
           kept == user \o <<blank>>
           Out(n) == Awk(conf)[n].out
           Skip(n) == Awk(conf)[n].skip
<1>1. u \in Nat /\ c \in Nat
  OBVIOUS
<1>2. /\ block \in Seq(S) /\ Len(block) = 5
      /\ block[1] = blank /\ block[2] = "begin" /\ block[3] = "network"
      /\ block[4] = "generate" /\ block[5] = "end"
  OBVIOUS
<1>3. /\ <<blank>> \in Seq(S) /\ Len(<<blank>>) = 1 /\ <<blank>>[1] = blank
  OBVIOUS
<1> HIDE DEF block
<1>4. /\ head \in Seq(S) /\ Len(head) = u + 5
      /\ \A i \in 1 .. u : head[i] = user[i]
      /\ \A i \in u + 1 .. u + 5 : head[i] = block[i - u]
  <2>1. /\ head \in Seq(S) /\ Len(head) = u + Len(block)
        /\ \A i \in 1 .. u : head[i] = user[i]
        /\ \A i \in u + 1 .. u + Len(block) : head[i] = block[i - u]
    <3>1. block \in Seq(S)
      BY <1>2
    <3> QED
      BY <3>1, ConcatIs, Zenon
  <2> QED
    BY <1>2, <2>1, Zenon
<1>5. /\ kept \in Seq(S) /\ Len(kept) = u + 1
      /\ \A i \in 1 .. u : kept[i] = user[i]
      /\ \A i \in u + 1 .. u + 1 : kept[i] = <<blank>>[i - u]
  BY <1>3, ConcatIs
<1> HIDE DEF head, kept
<1>6. /\ conf \in Seq(S) /\ Len(conf) = u + 5 + c
      /\ \A i \in 1 .. u + 5 : conf[i] = head[i]
      /\ \A i \in u + 5 + 1 .. u + 5 + c : conf[i] = added[i - (u + 5)]
  <2>1. /\ conf \in Seq(S) /\ Len(conf) = Len(head) + c
        /\ \A i \in 1 .. Len(head) : conf[i] = head[i]
        /\ \A i \in Len(head) + 1 .. Len(head) + c : conf[i] = added[i - Len(head)]
    BY <1>4, ConcatIs, Zenon
  <2> QED
    BY <1>4, <2>1, Zenon
<1> HIDE DEF conf, u, c
<1>7. /\ \A i \in 1 .. u : conf[i] = user[i]
      /\ \A i \in u + 1 .. u + 5 : conf[i] = block[i - u]
  BY <1>1, <1>4, <1>6
<1>8. /\ conf[u + 1] = blank /\ conf[u + 2] = "begin" /\ conf[u + 3] = "network"
      /\ conf[u + 4] = "generate" /\ conf[u + 5] = "end"
  BY <1>1, <1>2, <1>7
<1>9. \A i \in 1 .. u + 1 : conf[i] \notin {"begin", "end"}
  BY <1>1, <1>7, <1>8 DEF u
<1>10. \A i \in u + 5 + 1 .. u + 5 + c : conf[i] \notin {"begin", "end"}
  <2> SUFFICES ASSUME NEW i \in u + 5 + 1 .. u + 5 + c
               PROVE  conf[i] \notin {"begin", "end"}
    OBVIOUS
  <2>1. i - (u + 5) \in 1 .. c
    BY <1>1
  <2> QED
    BY <1>6, <2>1 DEF c
<1>11. ~Skip(u + 1) /\ Out(u + 1) = kept
  <2>1. ~Awk(conf)[0].skip /\ Awk(conf)[0].out = <<>>
    BY <1>6, AwkIs
  <2>2. /\ 0 \in Nat /\ u + 1 \in Nat /\ 0 <= u + 1 /\ u + 1 <= Len(conf)
        /\ \A i \in 0 + 1 .. u + 1 : conf[i] \notin {"begin", "end"}
    BY <1>1, <1>6, <1>9
  <2>3. ~Skip(u + 1) /\ Out(u + 1) = Awk(conf)[0].out \o SubSeq(conf, 0 + 1, u + 1)
    BY <1>6, <2>1, <2>2, AwkKeeps
  <2> DEFINE part == SubSeq(conf, 0 + 1, u + 1)
  <2>4. part \in Seq(S) /\ Len(part) = u + 1 /\ \A i \in 1 .. u + 1 : part[i] = conf[i]
    BY <1>1, <1>6
  <2> HIDE DEF part
  <2>5. \A i \in 1 .. u + 1 : kept[i] = conf[i]
    BY <1>1, <1>3, <1>5, <1>7, <1>8
  <2>6. part = kept
    BY <1>5, <2>4, <2>5, SeqEqual
  <2>7. <<>> \o kept = kept
    BY <1>5
  <2> QED
    BY <2>1, <2>3, <2>6, <2>7 DEF part
<1>12. ASSUME NEW n \in u + 2 .. u + 5
       PROVE  /\ conf[n] = "begin" => Skip(n) /\ Out(n) = Out(n - 1)
              /\ conf[n] = "end" => ~Skip(n) /\ Out(n) = Out(n - 1)
              /\ conf[n] \notin {"begin", "end"} /\ Skip(n - 1) => Skip(n) /\ Out(n) = Out(n - 1)
  <2>1. n \in 1 .. Len(conf) /\ conf \in Seq(S)
    BY <1>1, <1>6
  <2> HIDE DEF conf
  <2>2. conf[n] = "begin" => Awk(conf)[n].skip /\ Awk(conf)[n].out = Awk(conf)[n - 1].out
    BY ONLY <2>1, AwkTurn, Zenon
  <2>3. conf[n] = "end" => ~Awk(conf)[n].skip /\ Awk(conf)[n].out = Awk(conf)[n - 1].out
    BY ONLY <2>1, AwkTurn, Zenon
  <2>4. conf[n] \notin {"begin", "end"} => (Awk(conf)[n].skip <=> Awk(conf)[n - 1].skip)
    BY ONLY <2>1, AwkTurn, Zenon
  <2>5. conf[n] \notin {"begin", "end"} /\ Awk(conf)[n - 1].skip
          => Awk(conf)[n].out = Awk(conf)[n - 1].out
    BY ONLY <2>1, AwkTurn, Zenon
  <2> QED
    BY <2>2, <2>3, <2>4, <2>5, Zenon
<1> HIDE DEF Skip, Out
<1>13. Skip(u + 2) /\ Out(u + 2) = kept
  <2>1. u + 2 \in u + 2 .. u + 5 /\ (u + 2) - 1 = u + 1
    BY <1>1
  <2> QED
    BY <1>8, <1>11, <1>12, <2>1
<1>14. Skip(u + 3) /\ Out(u + 3) = kept
  <2>1. u + 3 \in u + 2 .. u + 5 /\ (u + 3) - 1 = u + 2
    BY <1>1
  <2> QED
    BY <1>8, <1>12, <1>13, <2>1
<1>15. Skip(u + 4) /\ Out(u + 4) = kept
  <2>1. u + 4 \in u + 2 .. u + 5 /\ (u + 4) - 1 = u + 3
    BY <1>1
  <2> QED
    BY <1>8, <1>12, <1>14, <2>1
<1>16. ~Skip(u + 5) /\ Out(u + 5) = kept
  <2>1. u + 5 \in u + 2 .. u + 5 /\ (u + 5) - 1 = u + 4
    BY <1>1
  <2> QED
    BY <1>8, <1>12, <1>15, <2>1
<1>17. Out(u + 5 + c) = kept \o added
  <2>1. u + 5 \in Nat /\ u + 5 + c \in Nat /\ u + 5 <= u + 5 + c /\ u + 5 + c <= Len(conf)
    BY <1>1, <1>6
  <2>2. Out(u + 5 + c) = Out(u + 5) \o SubSeq(conf, u + 5 + 1, u + 5 + c)
    BY <1>6, <1>10, <1>16, <2>1, AwkKeeps DEF Skip, Out
  <2> DEFINE part == SubSeq(conf, u + 5 + 1, u + 5 + c)
  <2>3. part \in Seq(S) /\ Len(part) = c /\ \A i \in 1 .. c : part[i] = conf[u + 5 + i]
    BY <1>1, <1>6
  <2> HIDE DEF part
  <2>4. \A i \in 1 .. c : conf[u + 5 + i] = added[i]
    <3> SUFFICES ASSUME NEW i \in 1 .. c
                 PROVE  conf[u + 5 + i] = added[i]
      OBVIOUS
    <3>1. u + 5 + i \in u + 5 + 1 .. u + 5 + c /\ (u + 5 + i) - (u + 5) = i
      BY <1>1
    <3> QED
      BY <1>6, <3>1
  <2>5. part = added
    BY <2>3, <2>4, SeqEqual DEF c
  <2> QED
    BY <1>16, <2>2, <2>5 DEF part
<1>18. WithoutBlock(conf) = Awk(conf)[u + 5 + c].out
  BY <1>6 DEF WithoutBlock
<1> QED
  BY <1>17, <1>18 DEF Out, conf, head, block, kept

(* What Start and Stop make of a file. *)
LEMMA RestoredIs ==
  ASSUME NEW S, NEW blank, {blank, "begin", "network", "generate", "end"} \subseteq S,
         blank \notin {"begin", "end"},
         NEW user \in Seq(S), \A i \in 1 .. Len(user) : user[i] \notin {"begin", "end"},
         NEW added \in Seq(S), \A i \in 1 .. Len(added) : added[i] \notin {"begin", "end"},
         NEW before
  PROVE  /\ Block = <<blank, "begin", "network", "generate", "end">>
         /\ before \in {user, WithBlock(user)}
         => /\ WithoutBlock(WithBlock(before) \o added) = user \o <<blank>> \o added
            /\ WithoutBlock(WithoutBlock(before)) \in {user, user \o <<blank>>}
<1> SUFFICES ASSUME Block = <<blank, "begin", "network", "generate", "end">>,
                    before \in {user, WithBlock(user)}
             PROVE  /\ WithoutBlock(WithBlock(before) \o added) = user \o <<blank>> \o added
                    /\ WithoutBlock(WithoutBlock(before)) \in {user, user \o <<blank>>}
  OBVIOUS
<1> DEFINE head == user \o Block
           kept == user \o <<blank>>
<1>0. Block \in Seq(S) /\ <<blank>> \in Seq(S)
  OBVIOUS
<1>1. Len(Block) = 5 /\ Block[2] = "begin"
  OBVIOUS
<1>2. WithBlock(user) = head
  BY DEF WithBlock, Contains
<1>3. WithBlock(head) = head
  <2>1. /\ Len(head) = Len(user) + Len(Block)
        /\ \A i \in Len(user) + 1 .. Len(user) + Len(Block) : head[i] = Block[i - Len(user)]
    BY ONLY <1>0, ConcatIs, Zenon
  <2> HIDE DEF head
  <2>2. Len(user) \in Nat
    OBVIOUS
  <2>3. Len(user) + 2 \in 1 .. Len(head) /\ head[Len(user) + 2] = "begin"
    <3>1. Len(user) + 2 \in Len(user) + 1 .. Len(user) + Len(Block) /\ (Len(user) + 2) - Len(user) = 2
      BY <1>1, <2>2
    <3> QED
      BY <1>1, <2>1, <2>2, <3>1
  <2> QED
    BY <2>3 DEF WithBlock, Contains
<1>4. WithBlock(before) = head
  BY <1>2, <1>3
<1>5. WithoutBlock(head \o added) = kept \o added
  BY WithoutTheBlock, Zenon
<1>6. WithoutBlock(head) = kept
  <2>1. WithoutBlock(head \o <<>>) = kept \o <<>>
    <3>1. <<>> \in Seq(S) /\ \A i \in 1 .. Len(<<>>) : <<>>[i] \notin {"begin", "end"}
      OBVIOUS
    <3> QED
      BY <3>1, WithoutTheBlock, Zenon
  <2>2. head \in Seq(S) /\ kept \in Seq(S)
    BY ONLY <1>0, ConcatIs, Zenon
  <2> HIDE DEF head, kept
  <2>3. head \o <<>> = head /\ kept \o <<>> = kept
    BY <2>2
  <2> QED
    BY <2>1, <2>3
<1>7. WithoutBlock(user) = user
  BY WithoutNothing, Zenon
<1>8. WithoutBlock(kept) = kept
  <2>1. /\ kept \in Seq(S) /\ Len(kept) = Len(user) + Len(<<blank>>)
        /\ \A i \in 1 .. Len(user) : kept[i] = user[i]
        /\ \A i \in Len(user) + 1 .. Len(user) + Len(<<blank>>) : kept[i] = <<blank>>[i - Len(user)]
    BY ONLY <1>0, ConcatIs, Zenon
  <2>2. Len(<<blank>>) = 1 /\ <<blank>>[1] = blank /\ Len(user) \in Nat
    OBVIOUS
  <2> HIDE DEF kept
  <2>3. \A i \in 1 .. Len(kept) : kept[i] \notin {"begin", "end"}
    <3> SUFFICES ASSUME NEW i \in 1 .. Len(kept)
                 PROVE  kept[i] \notin {"begin", "end"}
      OBVIOUS
    <3>1. CASE i <= Len(user)
      BY <2>1, <2>2, <3>1
    <3>2. CASE i > Len(user)
      <4>1. i \in Len(user) + 1 .. Len(user) + Len(<<blank>>) /\ i - Len(user) = 1
        BY <2>1, <2>2, <3>2
      <4>2. kept[i] = blank
        BY <2>1, <2>2, <4>1, Zenon
      <4> QED
        BY <4>2
    <3> QED
      BY <2>1, <2>2, <3>1, <3>2
  <2> QED
    BY <2>1, <2>3, WithoutNothing, Zenon
<1>9. WithoutBlock(WithBlock(before) \o added) = kept \o added
  BY <1>4, <1>5, Zenon
<1>10. CASE before = head
  <2>1. WithoutBlock(WithoutBlock(before)) = kept
    BY <1>6, <1>8, <1>10, Zenon
  <2> QED
    BY <1>9, <2>1, Zenon
<1>11. CASE before = user
  <2>1. WithoutBlock(WithoutBlock(before)) = user
    BY <1>7, <1>11, Zenon
  <2> QED
    BY <1>9, <2>1, Zenon
<1> QED
  BY <1>2, <1>10, <1>11

(* For files of any length: Stop leaves the lines of the user in           *)
(* /etc/wsl.conf, and of the block that Start wrote nothing but perhaps    *)
(* the empty line before it; without the copy of the file it also leaves   *)
(* what was added after Start.                                             *)
THEOREM UserLinesAreAlwaysKept == Spec => []UserLinesAreKept
<1>1. Init => UserLinesAreKept
  <2>1. Init => ~Is("conf")
    BY DEF Init, Is
  <2> QED
    BY <2>1, Zenon DEF UserLinesAreKept
<1>2. UserLinesAreKept /\ [Next]_done => UserLinesAreKept'
  <2> SUFFICES ASSUME UserLinesAreKept, [Next]_done
               PROVE  UserLinesAreKept'
    OBVIOUS
  <2>1. CASE RestoreConf
    <3> DEFINE Lines == {"user", "", "network"}
               S == Lines \union {"begin", "generate", "end"}
               blank == ""
    <3>1. PICK user \in SeqOf(Lines, Short), added \in SeqOf(Lines, Short),
               again \in BOOLEAN, copy \in BOOLEAN :
            Call("conf", <<user, added, again, copy>>,
                 Restored(IF again THEN WithBlock(user) ELSE user, added, copy))
      BY <2>1, Zenon DEF RestoreConf
    <3>2. /\ {blank, "begin", "network", "generate", "end"} \subseteq S /\ Lines \subseteq S
          /\ blank \notin {"begin", "end"} /\ \A line \in Lines : line \notin {"begin", "end"}
          /\ Block = <<blank, "begin", "network", "generate", "end">>
      BY Zenon DEF Block
    <3>3. \A gap : gap \in {<<>>, <<blank>>} => gap \in {<<>>, <<"">>}
      BY Zenon
    <3>4. Short \in Nat
      BY ConversionsAssumption
    <3> HIDE DEF Lines, S, blank
    <3>5. user \in Seq(Lines) /\ added \in Seq(Lines)
      BY <3>4, SeqOfIsSeq
    <3>6. /\ user \in Seq(S) /\ \A i \in 1 .. Len(user) : user[i] \notin {"begin", "end"}
          /\ added \in Seq(S) /\ \A i \in 1 .. Len(added) : added[i] \notin {"begin", "end"}
      BY <3>2, <3>5
    <3> DEFINE before == IF again THEN WithBlock(user) ELSE user
    <3>7. before \in {user, WithBlock(user)}
      OBVIOUS
    <3>8. /\ done'.arg[1] = user /\ done'.arg[2] = added /\ done'.arg[4] = copy
          /\ done'.result = Restored(before, added, copy)
      BY <3>1 DEF Call
    <3> HIDE DEF before
    <3>9. /\ WithoutBlock(WithBlock(before) \o added) = user \o <<blank>> \o added
          /\ WithoutBlock(WithoutBlock(before)) \in {user, user \o <<blank>>}
      BY <3>2, <3>6, <3>7, RestoredIs, Zenon
    <3>10. CASE copy
      <4>1. done'.result = WithoutBlock(WithoutBlock(before))
        BY <3>8, <3>10, Zenon DEF Restored
      <4>2. user \o <<>> \o <<>> = user /\ user \o <<blank>> \o <<>> = user \o <<blank>>
        <5>1. user \o <<>> = user
          BY <3>6
        <5>2. user \o <<blank>> \in Seq(S)
          BY <3>2, <3>6
        <5> DEFINE kept == user \o <<blank>>
        <5>3. kept \o <<>> = kept
          <6>1. kept \in Seq(S)
            BY <5>2
          <6> HIDE DEF kept
          <6> QED
            BY <6>1
        <5> QED
          BY <5>1, <5>3, Zenon
      <4>3. \E gap \in {<<>>, <<blank>>} : done'.result = user \o gap \o <<>>
        BY <3>9, <4>1, <4>2, Zenon
      <4> QED
        BY <3>3, <3>8, <3>10, <4>3, Zenon DEF UserLinesAreKept
    <3>11. CASE ~copy
      <4>1. done'.result = WithoutBlock(WithBlock(before) \o added)
        BY <3>8, <3>11, Zenon DEF Restored
      <4>2. <<blank>> \in {<<>>, <<"">>}
        BY <3>3, Zenon
      <4> QED
        BY <3>8, <3>9, <3>11, <4>1, <4>2, Zenon DEF UserLinesAreKept
    <3> QED
      BY <3>10, <3>11
  <2>2. CASE Next /\ ~RestoreConf
    BY <2>2, CallOf, Zenon DEF Next, UserLinesAreKept, Is
  <2>3. CASE UNCHANGED done
    BY <2>3, Zenon DEF UserLinesAreKept, Is
  <2> QED
    BY <2>1, <2>2, <2>3
<1> QED
  BY <1>1, <1>2, PTL DEF Spec

-----------------------------------------------------------------------------
(* decodeWSLOutput and ListDistros *)

(* Trim gives a sequence of the same characters. *)
LEMMA TrimIsSeq ==
  ASSUME NEW S, NEW line \in Seq(S), NEW cutset
  PROVE  Trim(line, cutset) \in Seq(S)
<1> DEFINE kept == {i \in DOMAIN line : line[i] \notin cutset}
           a == CHOOSE i \in kept : \A j \in kept : i <= j
           b == CHOOSE i \in kept : \A j \in kept : j <= i
<1>1. kept \subseteq 1 .. Len(line) /\ Len(line) \in Nat
  OBVIOUS
<1>2. Trim(line, cutset) = IF kept = {} THEN <<>> ELSE SubSeq(line, a, b)
  BY DEF Trim
<1>3. kept # {} => a \in 1 .. Len(line) /\ b \in 1 .. Len(line)
  <2> HIDE DEF kept
  <2> QED
    BY <1>1, LeastIs, GreatestIs
<1> HIDE DEF kept, a, b
<1> QED
  BY <1>2, <1>3

(* The text that wsl.exe has written after each name. *)
LEMMA ListingIs ==
  ASSUME NEW S, {CR, LF} \subseteq S, NEW distros, distros \in Seq(Seq(S))
  PROVE  /\ Listing(distros) \in [0 .. Len(distros) -> Seq(S)]
         /\ Listing(distros)[0] = <<>>
         /\ \A n \in 1 .. Len(distros) :
              Listing(distros)[n] = Listing(distros)[n - 1] \o distros[n] \o <<CR, LF>>
<1> DEFINE m == Len(distros)
           T == Seq(S)
           base == <<>>
           Body(x, n) == x \o distros[n] \o <<CR, LF>>
           Eq(f) == f = [n \in 0 .. m |-> IF n = 0 THEN base ELSE Body(f[n - 1], n)]
           step == [n \in 1 .. m |-> [x \in T |-> Body(x, n)]]
           loop == Listing(distros)
<1>1. loop = CHOOSE f : Eq(f)
  BY DEF Listing
<1>2. m \in Nat /\ base \in T
  OBVIOUS
<1>3. \A n \in 1 .. m : \A x \in T : Body(x, n) \in T
  <2> SUFFICES ASSUME NEW n \in 1 .. m, NEW x \in T
               PROVE  x \o distros[n] \o <<CR, LF>> \in T
    OBVIOUS
  <2>1. distros[n] \in T /\ <<CR, LF>> \in T
    OBVIOUS
  <2>2. x \o distros[n] \in T
    BY <2>1
  <2> QED
    BY <2>1, <2>2
<1> HIDE DEF T, Body, m, base, loop
<1>4. Eq(loop)
  <2>1. step \in [1 .. m -> [T -> T]]
    BY <1>3
  <2>2. \E f \in [0 .. m -> T] : f[0] = base /\ \A n \in 1 .. m : f[n] = step[n][f[n - 1]]
    <3> HIDE DEF step
    <3> QED
      BY ONLY <1>2, <2>1, LoopExists
  <2>3. PICK f \in [0 .. m -> T] : f[0] = base /\ \A n \in 1 .. m : f[n] = step[n][f[n - 1]]
    BY <2>2
  <2>4. \A n \in 1 .. m : f[n - 1] \in T
    BY <1>2
  <2>5. \A n \in 1 .. m : f[n] = Body(f[n - 1], n)
    BY <2>3, <2>4
  <2>6. Eq(f)
    BY <1>2, <2>3, <2>5
  <2> HIDE DEF Eq
  <2> QED
    BY <1>1, <2>6
<1>5. /\ loop = [n \in 0 .. m |-> loop[n]] /\ loop[0] = base
      /\ \A n \in 1 .. m : loop[n] = Body(loop[n - 1], n)
  <2>1. loop[0] = base /\ \A n \in 1 .. m : loop[n] = Body(loop[n - 1], n)
    BY <1>2, <1>4
  <2>2. DOMAIN loop = 0 .. m
    BY <1>4
  <2> QED
    BY <1>4, <2>1, <2>2
<1>6. loop \in [0 .. m -> T]
  <2>1. \A n \in 0 .. m : loop[n] \in T
    <3>1. loop[0] \in T /\ \A n \in 1 .. m : loop[n - 1] \in T => loop[n] \in T
      BY <1>2, <1>3, <1>5
    <3> QED
      BY <1>2, <3>1, LoopStays
  <2> QED
    BY <1>5, <2>1
<1> QED
  BY <1>5, <1>6 DEF Body, T, m, base, loop

(* The lines that Split has found after each character. *)
LEMMA SplitIs ==
  ASSUME NEW S, NEW text \in Seq(S)
  PROVE  /\ Split(text) \in [0 .. Len(text) -> Seq(Seq(S)) \ {<<>>}]
         /\ Split(text)[0] = << <<>> >>
         /\ \A n \in 1 .. Len(text) :
              LET before == Split(text)[n - 1]
              IN Split(text)[n] =
                   IF text[n] = LF THEN Append(before, <<>>)
                   ELSE [before EXCEPT ![Len(before)] = Append(@, text[n])]
<1> DEFINE m == Len(text)
           T == Seq(Seq(S)) \ {<<>>}
           base == << <<>> >>
           Body(x, n) == IF text[n] = LF THEN Append(x, <<>>)
                         ELSE [x EXCEPT ![Len(x)] = Append(@, text[n])]
           Eq(f) == f = [n \in 0 .. m |-> IF n = 0 THEN base ELSE Body(f[n - 1], n)]
           step == [n \in 1 .. m |-> [x \in T |-> Body(x, n)]]
           loop == Split(text)
<1>1. loop = CHOOSE f : Eq(f)
  BY DEF Split
<1>2. m \in Nat /\ base \in T
  OBVIOUS
<1>3. \A n \in 1 .. m : \A x \in T : Body(x, n) \in T
  <2> SUFFICES ASSUME NEW n \in 1 .. m, NEW x \in T
               PROVE  Body(x, n) \in T
    OBVIOUS
  <2>1. Append(x, <<>>) \in T
    <3>1. Append(x, <<>>) \in Seq(Seq(S)) /\ Len(Append(x, <<>>)) = Len(x) + 1
      OBVIOUS
    <3> QED
      BY <3>1
  <2>2. [x EXCEPT ![Len(x)] = Append(@, text[n])] \in T
    <3>1. Len(x) \in 1 .. Len(x) /\ x[Len(x)] \in Seq(S) /\ text[n] \in S
      OBVIOUS
    <3>2. Append(x[Len(x)], text[n]) \in Seq(S)
      BY <3>1
    <3> DEFINE y == [x EXCEPT ![Len(x)] = Append(@, text[n])]
    <3>3. y \in [1 .. Len(x) -> Seq(S)]
      BY <3>1, <3>2
    <3> HIDE DEF y
    <3>4. y \in Seq(Seq(S)) /\ Len(y) = Len(x)
      <4> DEFINE Q == Seq(S)
                 l == Len(x)
      <4>1. l \in Nat /\ y \in [1 .. l -> Q]
        BY <3>1, <3>3
      <4> HIDE DEF Q, l
      <4>2. y \in Seq(Q) /\ Len(y) = l
        BY ONLY <4>1
      <4> QED
        BY <4>2 DEF Q, l
    <3> QED
      BY <3>1, <3>4 DEF y
  <2> QED
    BY <2>1, <2>2
<1> HIDE DEF T, Body, m, base, loop
<1>4. Eq(loop)
  <2>1. step \in [1 .. m -> [T -> T]]
    BY <1>3
  <2>2. \E f \in [0 .. m -> T] : f[0] = base /\ \A n \in 1 .. m : f[n] = step[n][f[n - 1]]
    <3> HIDE DEF step
    <3> QED
      BY ONLY <1>2, <2>1, LoopExists
  <2>3. PICK f \in [0 .. m -> T] : f[0] = base /\ \A n \in 1 .. m : f[n] = step[n][f[n - 1]]
    BY <2>2
  <2>4. \A n \in 1 .. m : f[n - 1] \in T
    BY <1>2
  <2>5. \A n \in 1 .. m : f[n] = Body(f[n - 1], n)
    BY <2>3, <2>4
  <2>6. Eq(f)
    BY <1>2, <2>3, <2>5
  <2> HIDE DEF Eq
  <2> QED
    BY <1>1, <2>6
<1>5. /\ loop = [n \in 0 .. m |-> loop[n]] /\ loop[0] = base
      /\ \A n \in 1 .. m : loop[n] = Body(loop[n - 1], n)
  <2>1. loop[0] = base /\ \A n \in 1 .. m : loop[n] = Body(loop[n - 1], n)
    BY <1>2, <1>4
  <2>2. DOMAIN loop = 0 .. m
    BY <1>4
  <2> QED
    BY <1>4, <2>1, <2>2
<1>6. loop \in [0 .. m -> T]
  <2>1. \A n \in 0 .. m : loop[n] \in T
    <3>1. loop[0] \in T /\ \A n \in 1 .. m : loop[n - 1] \in T => loop[n] \in T
      BY <1>2, <1>3, <1>5
    <3> QED
      BY <1>2, <3>1, LoopStays
  <2> QED
    BY <1>5, <2>1
<1> QED
  BY <1>5, <1>6 DEF Body, T, m, base, loop

(* The names that ListDistros has read after each line. *)
LEMMA NamedIs ==
  ASSUME NEW S, NEW lines, lines \in Seq(Seq(S))
  PROVE  /\ Named(lines) \in [0 .. Len(lines) -> Seq(Seq(S))]
         /\ Named(lines)[0] = <<>>
         /\ \A n \in 1 .. Len(lines) :
              LET name == Trim(Trim(lines[n], {0}), {CR, 32})
              IN Named(lines)[n] = IF name # <<>> THEN Append(Named(lines)[n - 1], name)
                                   ELSE Named(lines)[n - 1]
<1> DEFINE m == Len(lines)
           T == Seq(Seq(S))
           base == <<>>
           Body(x, n) == LET name == Trim(Trim(lines[n], {0}), {CR, 32})
                         IN IF name # <<>> THEN Append(x, name) ELSE x
           Eq(f) == f = [n \in 0 .. m |-> IF n = 0 THEN base ELSE Body(f[n - 1], n)]
           step == [n \in 1 .. m |-> [x \in T |-> Body(x, n)]]
           loop == Named(lines)
<1>1. loop = CHOOSE f : Eq(f)
  BY DEF Named
<1>2. m \in Nat /\ base \in T
  OBVIOUS
<1>3. \A n \in 1 .. m : \A x \in T : Body(x, n) \in T
  <2> SUFFICES ASSUME NEW n \in 1 .. m, NEW x \in T
               PROVE  Body(x, n) \in T
    OBVIOUS
  <2>1. lines[n] \in Seq(S)
    OBVIOUS
  <2>2. Trim(Trim(lines[n], {0}), {CR, 32}) \in Seq(S)
    BY <2>1, TrimIsSeq
  <2> QED
    BY <2>2
<1> HIDE DEF T, Body, m, base, loop
<1>4. Eq(loop)
  <2>1. step \in [1 .. m -> [T -> T]]
    BY <1>3
  <2>2. \E f \in [0 .. m -> T] : f[0] = base /\ \A n \in 1 .. m : f[n] = step[n][f[n - 1]]
    <3> HIDE DEF step
    <3> QED
      BY ONLY <1>2, <2>1, LoopExists
  <2>3. PICK f \in [0 .. m -> T] : f[0] = base /\ \A n \in 1 .. m : f[n] = step[n][f[n - 1]]
    BY <2>2
  <2>4. \A n \in 1 .. m : f[n - 1] \in T
    BY <1>2
  <2>5. \A n \in 1 .. m : f[n] = Body(f[n - 1], n)
    BY <2>3, <2>4
  <2>6. Eq(f)
    BY <1>2, <2>3, <2>5
  <2> HIDE DEF Eq
  <2> QED
    BY <1>1, <2>6
<1>5. /\ loop = [n \in 0 .. m |-> loop[n]] /\ loop[0] = base
      /\ \A n \in 1 .. m : loop[n] = Body(loop[n - 1], n)
  <2>1. loop[0] = base /\ \A n \in 1 .. m : loop[n] = Body(loop[n - 1], n)
    BY <1>2, <1>4
  <2>2. DOMAIN loop = 0 .. m
    BY <1>4
  <2> QED
    BY <1>4, <2>1, <2>2
<1>6. loop \in [0 .. m -> T]
  <2>1. \A n \in 0 .. m : loop[n] \in T
    <3>1. loop[0] \in T /\ \A n \in 1 .. m : loop[n - 1] \in T => loop[n] \in T
      BY <1>2, <1>3, <1>5
    <3> QED
      BY <1>2, <3>1, LoopStays
  <2> QED
    BY <1>5, <2>1
<1> QED
  BY <1>5, <1>6 DEF Body, T, m, base, loop

(* What Split has after n characters: whole lines, and the one it is in. *)
HasSplit(text, n, whole, line) == Split(text)[n] = Append(whole, line)

(* A line of the text, from the character after a to b, and its line feed. *)
LineAt(text, a, b, line) ==
  /\ a \in Nat /\ b \in Nat /\ a <= b /\ b <= Len(text)
  /\ \A i \in a + 1 .. b : text[i] # LF
  /\ SubSeq(text, a + 1, b) = line
  /\ b + 1 \in 1 .. Len(text) /\ text[b + 1] = LF

(* What the loop of Split does with a character. *)
LEMMA SplitTurn ==
  ASSUME NEW S, NEW text \in Seq(S), NEW n \in 1 .. Len(text), NEW whole \in Seq(Seq(S)), NEW line \in Seq(S),
         Split(text)[n - 1] = Append(whole, line)
  PROVE  Split(text)[n] = IF text[n] = LF THEN Append(Append(whole, line), <<>>)
                          ELSE Append(whole, Append(line, text[n]))
<1> DEFINE before == Append(whole, line)
           longer == Append(line, text[n])
<1>1. Split(text)[n] = IF text[n] = LF THEN Append(before, <<>>)
                       ELSE [before EXCEPT ![Len(before)] = Append(@, text[n])]
  <2>1. LET p == Split(text)[n - 1]
        IN Split(text)[n] = IF text[n] = LF THEN Append(p, <<>>)
                            ELSE [p EXCEPT ![Len(p)] = Append(@, text[n])]
    BY SplitIs, Zenon
  <2> HIDE DEF before
  <2>2. Split(text)[n - 1] = before
    BY DEF before
  <2> QED
    BY <2>1, <2>2
<1>2. longer \in Seq(S)
  <2>1. text[n] \in S
    OBVIOUS
  <2> QED
    BY <2>1
<1>3. /\ [before EXCEPT ![Len(before)] = longer] = Append(whole, longer)
      /\ before[Len(before)] = line
  <2> HIDE DEF longer
  <2> QED
    BY <1>2, LastChanges
<1> HIDE DEF before
<1>4. [before EXCEPT ![Len(before)] = Append(@, text[n])] = [before EXCEPT ![Len(before)] = longer]
  BY <1>3
<1> QED
  BY <1>1, <1>3, <1>4, Zenon DEF before, longer

(* Characters that are no line feeds become part of the line. *)
LEMMA SplitKeeps ==
  ASSUME NEW S, NEW text \in Seq(S), NEW a, NEW b, NEW line, LineAt(text, a, b, line),
         NEW whole, whole \in Seq(Seq(S)), HasSplit(text, a, whole, <<>>)
  PROVE  HasSplit(text, b, whole, line)
<1> DEFINE m == b - a
           part(i) == SubSeq(text, a + 1, i)
           Keeps(i) == Split(text)[i] = Append(whole, part(i))
           Good == {n \in 0 .. m : Keeps(a + n)}
<1>0. /\ a \in Nat /\ b \in Nat /\ a <= b /\ b <= Len(text)
      /\ \A i \in a + 1 .. b : text[i] # LF
      /\ part(b) = line
  BY Zenon DEF LineAt
<1>1. m \in Nat /\ b = a + m /\ Len(text) \in Nat
  BY <1>0
<1>2. part(a) = <<>>
  BY <1>0
<1>3. ASSUME NEW i \in a + 1 .. b
      PROVE  part(i - 1) \in Seq(S) /\ part(i) = Append(part(i - 1), text[i])
  BY <1>0, <1>1, SubSeqGrows
<1>4. Keeps(a)
  BY <1>2, Zenon DEF HasSplit
<1> HIDE DEF part
<1>5. ASSUME NEW i \in a + 1 .. b, Keeps(i - 1)
      PROVE  Keeps(i)
  <2>1. i \in 1 .. Len(text) /\ text[i] # LF
    BY <1>0, <1>1
  <2>2. Split(text)[i] = Append(whole, Append(part(i - 1), text[i]))
    BY <1>3, <1>5, <2>1, SplitTurn, Zenon
  <2> QED
    BY <1>3, <2>2, Zenon
<1> HIDE DEF Keeps
<1>6. 0 \in Good
  BY <1>0, <1>1, <1>4
<1>7. \A n \in 1 .. m : n - 1 \in Good => n \in Good
  <2> SUFFICES ASSUME NEW n \in 1 .. m, n - 1 \in Good
               PROVE  n \in Good
    OBVIOUS
  <2>1. a + n \in a + 1 .. b /\ (a + n) - 1 = a + (n - 1)
    BY <1>0, <1>1
  <2>2. Keeps((a + n) - 1)
    BY <2>1
  <2>3. Keeps(a + n)
    BY <1>5, <2>1, <2>2
  <2> QED
    BY <2>3
<1>8. \A n \in Good : Keeps(a + n)
  OBVIOUS
<1> HIDE DEF Good
<1>9. \A n \in 0 .. m : n \in Good
  BY <1>1, <1>6, <1>7, Induction
<1>10. Keeps(b)
  <2>1. m \in 0 .. m
    BY <1>1
  <2> QED
    BY <1>1, <1>8, <1>9, <2>1
<1> QED
  BY <1>0, <1>10, Zenon DEF Keeps, HasSplit

(* What Split makes of a line. *)
LEMMA SplitLine ==
  ASSUME NEW S, NEW text, text \in Seq(S), NEW a, NEW b, NEW line, line \in Seq(S), LineAt(text, a, b, line),
         NEW whole, whole \in Seq(Seq(S)), HasSplit(text, a, whole, <<>>)
  PROVE  HasSplit(text, b + 1, Append(whole, line), <<>>)
<1>1. HasSplit(text, b, whole, line)
  BY SplitKeeps, Zenon
<1>2. b \in Nat
  BY Zenon DEF LineAt
<1>3. (b + 1) - 1 = b
  BY <1>2
<1>4. Split(text)[(b + 1) - 1] = Append(whole, line)
  BY <1>1, <1>3, Zenon DEF HasSplit
<1>5. b + 1 \in 1 .. Len(text)
  BY Zenon DEF LineAt
<1>6. text[b + 1] = LF
  BY Zenon DEF LineAt
<1>7. Split(text)[b + 1] = IF text[b + 1] = LF THEN Append(Append(whole, line), <<>>)
                           ELSE Append(whole, Append(line, text[b + 1]))
  BY <1>4, <1>5, SplitTurn, Zenon
<1> QED
  BY <1>6, <1>7, Zenon DEF HasSplit

(* What a line of wsl.exe makes of the text before it. *)
Continues(after, before, name) ==
  /\ Len(after) = Len(before) + Len(name) + 2
  /\ \A i \in 1 .. Len(before) : after[i] = before[i]
  /\ \A i \in 1 .. Len(name) : after[Len(before) + i] = name[i]
  /\ after[Len(before) + Len(name) + 1] = CR
  /\ after[Len(before) + Len(name) + 2] = LF

(* The text begins with what the lines before make. *)
Begins(part, text) == Len(part) <= Len(text) /\ \A i \in 1 .. Len(part) : text[i] = part[i]

(* Each name continues the text with a line of its own. *)
LEMMA ListingTurn ==
  ASSUME NEW S, {CR, LF} \subseteq S, NEW distros, distros \in Seq(Seq(S)), NEW n \in 1 .. Len(distros)
  PROVE  /\ distros[n] \in Seq(S) /\ Listing(distros)[n - 1] \in Seq(S) /\ Listing(distros)[n] \in Seq(S)
         /\ Continues(Listing(distros)[n], Listing(distros)[n - 1], distros[n])
<1> DEFINE before == Listing(distros)[n - 1]
           after == Listing(distros)[n]
           d == distros[n]
           e == <<CR, LF>>
           p == before \o d
<1>1. d \in Seq(S)
  OBVIOUS
<1>2. before \in Seq(S) /\ after = p \o e
  <2>1. Listing(distros) \in [0 .. Len(distros) -> Seq(S)]
    BY ListingIs, Zenon
  <2>2. n - 1 \in 0 .. Len(distros)
    OBVIOUS
  <2>3. after = p \o e
    BY ListingIs, Zenon
  <2> QED
    BY <2>1, <2>2, <2>3
<1>3. e \in Seq(S) /\ Len(e) = 2 /\ e[1] = CR /\ e[2] = LF
  OBVIOUS
<1> HIDE DEF before, after, d, e
<1>4. Len(before) \in Nat /\ Len(d) \in Nat
  BY <1>1, <1>2
<1>5. /\ p \in Seq(S) /\ Len(p) = Len(before) + Len(d)
      /\ \A i \in 1 .. Len(before) : p[i] = before[i]
      /\ \A i \in Len(before) + 1 .. Len(before) + Len(d) : p[i] = d[i - Len(before)]
  BY ONLY <1>1, <1>2, ConcatIs, Zenon
<1> HIDE DEF p
<1>6. /\ after \in Seq(S) /\ Len(after) = Len(p) + 2
      /\ \A i \in 1 .. Len(p) : after[i] = p[i]
      /\ \A i \in Len(p) + 1 .. Len(p) + 2 : after[i] = e[i - Len(p)]
  <2>1. e \in Seq(S)
    BY <1>3
  <2>2. /\ p \o e \in Seq(S) /\ Len(p \o e) = Len(p) + Len(e)
        /\ \A i \in 1 .. Len(p) : (p \o e)[i] = p[i]
        /\ \A i \in Len(p) + 1 .. Len(p) + Len(e) : (p \o e)[i] = e[i - Len(p)]
    <3>1. p \in Seq(S)
      BY <1>5
    <3> QED
      BY ONLY <2>1, <3>1, ConcatIs, Zenon
  <2> QED
    BY <1>2, <1>3, <2>2, Zenon
<1>7. Len(after) = Len(before) + Len(d) + 2
  BY <1>4, <1>5, <1>6
<1>8. \A i \in 1 .. Len(before) : after[i] = before[i]
  BY <1>4, <1>5, <1>6
<1>9. \A i \in 1 .. Len(d) : after[Len(before) + i] = d[i]
  <2> SUFFICES ASSUME NEW i \in 1 .. Len(d)
               PROVE  after[Len(before) + i] = d[i]
    OBVIOUS
  <2>1. /\ Len(before) + i \in 1 .. Len(p) /\ Len(before) + i \in Len(before) + 1 .. Len(before) + Len(d)
        /\ (Len(before) + i) - Len(before) = i
    BY <1>4, <1>5
  <2> QED
    BY <1>5, <1>6, <2>1
<1>10. after[Len(before) + Len(d) + 1] = CR /\ after[Len(before) + Len(d) + 2] = LF
  <2>1. /\ Len(before) + Len(d) + 1 \in Len(p) + 1 .. Len(p) + 2
        /\ Len(before) + Len(d) + 2 \in Len(p) + 1 .. Len(p) + 2
        /\ (Len(before) + Len(d) + 1) - Len(p) = 1 /\ (Len(before) + Len(d) + 2) - Len(p) = 2
    BY <1>4, <1>5
  <2> QED
    BY <1>3, <1>6, <2>1
<1> QED
  BY <1>1, <1>2, <1>6, <1>7, <1>8, <1>9, <1>10 DEF Continues, before, after, d

(* What is written stays as it is. *)
LEMMA ListingGrows ==
  ASSUME NEW S, {CR, LF} \subseteq S, NEW distros, distros \in Seq(Seq(S)), NEW n \in 0 .. Len(distros)
  PROVE  /\ Listing(distros)[n] \in Seq(S) /\ Listing(distros)[Len(distros)] \in Seq(S)
         /\ Begins(Listing(distros)[n], Listing(distros)[Len(distros)])
<1> DEFINE T(k) == Listing(distros)[k]
           m == Len(distros) - n
           Good == {k \in 0 .. m : Begins(T(n), T(n + k))}
<1>1. m \in Nat /\ n + m = Len(distros) /\ n \in Nat /\ Len(distros) \in Nat
  OBVIOUS
<1>2. \A k \in 0 .. Len(distros) : T(k) \in Seq(S) /\ Len(T(k)) \in Nat
  <2>1. Listing(distros) \in [0 .. Len(distros) -> Seq(S)]
    BY ListingIs
  <2> QED
    BY ONLY <2>1
<1>3. ASSUME NEW k \in 1 .. Len(distros)
      PROVE  Begins(T(k - 1), T(k))
  <2>1. distros[k] \in Seq(S) /\ T(k - 1) \in Seq(S) /\ Continues(T(k), T(k - 1), distros[k])
    BY ListingTurn, Zenon
  <2> HIDE DEF T
  <2>2. Len(distros[k]) \in Nat /\ Len(T(k - 1)) \in Nat
    BY ONLY <2>1
  <2>3. Len(T(k - 1)) <= Len(T(k))
    <3>1. Len(T(k)) = Len(T(k - 1)) + Len(distros[k]) + 2
      BY <2>1, Zenon DEF Continues
    <3> DEFINE l == Len(T(k - 1))
               d == Len(distros[k])
    <3>2. l \in Nat /\ d \in Nat /\ Len(T(k)) = l + d + 2
      BY ONLY <2>2, <3>1, Zenon
    <3> HIDE DEF l, d
    <3>3. l <= l + d + 2
      BY <3>2
    <3> QED
      BY <3>2, <3>3, Zenon DEF l
  <2>4. \A i \in 1 .. Len(T(k - 1)) : T(k)[i] = T(k - 1)[i]
    BY <2>1, Zenon DEF Continues
  <2> QED
    BY ONLY <2>3, <2>4 DEF Begins
<1> HIDE DEF T
<1>4. 0 \in Good
  BY <1>1, <1>2 DEF Begins
<1>5. \A k \in 1 .. m : k - 1 \in Good => k \in Good
  <2> SUFFICES ASSUME NEW k \in 1 .. m, k - 1 \in Good
               PROVE  k \in Good
    OBVIOUS
  <2>1. /\ n + k \in 1 .. Len(distros) /\ (n + k) - 1 = n + (k - 1)
        /\ n + k \in 0 .. Len(distros) /\ n + (k - 1) \in 0 .. Len(distros) /\ n \in 0 .. Len(distros)
    BY <1>1
  <2>2. Begins(T(n), T(n + (k - 1)))
    OBVIOUS
  <2>3. Begins(T((n + k) - 1), T(n + k))
    BY ONLY <1>3, <2>1
  <2>4. Begins(T(n), T(n + k))
    BY ONLY <1>2, <2>1, <2>2, <2>3 DEF Begins
  <2> QED
    BY <2>4
<1>6. \A k \in Good : Begins(T(n), T(n + k))
  OBVIOUS
<1> HIDE DEF Good
<1>7. \A k \in 0 .. m : k \in Good
  BY ONLY <1>1, <1>4, <1>5, Induction
<1>8. Begins(T(n), T(Len(distros)))
  <2>1. m \in 0 .. m
    BY <1>1
  <2> QED
    BY ONLY <1>1, <1>6, <1>7, <2>1
<1>9. n \in 0 .. Len(distros) /\ Len(distros) \in 0 .. Len(distros)
  BY <1>1
<1> QED
  BY ONLY <1>2, <1>8, <1>9 DEF T

(* Where the line of a name is in the text. *)
LEMMA LineIs ==
  ASSUME NEW S, {CR, LF} \subseteq S, NEW text \in Seq(S), NEW before \in Seq(S), NEW after \in Seq(S),
         NEW name \in Seq(S), \A i \in 1 .. Len(name) : name[i] # LF,
         Continues(after, before, name), Begins(after, text),
         NEW a, a = Len(before), NEW b, b = Len(before) + Len(name) + 1
  PROVE  LineAt(text, a, b, name \o <<CR>>)
<1> DEFINE c == Len(name)
           part == SubSeq(text, a + 1, b)
           line == name \o <<CR>>
<1>1. a \in Nat /\ c \in Nat /\ b \in Nat /\ b = a + c + 1 /\ Len(text) \in Nat
  OBVIOUS
<1>2. /\ Len(after) = a + c + 2
      /\ \A i \in 1 .. c : after[a + i] = name[i]
      /\ after[a + c + 1] = CR /\ after[a + c + 2] = LF
  BY Zenon DEF Continues
<1>3. Len(after) <= Len(text) /\ \A i \in 1 .. Len(after) : text[i] = after[i]
  BY Zenon DEF Begins
<1>4. /\ line \in Seq(S) /\ Len(line) = c + 1 /\ line[c + 1] = CR
      /\ \A i \in 1 .. c : line[i] = name[i]
  <2>1. CR \in S /\ name \in Seq(S) /\ Len(name) = c
    OBVIOUS
  <2> HIDE DEF c
  <2> QED
    BY ONLY <1>1, <2>1
<1> HIDE DEF c, line
<1>5. b + 1 = Len(after) /\ b + 1 \in 1 .. Len(text) /\ b <= Len(text) /\ a <= b
  BY ONLY <1>1, <1>2, <1>3
<1>6. /\ \A i \in 1 .. c : text[a + i] = name[i]
      /\ text[a + c + 1] = CR /\ text[b + 1] = LF
  <2>1. \A i \in 1 .. c + 2 : text[a + i] = after[a + i]
    BY ONLY <1>1, <1>2, <1>3
  <2>2. text[a + c + 1] = after[a + c + 1] /\ text[b + 1] = after[a + c + 2]
    <3>1. a + c + 1 \in 1 .. Len(after) /\ b + 1 \in 1 .. Len(after) /\ b + 1 = a + c + 2
      BY ONLY <1>1, <1>2
    <3> QED
      BY ONLY <1>3, <3>1
  <2>3. ASSUME NEW i \in 1 .. c PROVE text[a + i] = name[i]
    <3>1. i \in 1 .. c + 2
      BY ONLY <1>1
    <3> QED
      BY ONLY <1>2, <2>1, <3>1
  <2> QED
    BY ONLY <1>2, <2>2, <2>3
<1>7. \A i \in 1 .. c + 1 : text[a + i] = line[i]
  <2> SUFFICES ASSUME NEW i \in 1 .. c + 1
               PROVE  text[a + i] = line[i]
    OBVIOUS
  <2>1. CASE i = c + 1
    <3>1. a + i = a + c + 1
      BY ONLY <1>1, <2>1
    <3> QED
      BY ONLY <1>4, <1>6, <2>1, <3>1
  <2>2. CASE i \in 1 .. c
    BY ONLY <1>4, <1>6, <2>2
  <2> QED
    BY ONLY <1>1, <2>1, <2>2
<1>8. \A i \in a + 1 .. b : text[i] # LF
  <2> SUFFICES ASSUME NEW i \in a + 1 .. b
               PROVE  text[i] # LF
    OBVIOUS
  <2>1. CASE i = b
    BY <1>1, <1>6, <2>1 DEF CR, LF
  <2>2. CASE i # b
    <3>1. i - a \in 1 .. c /\ a + (i - a) = i
      BY <1>1, <2>2
    <3> QED
      BY <1>6, <3>1 DEF c
  <2> QED
    BY <2>1, <2>2
<1>9. part = line
  <2>1. part \in Seq(S) /\ Len(part) = c + 1 /\ \A i \in 1 .. c + 1 : part[i] = text[a + i]
    BY ONLY <1>1, <1>5
  <2> HIDE DEF part
  <2>2. \A i \in 1 .. Len(part) : part[i] = line[i]
    BY ONLY <1>7, <2>1
  <2> QED
    BY ONLY <1>4, <2>1, <2>2, SeqEqual
<1> QED
  BY <1>1, <1>5, <1>6, <1>8, <1>9, Zenon DEF line, part, LineAt

(* The lines that wsl.exe makes of the first n names, without line feeds. *)
Lines(distros, n) == [k \in 1 .. n |-> distros[k] \o <<CR>>]

(* Each name adds a line. *)
LEMMA LinesGrow ==
  ASSUME NEW S, CR \in S, NEW distros, distros \in Seq(Seq(S)), NEW n \in 1 .. Len(distros)
  PROVE  /\ Lines(distros, n - 1) \in Seq(Seq(S)) /\ distros[n] \o <<CR>> \in Seq(S)
         /\ Lines(distros, n) = Append(Lines(distros, n - 1), distros[n] \o <<CR>>)
<1> DEFINE Q == Seq(S)
           Line(k) == distros[k] \o <<CR>>
           p == [k \in 1 .. n - 1 |-> Line(k)]
           q == [k \in 1 .. n |-> Line(k)]
           r == Append(p, Line(n))
<1>1. \A k \in 1 .. Len(distros) : Line(k) \in Q
  <2> SUFFICES ASSUME NEW k \in 1 .. Len(distros)
               PROVE  distros[k] \o <<CR>> \in Seq(S)
    OBVIOUS
  <2>1. distros[k] \in Seq(S) /\ <<CR>> \in Seq(S)
    OBVIOUS
  <2> QED
    BY <2>1
<1>2. n \in Nat /\ n >= 1 /\ n <= Len(distros) /\ Len(distros) \in Nat
  OBVIOUS
<1> HIDE DEF Q, Line
<1>3. p \in Seq(Q) /\ Len(p) = n - 1 /\ \A k \in 1 .. n - 1 : p[k] = Line(k)
  <2>1. p \in [1 .. n - 1 -> Q]
    BY ONLY <1>1, <1>2
  <2>2. \A k \in 1 .. n - 1 : p[k] = Line(k)
    BY ONLY <1>2
  <2> HIDE DEF p
  <2> QED
    BY ONLY <1>2, <2>1, <2>2
<1>4. q \in Seq(Q) /\ Len(q) = n /\ \A k \in 1 .. n : q[k] = Line(k)
  <2>1. q \in [1 .. n -> Q]
    BY ONLY <1>1, <1>2
  <2>2. \A k \in 1 .. n : q[k] = Line(k)
    BY ONLY <1>2
  <2> HIDE DEF q
  <2> QED
    BY ONLY <1>2, <2>1, <2>2
<1> HIDE DEF p, q
<1>5. Line(n) \in Q
  BY <1>1
<1>6. r \in Seq(Q) /\ Len(r) = n /\ \A k \in 1 .. n : r[k] = Line(k)
  BY ONLY <1>2, <1>3, <1>5
<1> HIDE DEF r
<1>7. q = r
  BY ONLY <1>4, <1>6, SeqEqual
<1> QED
  BY <1>3, <1>5, <1>7, Zenon DEF Lines, Q, Line, p, q, r

(* Split gives the lines of wsl.exe and an empty one. *)
LEMMA ListingSplits ==
  ASSUME NEW S, {CR, LF} \subseteq S, NEW distros, distros \in Seq(Seq(S)),
         \A k \in 1 .. Len(distros) : \A i \in 1 .. Len(distros[k]) : distros[k][i] # LF
  PROVE  LET text == Listing(distros)[Len(distros)]
         IN Split(text)[Len(text)] = Append(Lines(distros, Len(distros)), <<>>)
<1> DEFINE m == Len(distros)
           T(n) == Listing(distros)[n]
           text == T(m)
           Splits(n) == Split(text)[Len(T(n))] = Append(Lines(distros, n), <<>>)
           Good == {n \in 0 .. m : Splits(n)}
<1>1. m \in Nat /\ 0 \in 0 .. m /\ m \in 0 .. m
  OBVIOUS
<1>2. text \in Seq(S)
  BY <1>1, ListingGrows, Zenon
<1>3. Splits(0)
  <2>1. T(0) = <<>> /\ Len(<<>>) = 0
    BY ListingIs, Zenon
  <2> HIDE DEF T
  <2>2. Split(text)[0] = << <<>> >>
    BY <1>2, SplitIs, Zenon
  <2>3. Lines(distros, 0) = <<>> /\ Append(<<>>, <<>>) = << <<>> >>
    BY DEF Lines
  <2> QED
    BY <2>1, <2>2, <2>3, Zenon
<1>4. ASSUME NEW n \in 1 .. m, Splits(n - 1)
      PROVE  Splits(n)
  <2> DEFINE a == Len(T(n - 1))
             b == Len(T(n - 1)) + Len(distros[n]) + 1
             whole == Lines(distros, n - 1)
             line == distros[n] \o <<CR>>
  <2>1. /\ distros[n] \in Seq(S) /\ T(n - 1) \in Seq(S) /\ T(n) \in Seq(S)
        /\ Continues(T(n), T(n - 1), distros[n])
    BY ListingTurn, Zenon
  <2>2. Begins(T(n), text)
    <3>1. n \in 0 .. m
      BY <1>1
    <3> QED
      BY <3>1, ListingGrows, Zenon
  <2>3. whole \in Seq(Seq(S)) /\ line \in Seq(S) /\ Lines(distros, n) = Append(whole, line)
    <3>1. CR \in S
      OBVIOUS
    <3> QED
      BY <3>1, LinesGrow, Zenon
  <2> HIDE DEF T, whole, text
  <2>4. LineAt(text, a, b, line)
    <3>1. \A i \in 1 .. Len(distros[n]) : distros[n][i] # LF
      BY Zenon
    <3>2. a = Len(T(n - 1))
      BY Zenon
    <3>3. b = Len(T(n - 1)) + Len(distros[n]) + 1
      BY Zenon
    <3> HIDE DEF a, b
    <3>4. {CR, LF} \subseteq S /\ line = distros[n] \o <<CR>>
      BY Zenon
    <3>5. LineAt(text, a, b, distros[n] \o <<CR>>)
      BY ONLY <1>2, <2>1, <2>2, <3>1, <3>2, <3>3, <3>4, LineIs, Zenon
    <3> QED
      BY <3>4, <3>5, Zenon
  <2>5. HasSplit(text, a, whole, <<>>)
    BY <1>4, Zenon DEF whole, HasSplit
  <2>6. b + 1 = Len(T(n))
    <3>1. Len(T(n)) = Len(T(n - 1)) + Len(distros[n]) + 2
      BY <2>1, Zenon DEF Continues
    <3>2. Len(T(n - 1)) \in Nat /\ Len(distros[n]) \in Nat
      BY <2>1
    <3> QED
      BY ONLY <3>1, <3>2
  <2> HIDE DEF a, b, line
  <2>7. HasSplit(text, b + 1, Append(whole, line), <<>>)
    <3>1. text \in Seq(S)
      BY <1>2, Zenon
    <3>2. line \in Seq(S)
      BY <2>3, Zenon
    <3>3. whole \in Seq(Seq(S))
      BY <2>3, Zenon
    <3> QED
      BY ONLY <2>4, <3>1, <3>2, <3>3, <2>5, SplitLine, Zenon
  <2> QED
    BY <2>3, <2>6, <2>7, Zenon DEF HasSplit
<1> HIDE DEF Splits
<1>5. 0 \in Good
  BY <1>1, <1>3
<1>6. \A n \in 1 .. m : n - 1 \in Good => n \in Good
  BY <1>1, <1>4
<1>7. \A n \in Good : Splits(n)
  OBVIOUS
<1> HIDE DEF Good
<1>8. \A n \in 0 .. m : n \in Good
  BY ONLY <1>1, <1>5, <1>6, Induction
<1>9. Splits(m)
  BY <1>1, <1>7, <1>8
<1> QED
  BY <1>9 DEF Splits

(* Trim keeps what is between the first and the last character to keep. *)
LEMMA TrimIs ==
  ASSUME NEW S, NEW line \in Seq(S), NEW cutset, NEW a \in 1 .. Len(line), NEW b \in 1 .. Len(line),
         line[a] \notin cutset, line[b] \notin cutset,
         \A i \in 1 .. Len(line) : i < a \/ b < i => line[i] \in cutset
  PROVE  Trim(line, cutset) = SubSeq(line, a, b)
<1> DEFINE kept == {i \in DOMAIN line : line[i] \notin cutset}
<1>1. DOMAIN line = 1 .. Len(line) /\ Len(line) \in Nat
  OBVIOUS
<1>2. a \in kept /\ b \in kept /\ \A i \in kept : i \in Nat /\ a <= i /\ i <= b
  BY <1>1
<1>3. Trim(line, cutset) = IF kept = {} THEN <<>>
                           ELSE SubSeq(line, CHOOSE i \in kept : \A j \in kept : i <= j,
                                             CHOOSE i \in kept : \A j \in kept : j <= i)
  BY DEF Trim
<1> HIDE DEF kept
<1>4. (CHOOSE i \in kept : \A j \in kept : i <= j) = a
  <2> DEFINE z == CHOOSE i \in kept : \A j \in kept : i <= j
  <2>1. \E i \in kept : \A j \in kept : i <= j
    BY <1>2
  <2>2. z \in kept /\ \A j \in kept : z <= j
    BY <2>1
  <2> HIDE DEF z
  <2>3. z = a
    BY <1>2, <2>2
  <2> QED
    BY <2>3 DEF z
<1>5. (CHOOSE i \in kept : \A j \in kept : j <= i) = b
  <2> DEFINE z == CHOOSE i \in kept : \A j \in kept : j <= i
  <2>1. \E i \in kept : \A j \in kept : j <= i
    BY <1>2
  <2>2. z \in kept /\ \A j \in kept : j <= z
    BY <2>1
  <2> HIDE DEF z
  <2>3. z = b
    BY <1>2, <2>2
  <2> QED
    BY <2>3 DEF z
<1> QED
  BY <1>2, <1>3, <1>4, <1>5, Zenon

(* What has none of the characters is left as it is. *)
LEMMA TrimsNothing ==
  ASSUME NEW S, NEW line \in Seq(S), NEW cutset, \A i \in 1 .. Len(line) : line[i] \notin cutset
  PROVE  Trim(line, cutset) = line
<1>1. CASE line = <<>>
  <2>1. {i \in DOMAIN line : line[i] \notin cutset} = {}
    BY <1>1
  <2> QED
    BY <1>1, <2>1 DEF Trim
<1>2. CASE line # <<>>
  <2>1. 1 \in 1 .. Len(line) /\ Len(line) \in 1 .. Len(line)
    BY <1>2
  <2>2. \A i \in 1 .. Len(line) : i < 1 \/ Len(line) < i => line[i] \in cutset
    OBVIOUS
  <2>3. Trim(line, cutset) = SubSeq(line, 1, Len(line))
    BY <2>1, <2>2, TrimIs
  <2>4. SubSeq(line, 1, Len(line)) = line
    OBVIOUS
  <2> QED
    BY <2>3, <2>4
<1> QED
  BY <1>1, <1>2

(* A name without control characters and spaces. *)
IsName(name) == name # <<>> /\ \A i \in 1 .. Len(name) : name[i] \notin {0, CR, 32}

(* The carriage return is all that is taken from a name. *)
LEMMA NameIsRead ==
  ASSUME NEW S, CR \in S, NEW name, name \in Seq(S), IsName(name)
  PROVE  Trim(Trim(name \o <<CR>>, {0}), {CR, 32}) = name
<1> DEFINE line == name \o <<CR>>
           c == Len(name)
<1>1. c \in Nat /\ c > 0 /\ \A i \in 1 .. c : name[i] \notin {0, CR, 32}
  BY DEF IsName
<1>2. /\ line \in Seq(S) /\ Len(line) = c + 1 /\ line[c + 1] = CR
      /\ \A i \in 1 .. c : line[i] = name[i]
  OBVIOUS
<1>3. SubSeq(line, 1, c) = name
  <2> DEFINE p == SubSeq(line, 1, c)
  <2> HIDE DEF line
  <2>1. p \in Seq(S) /\ Len(p) = c /\ \A i \in 1 .. c : p[i] = line[i]
    BY <1>1, <1>2
  <2> HIDE DEF p
  <2>2. p = name
    BY <1>2, <2>1, SeqEqual
  <2> QED
    BY <2>2 DEF p
<1> HIDE DEF line, c
<1>4. Trim(line, {0}) = line
  <2>1. \A i \in 1 .. Len(line) : line[i] \notin {0}
    BY <1>1, <1>2 DEF CR
  <2> QED
    BY <1>2, <2>1, TrimsNothing
<1>5. Trim(line, {CR, 32}) = name
  <2>1. 1 \in 1 .. Len(line) /\ c \in 1 .. Len(line)
    BY <1>1, <1>2
  <2>2. line[1] \notin {CR, 32} /\ line[c] \notin {CR, 32}
    BY <1>1, <1>2
  <2>3. \A i \in 1 .. Len(line) : i < 1 \/ c < i => line[i] \in {CR, 32}
    BY <1>1, <1>2
  <2>4. Trim(line, {CR, 32}) = SubSeq(line, 1, c)
    <3> DEFINE cutset == {CR, 32}
    <3>1. line[1] \notin cutset /\ line[c] \notin cutset
      BY <2>2
    <3>2. \A i \in 1 .. Len(line) : i < 1 \/ c < i => line[i] \in cutset
      BY <2>3
    <3>3. line \in Seq(S)
      BY <1>2
    <3> HIDE DEF cutset
    <3>4. Trim(line, cutset) = SubSeq(line, 1, c)
      BY ONLY <2>1, <3>1, <3>2, <3>3, TrimIs
    <3> QED
      BY <3>4 DEF cutset
  <2> QED
    BY <1>3, <2>4
<1> QED
  BY <1>4, <1>5 DEF line

(* The names are read from the lines of wsl.exe, the empty line is none. *)
LEMMA LinesAreNamed ==
  ASSUME NEW S, CR \in S, NEW distros, distros \in Seq(Seq(S)),
         \A k \in 1 .. Len(distros) : IsName(distros[k]),
         NEW lines, lines = Append(Lines(distros, Len(distros)), <<>>)
  PROVE  Named(lines)[Len(lines)] = distros
<1> DEFINE m == Len(distros)
           Reads(n) == Named(lines)[n] = SubSeq(distros, 1, n)
           Good == {n \in 0 .. m : Reads(n)}
<1>1. m \in Nat
  OBVIOUS
<1>2. /\ lines \in Seq(Seq(S)) /\ Len(lines) = m + 1 /\ lines[m + 1] = <<>>
      /\ \A k \in 1 .. m : lines[k] = distros[k] \o <<CR>>
  <2> DEFINE Q == Seq(S)
             L == Lines(distros, m)
  <2>1. \A k \in 1 .. m : distros[k] \o <<CR>> \in Q
    <3> SUFFICES ASSUME NEW k \in 1 .. m
                 PROVE  distros[k] \o <<CR>> \in Seq(S)
      OBVIOUS
    <3>1. distros[k] \in Seq(S) /\ <<CR>> \in Seq(S)
      OBVIOUS
    <3> QED
      BY <3>1
  <2>2. <<>> \in Q
    OBVIOUS
  <2> HIDE DEF Q, m
  <2>3. L \in [1 .. m -> Q] /\ \A k \in 1 .. m : L[k] = distros[k] \o <<CR>>
    BY ONLY <1>1, <2>1 DEF Lines
  <2> HIDE DEF L
  <2>4. L \in Seq(Q) /\ Len(L) = m
    BY ONLY <1>1, <2>3
  <2>5. lines = Append(L, <<>>)
    BY DEF L, m
  <2>6. lines \in Seq(Q) /\ Len(lines) = m + 1 /\ lines[m + 1] = <<>> /\ \A k \in 1 .. m : lines[k] = L[k]
    BY ONLY <1>1, <2>2, <2>4, <2>5
  <2> QED
    BY <2>3, <2>6, Zenon DEF Q, m
<1>3. Reads(0)
  <2>1. Named(lines)[0] = <<>>
    BY <1>2, NamedIs, Zenon
  <2>2. SubSeq(distros, 1, 0) = <<>>
    OBVIOUS
  <2> QED
    BY <2>1, <2>2, Zenon
<1>4. ASSUME NEW n \in 1 .. m, Reads(n - 1)
      PROVE  Reads(n)
  <2>1. Trim(Trim(lines[n], {0}), {CR, 32}) = distros[n] /\ distros[n] # <<>>
    <3>1. distros[n] \in Seq(S)
      OBVIOUS
    <3>2. IsName(distros[n])
      OBVIOUS
    <3>3. Trim(Trim(distros[n] \o <<CR>>, {0}), {CR, 32}) = distros[n]
      BY <3>1, <3>2, NameIsRead, Zenon
    <3> QED
      BY <1>2, <3>2, <3>3, Zenon DEF IsName
  <2>2. Named(lines)[n] = IF Trim(Trim(lines[n], {0}), {CR, 32}) # <<>>
                          THEN Append(Named(lines)[n - 1], Trim(Trim(lines[n], {0}), {CR, 32}))
                          ELSE Named(lines)[n - 1]
    <3>1. n \in 1 .. Len(lines)
      BY <1>1, <1>2
    <3>2. LET name == Trim(Trim(lines[n], {0}), {CR, 32})
          IN Named(lines)[n] = IF name # <<>> THEN Append(Named(lines)[n - 1], name)
                               ELSE Named(lines)[n - 1]
      BY <1>2, <3>1, NamedIs, Zenon
    <3> QED
      BY <3>2, Zenon
  <2>3. Named(lines)[n] = Append(SubSeq(distros, 1, n - 1), distros[n])
    BY <1>4, <2>1, <2>2, Zenon
  <2>4. SubSeq(distros, 0 + 1, n) = Append(SubSeq(distros, 0 + 1, n - 1), distros[n])
    <3> DEFINE Q == Seq(S)
    <3>1. distros \in Seq(Q) /\ 0 \in Nat /\ n \in 0 + 1 .. Len(distros)
      OBVIOUS
    <3> HIDE DEF Q
    <3> QED
      BY ONLY <3>1, SubSeqGrows
  <2>5. 0 + 1 = 1
    OBVIOUS
  <2> QED
    BY <2>3, <2>4, <2>5, Zenon
<1> HIDE DEF Reads
<1>5. 0 \in Good
  BY <1>1, <1>3
<1>6. \A n \in 1 .. m : n - 1 \in Good => n \in Good
  BY <1>1, <1>4
<1>7. \A n \in Good : Reads(n)
  OBVIOUS
<1> HIDE DEF Good
<1>8. \A n \in 0 .. m : n \in Good
  BY ONLY <1>1, <1>5, <1>6, Induction
<1>9. Reads(m)
  <2>1. m \in 0 .. m
    BY <1>1
  <2> QED
    BY <1>7, <1>8, <2>1
<1>10. Named(lines)[m] = distros
  <2>1. SubSeq(distros, 1, m) = distros
    <3> DEFINE Q == Seq(S)
    <3>1. distros \in Seq(Q)
      OBVIOUS
    <3> HIDE DEF Q
    <3> QED
      BY ONLY <3>1
  <2> QED
    BY <1>9, <2>1, Zenon DEF Reads
<1>11. Trim(Trim(lines[m + 1], {0}), {CR, 32}) = <<>>
  <2>1. \A c : Trim(<<>>, c) = <<>>
    BY DEF Trim
  <2> QED
    BY <1>2, <2>1, Zenon
<1>12. Named(lines)[m + 1] = Named(lines)[(m + 1) - 1]
  <2>1. m + 1 \in 1 .. Len(lines)
    BY <1>1, <1>2
  <2>2. LET name == Trim(Trim(lines[m + 1], {0}), {CR, 32})
        IN Named(lines)[m + 1] = IF name # <<>> THEN Append(Named(lines)[(m + 1) - 1], name)
                                 ELSE Named(lines)[(m + 1) - 1]
    BY <1>2, <2>1, NamedIs, Zenon
  <2> QED
    BY <1>11, <2>2, Zenon
<1>13. (m + 1) - 1 = m
  BY <1>1
<1> QED
  BY <1>2, <1>10, <1>12, <1>13, Zenon

(* The characters of names and line ends. *)
IsText(S) == S \subseteq Nat /\ {CR, LF} \subseteq S /\ 0 \notin S

(* Decode gives back what wsl.exe encodes, if the first high byte is 0. *)
LEMMA DecodesUTF16 ==
  ASSUME NEW text, text \in Seq(Nat), text = <<>> \/ text[1] < 256
  PROVE  Decode(EncodeUTF16(text)) = text
<1> DEFINE bytes == EncodeUTF16(text)
           m == Len(text)
<1>1. m \in Nat /\ \A i \in 1 .. m : text[i] \in Nat
  OBVIOUS
<1>2. bytes = [i \in 1 .. 2 * m |-> IF i % 2 = 1 THEN text[(i + 1) \div 2] % 256
                                    ELSE text[i \div 2] \div 256]
  BY DEF EncodeUTF16
<1>3. DOMAIN bytes = 1 .. 2 * m
  BY <1>2
<1> HIDE DEF bytes
<1>4. \A i \in 1 .. m : bytes[2 * i - 1] = text[i] % 256 /\ bytes[2 * i] = text[i] \div 256
  <2> SUFFICES ASSUME NEW i \in 1 .. m
               PROVE  bytes[2 * i - 1] = text[i] % 256 /\ bytes[2 * i] = text[i] \div 256
    OBVIOUS
  <2> HIDE DEF m
  <2>1. /\ 2 * i - 1 \in 1 .. 2 * m /\ 2 * i \in 1 .. 2 * m
        /\ (2 * i - 1) % 2 = 1 /\ (2 * i) % 2 = 0
        /\ ((2 * i - 1) + 1) \div 2 = i /\ (2 * i) \div 2 = i
    <3>1. i \in Nat /\ m \in Nat /\ i \in 1 .. m
      BY <1>1
    <3>2. 2 * i - 1 \in 1 .. 2 * m /\ 2 * i \in 1 .. 2 * m
      BY ONLY <3>1, SMT
    <3>3. (2 * i - 1) % 2 = 1
      BY ONLY <3>1, SMT
    <3>4. (2 * i) % 2 = 0
      BY ONLY <3>1, SMT
    <3>5. ((2 * i - 1) + 1) \div 2 = i
      BY ONLY <3>1, SMT
    <3>6. (2 * i) \div 2 = i
      BY ONLY <3>1, SMT
    <3> QED
      BY <3>2, <3>3, <3>4, <3>5, <3>6, Zenon
  <2> DEFINE j == 2 * i - 1
             k == 2 * i
  <2>2. bytes[j] = IF j % 2 = 1 THEN text[(j + 1) \div 2] % 256 ELSE text[j \div 2] \div 256
    BY <1>2, <2>1, Zenon
  <2>3. bytes[k] = IF k % 2 = 1 THEN text[(k + 1) \div 2] % 256 ELSE text[k \div 2] \div 256
    BY <1>2, <2>1, Zenon
  <2>4. 0 # 1
    OBVIOUS
  <2> QED
    BY <2>1, <2>2, <2>3, <2>4, Zenon
<1>5. Len(bytes) = 2 * m /\ Len(bytes) \div 2 = m
  <2> HIDE DEF m
  <2>1. Len(bytes) = 2 * m
    BY ONLY <1>1, <1>2
  <2>2. (2 * m) \div 2 = m
    BY ONLY <1>1, SMT
  <2> QED
    BY <2>1, <2>2, Zenon
<1>6. CASE text = <<>>
  <2>1. Len(bytes) = 0 /\ bytes = <<>>
    BY <1>2, <1>5, <1>6
  <2>2. ~IsUTF16(bytes)
    BY <2>1 DEF IsUTF16
  <2> QED
    BY <1>6, <2>1, <2>2, Zenon DEF Decode, bytes
<1>7. CASE text # <<>>
  <2>1. m >= 1 /\ text[1] < 256 /\ text[1] \in Nat
    BY <1>1, <1>7
  <2>2. bytes[2] = text[1] \div 256
    <3>1. 2 * 1 = 2 /\ 1 \in 1 .. m
      BY <1>1, <2>1
    <3> QED
      BY <1>4, <3>1
  <2>3. bytes[2] = 0
    <3>1. text[1] \div 256 = 0
      <4> DEFINE t == text[1]
      <4>1. t \in Nat /\ t < 256
        BY <2>1
      <4> HIDE DEF t
      <4>2. t \div 256 = 0
        BY ONLY <4>1, SMT
      <4> QED
        BY <4>2, Zenon DEF t
    <3> QED
      BY <2>2, <3>1, Zenon
  <2>4. IsUTF16(bytes)
    BY <1>1, <1>5, <2>1, <2>3 DEF IsUTF16
  <2>5. Decode(bytes) = [i \in 1 .. m |-> bytes[2 * i - 1] + 256 * bytes[2 * i]]
    BY <1>5, <2>4, Zenon DEF Decode
  <2>6. \A i \in 1 .. m : bytes[2 * i - 1] + 256 * bytes[2 * i] = text[i]
    <3> SUFFICES ASSUME NEW i \in 1 .. m
                 PROVE  bytes[2 * i - 1] + 256 * bytes[2 * i] = text[i]
      OBVIOUS
    <3> DEFINE t == text[i]
    <3>1. t \in Nat
      BY <1>1
    <3>2. bytes[2 * i - 1] = t % 256 /\ bytes[2 * i] = t \div 256
      BY <1>4, Zenon
    <3> HIDE DEF t
    <3>3. (t % 256) + 256 * (t \div 256) = t
      BY ONLY <3>1, SMT
    <3> QED
      BY <3>2, <3>3, Zenon DEF t
  <2>7. Decode(bytes) = [i \in 1 .. m |-> text[i]]
    BY ONLY <2>5, <2>6
  <2>8. text = [i \in 1 .. m |-> text[i]]
    OBVIOUS
  <2> QED
    BY <2>7, <2>8, Zenon DEF bytes
<1> QED
  BY <1>6, <1>7

(* Plain text is left as it is. *)
LEMMA DecodesPlain ==
  ASSUME NEW S, IsText(S), NEW text, text \in Seq(S)
  PROVE  Decode(text) = text
<1>1. Len(text) >= 2 => text[2] # 0
  BY DEF IsText
<1> QED
  BY <1>1 DEF Decode, IsUTF16

(* Names of these characters are read from what wsl.exe makes of them. *)
LEMMA ListingIsRead ==
  ASSUME NEW S, IsText(S), NEW distros, distros \in Seq(Seq(S)),
         \A k \in 1 .. Len(distros) : IsName(distros[k]),
         \A k \in 1 .. Len(distros) : \A i \in 1 .. Len(distros[k]) : distros[k][i] # LF,
         NEW bytes, Decode(bytes) = Listing(distros)[Len(distros)]
  PROVE  ListDistros(bytes) = distros
<1> DEFINE text == Listing(distros)[Len(distros)]
           lines == Split(text)[Len(text)]
<1>1. {CR, LF} \subseteq S /\ CR \in S
  BY DEF IsText
<1>2. lines = Append(Lines(distros, Len(distros)), <<>>)
  BY <1>1, ListingSplits, Zenon
<1> HIDE DEF lines
<1>3. Named(lines)[Len(lines)] = distros
  BY <1>1, <1>2, LinesAreNamed, Zenon
<1>4. ListDistros(bytes) = Named(lines)[Len(lines)]
  BY Zenon DEF ListDistros, lines
<1> QED
  BY <1>3, <1>4, Zenon

(* The first character wsl.exe writes. *)
LEMMA ListingBegins ==
  ASSUME NEW S, {CR, LF} \subseteq S, NEW distros, distros \in Seq(Seq(S)), distros # <<>>, distros[1] # <<>>
  PROVE  Listing(distros)[Len(distros)][1] = distros[1][1]
<1> DEFINE T(n) == Listing(distros)[n]
           text == T(Len(distros))
<1>1. 1 \in 1 .. Len(distros) /\ 1 \in 0 .. Len(distros) /\ 1 - 1 = 0
  <2> DEFINE Q == Seq(S)
  <2>1. distros \in Seq(Q)
    OBVIOUS
  <2> HIDE DEF Q
  <2> QED
    BY ONLY <2>1, distros # <<>>
<1>2. distros[1] \in Seq(S) /\ Continues(T(1), T(1 - 1), distros[1])
  BY <1>1, ListingTurn, Zenon
<1>3. Begins(T(1), text)
  BY <1>1, ListingGrows, Zenon
<1>4. T(0) = <<>> /\ Len(<<>>) = 0
  BY ListingIs, Zenon
<1> HIDE DEF T, text
<1>5. Len(distros[1]) \in Nat /\ 1 \in 1 .. Len(distros[1])
  BY ONLY <1>2, distros[1] # <<>>
<1>6. Len(T(1 - 1)) = 0
  BY <1>1, <1>4, Zenon
<1>7. Len(T(1)) = 0 + Len(distros[1]) + 2 /\ \A i \in 1 .. Len(distros[1]) : T(1)[0 + i] = distros[1][i]
  BY <1>2, <1>6, Zenon DEF Continues
<1>8. 1 \in 1 .. Len(T(1)) /\ 0 + 1 = 1
  BY <1>5, <1>7
<1>9. T(1)[1] = distros[1][1]
  BY <1>5, <1>7, <1>8, Zenon
<1>10. text[1] = T(1)[1]
  BY <1>3, <1>8, Zenon DEF Begins
<1> QED
  BY <1>9, <1>10, Zenon DEF T, text

(* What ListDistros finds, in UTF-16 and in plain text. *)
LEMMA DistrosOf ==
  ASSUME NEW S, IsText(S), NEW distros, distros \in Seq(Seq(S)),
         \A k \in 1 .. Len(distros) : IsName(distros[k]),
         \A k \in 1 .. Len(distros) : \A i \in 1 .. Len(distros[k]) : distros[k][i] # LF,
         NEW text, text = Listing(distros)[Len(distros)]
  PROVE  /\ ListDistros(text) = distros
         /\ distros = <<>> \/ distros[1][1] < 256 => ListDistros(EncodeUTF16(text)) = distros
<1>1. {CR, LF} \subseteq S /\ S \subseteq Nat
  BY DEF IsText
<1>2. text \in Seq(S)
  <2>1. Len(distros) \in 0 .. Len(distros)
    OBVIOUS
  <2> QED
    BY <1>1, <2>1, ListingGrows, Zenon
<1>3. ListDistros(text) = distros
  <2>1. Decode(text) = text
    BY <1>2, DecodesPlain, Zenon
  <2>2. Decode(text) = Listing(distros)[Len(distros)]
    BY <2>1, Zenon
  <2> QED
    BY <2>2, ListingIsRead, Zenon
<1>4. ASSUME distros = <<>> \/ distros[1][1] < 256
      PROVE  ListDistros(EncodeUTF16(text)) = distros
  <2>1. text = <<>> \/ text[1] < 256
    <3>1. CASE distros = <<>>
      <4>1. Len(distros) = 0
        BY <3>1
      <4>2. Listing(distros)[0] = <<>>
        BY <1>1, ListingIs, Zenon
      <4> QED
        BY <4>1, <4>2, Zenon
    <3>2. CASE distros # <<>>
      <4>1. distros[1] # <<>>
        <5> DEFINE Q == Seq(S)
        <5>1. distros \in Seq(Q)
          OBVIOUS
        <5> HIDE DEF Q
        <5>2. 1 \in 1 .. Len(distros)
          BY ONLY <5>1, <3>2
        <5> QED
          BY <5>2, Zenon DEF IsName
      <4>2. text[1] = distros[1][1]
        BY <1>1, <3>2, <4>1, ListingBegins, Zenon
      <4> QED
        BY <1>4, <3>2, <4>2, Zenon
    <3> QED
      BY <3>1, <3>2
  <2>2. text \in Seq(Nat)
    <3>1. S \subseteq Nat
      BY <1>1
    <3>2. Len(text) \in Nat /\ text \in [1 .. Len(text) -> S]
      BY ONLY <1>2
    <3>3. text \in [1 .. Len(text) -> Nat]
      BY ONLY <3>1, <3>2
    <3> QED
      BY ONLY <3>2, <3>3
  <2>3. Decode(EncodeUTF16(text)) = text
    BY <2>1, <2>2, DecodesUTF16, Zenon
  <2>4. Decode(EncodeUTF16(text)) = Listing(distros)[Len(distros)]
    BY <2>3, Zenon
  <2> QED
    BY <2>4, ListingIsRead, Zenon
<1> QED
  BY <1>3, <1>4

(* However many distros with names of whatever length wsl.exe lists, the   *)
(* program reads their names, in their order, from UTF-16 and from plain   *)
(* ASCII: no letter is taken for the end of a line or of the name.  Only   *)
(* UTF-16 whose first letter has a high byte other than 0 is misread.      *)
THEOREM DistrosAreAlwaysRead == Spec => []DistrosAreRead
<1>1. Init => DistrosAreRead
  <2>1. Init => done.call = "none"
    BY DEF Init
  <2> QED
    BY <2>1, Zenon DEF DistrosAreRead, Is
<1>2. DistrosAreRead /\ [Next]_done => DistrosAreRead'
  <2> SUFFICES ASSUME DistrosAreRead, [Next]_done
               PROVE  DistrosAreRead'
    OBVIOUS
  <2>1. CASE ReadDistros
    <3> DEFINE S == Letters \union {CR, LF}
               N == SeqOf(Letters, Short) \ {<<>>}
               listing(distros) == Listing(distros)[Len(distros)]
    <3>1. PICK distros \in SeqOf(N, Short), wide \in BOOLEAN :
            Call("distros", <<distros, wide>>,
                 ListDistros(IF wide THEN EncodeUTF16(listing(distros)) ELSE listing(distros)))
      BY <2>1, Zenon DEF ReadDistros
    <3>2. /\ done'.arg[1] = distros /\ done'.arg[2] = wide
          /\ done'.result = ListDistros(IF wide THEN EncodeUTF16(listing(distros)) ELSE listing(distros))
      <4> HIDE DEF listing
      <4> QED
        BY <3>1 DEF Call
    <3>3. Short \in Nat
      BY ConversionsAssumption
    <3>4. IsText(S)
      BY DEF IsText, Letters, CR, LF
    <3>5. \A name \in N : name \in Seq(S) /\ IsName(name) /\ \A i \in 1 .. Len(name) : name[i] # LF
      <4> SUFFICES ASSUME NEW name \in SeqOf(Letters, Short), name # <<>>
                   PROVE  name \in Seq(S) /\ IsName(name) /\ \A i \in 1 .. Len(name) : name[i] # LF
        OBVIOUS
      <4>1. name \in Seq(Letters)
        BY <3>3, SeqOfIsSeq
      <4>2. \A i \in 1 .. Len(name) : name[i] \in Letters
        BY <4>1
      <4>3. \A i \in 1 .. Len(name) : name[i] \notin {0, CR, 32} /\ name[i] # LF
        BY <4>2 DEF Letters, CR, LF
      <4> QED
        BY <4>1, <4>3 DEF IsName
    <3> HIDE DEF N, S
    <3>6. distros \in Seq(N)
      BY <3>3, SeqOfIsSeq
    <3>7. /\ distros \in Seq(Seq(S))
          /\ \A k \in 1 .. Len(distros) : IsName(distros[k])
          /\ \A k \in 1 .. Len(distros) : \A i \in 1 .. Len(distros[k]) : distros[k][i] # LF
      <4>1. \A k \in 1 .. Len(distros) : distros[k] \in N
        BY <3>6
      <4>2. N \subseteq Seq(S)
        BY <3>5
      <4> QED
        BY <3>5, <3>6, <4>1, <4>2
    <3>8. /\ ListDistros(listing(distros)) = distros
          /\ distros = <<>> \/ distros[1][1] < 256 => ListDistros(EncodeUTF16(listing(distros))) = distros
      <4>1. PICK text : text = listing(distros)
        OBVIOUS
      <4>2. /\ ListDistros(text) = distros
            /\ distros = <<>> \/ distros[1][1] < 256 => ListDistros(EncodeUTF16(text)) = distros
        BY <3>4, <3>7, <4>1, DistrosOf, Zenon
      <4> QED
        BY <4>1, <4>2, Zenon
    <3> HIDE DEF listing
    <3>9. CASE wide
      <4>1. done'.result = distros \/ (distros # <<>> /\ ~(distros[1][1] < 256))
        BY <3>2, <3>8, <3>9, Zenon
      <4>2. distros # <<>> => distros[1][1] \in Nat
        <5> SUFFICES ASSUME distros # <<>>
                     PROVE  distros[1][1] \in Nat
          OBVIOUS
        <5>1. distros[1] \in N
          BY <3>6
        <5>2. distros[1] \in Seq(S) /\ distros[1] # <<>>
          BY <3>5, <5>1, Zenon DEF IsName
        <5>3. S \subseteq Nat
          BY <3>4, Zenon DEF IsText
        <5> DEFINE name == distros[1]
        <5>4. name \in Seq(S) /\ name # <<>>
          BY <5>2, Zenon
        <5> HIDE DEF name
        <5>5. name[1] \in S
          BY ONLY <5>4
        <5> QED
          BY <5>3, <5>5, Zenon DEF name
      <4>3. distros # <<>> /\ ~(distros[1][1] < 256) => distros[1][1] >= 256
        <5> DEFINE first == distros[1][1]
        <5> HIDE DEF first
        <5>1. ASSUME first \in Nat, ~(first < 256)
              PROVE  first >= 256
          BY ONLY <5>1, SMT
        <5>2. first \in Nat /\ ~(first < 256) => first >= 256
          BY <5>1
        <5> QED
          BY <4>2, <5>2, Zenon DEF first
      <4> QED
        BY <3>2, <3>9, <4>1, <4>3, Zenon DEF DistrosAreRead
    <3>10. CASE ~wide
      BY <3>2, <3>8, <3>10, Zenon DEF DistrosAreRead
    <3> QED
      BY <3>9, <3>10
  <2>2. CASE Next /\ ~ReadDistros
    BY <2>2, CallOf, Zenon DEF Next, DistrosAreRead, Is
  <2>3. CASE UNCHANGED done
    BY <2>3, Zenon DEF DistrosAreRead, Is
  <2> QED
    BY <2>1, <2>2, <2>3
<1> QED
  BY <1>1, <1>2, PTL DEF Spec

-----------------------------------------------------------------------------
(* eth0_gateway of stopScript *)

(* One factor more makes a product greater by the other. *)
LEMMA ProductGrows ==
  ASSUME NEW p \in Nat, NEW q \in Nat, NEW s \in Nat, q < s
  PROVE  q * p + p <= s * p
<1> DEFINE d == s - q - 1
<1>1. d \in Nat /\ s = q + 1 + d
  OBVIOUS
<1> HIDE DEF d
<1>2. d * p >= 0 /\ d * p \in Int /\ q * p \in Int
  BY <1>1, SMT
<1>3. (q + 1 + d) * p = q * p + p + d * p
  BY <1>1, SMT
<1> QED
  BY <1>1, <1>2, <1>3, SMT

(* Division leaves a quotient and a remainder, *)
LEMMA DivMod ==
  ASSUME NEW x \in Nat, NEW p \in Nat \ {0}
  PROVE  /\ x \div p \in Nat /\ x % p \in Nat /\ x % p < p
         /\ x = (x \div p) * p + (x % p)
  BY SMT

(* and these are the only ones. *)
LEMMA DivIs ==
  ASSUME NEW p \in Nat \ {0}, NEW q \in Nat, NEW r \in 0 .. p - 1, NEW x, x = q * p + r
  PROVE  x \div p = q /\ x % p = r
<1>1. x \in Nat
  BY SMT
<1> DEFINE s == x \div p
           t == x % p
<1>2. s \in Nat /\ t \in 0 .. p - 1 /\ x = s * p + t
  BY <1>1, DivMod
<1> HIDE DEF s, t
<1>3. q * p \in Int /\ s * p \in Int
  BY <1>2, SMT
<1>4. ~(q < s)
  <2> SUFFICES ASSUME q < s PROVE FALSE
    OBVIOUS
  <2>1. q * p + p <= s * p
    BY <1>2, ProductGrows
  <2> QED
    BY <1>2, <1>3, <2>1, SMT
<1>5. ~(s < q)
  <2> SUFFICES ASSUME s < q PROVE FALSE
    OBVIOUS
  <2>1. s * p + p <= q * p
    BY <1>2, ProductGrows
  <2> QED
    BY <1>2, <1>3, <2>1, SMT
<1>6. q = s
  BY <1>2, <1>4, <1>5, SMT
<1>7. r = t
  BY <1>2, <1>3, <1>6, SMT
<1> QED
  BY <1>6, <1>7 DEF s, t

(* The width of an address. *)
LEMMA BitsAre == W \in Nat \ {0} /\ Bits \in Nat /\ Bits = 4 * W /\ 2 * Bits \in Nat /\ Bits <= 2 * Bits
  BY ConversionsAssumption DEF Bits

(* The powers of two up to that of twice the width of an address. *)
LEMMA PowerIs ==
  /\ \A n \in 0 .. 2 * Bits : Power[n] \in Nat \ {0}
  /\ Power[0] = 1
  /\ \A n \in 1 .. 2 * Bits : Power[n] = 2 * Power[n - 1]
<1> DEFINE m == 2 * Bits
           T == Nat \ {0}
           base == 1
           Body(x) == 2 * x
           Eq(f) == f = [n \in 0 .. m |-> IF n = 0 THEN base ELSE Body(f[n - 1])]
           step == [n \in 1 .. m |-> [x \in T |-> Body(x)]]
           loop == Power
<1>1. loop = CHOOSE f : Eq(f)
  BY DEF Power
<1>2. m \in Nat /\ base \in T
  BY BitsAre
<1>3. \A x \in T : Body(x) \in T
  OBVIOUS
<1> HIDE DEF T, Body, m, base, loop
<1>4. Eq(loop)
  <2>1. step \in [1 .. m -> [T -> T]]
    BY <1>3
  <2>2. \E f \in [0 .. m -> T] : f[0] = base /\ \A n \in 1 .. m : f[n] = step[n][f[n - 1]]
    <3> HIDE DEF step
    <3> QED
      BY ONLY <1>2, <2>1, LoopExists
  <2>3. PICK f \in [0 .. m -> T] : f[0] = base /\ \A n \in 1 .. m : f[n] = step[n][f[n - 1]]
    BY <2>2
  <2>4. \A n \in 1 .. m : f[n - 1] \in T
    BY <1>2
  <2>5. \A n \in 1 .. m : f[n] = Body(f[n - 1])
    BY <2>3, <2>4
  <2>6. Eq(f)
    BY <1>2, <2>3, <2>5
  <2> HIDE DEF Eq
  <2> QED
    BY <1>1, <2>6
<1>5. loop[0] = base /\ \A n \in 1 .. m : loop[n] = Body(loop[n - 1])
  BY <1>2, <1>4
<1>6. \A n \in 0 .. m : loop[n] \in T
  <2>1. loop[0] \in T /\ \A n \in 1 .. m : loop[n - 1] \in T => loop[n] \in T
    BY <1>2, <1>3, <1>5
  <2> QED
    BY <1>2, <2>1, LoopStays
<1> QED
  BY <1>5, <1>6 DEF Body, T, m, base, loop

(* A sum of exponents is a product of powers. *)
LEMMA PowerSum ==
  ASSUME NEW i \in Nat, NEW j \in Nat, i + j <= 2 * Bits
  PROVE  Power[i + j] = Power[i] * Power[j]
<1> DEFINE Good == {n \in 0 .. j : Power[i + n] = Power[i] * Power[n]}
           m == 2 * Bits
<1>1. m \in Nat /\ i + j <= m
  BY BitsAre
<1>2. /\ \A n \in 0 .. m : Power[n] \in Nat \ {0}
      /\ Power[0] = 1
      /\ \A n \in 1 .. m : Power[n] = 2 * Power[n - 1]
  BY PowerIs
<1> HIDE DEF m
<1>3. 0 \in Good
  <2>1. Power[i] \in Nat
    BY <1>1, <1>2
  <2>2. Power[i] * 1 = Power[i]
    BY <2>1, SMT
  <2>3. i + 0 = i /\ 0 \in 0 .. j
    OBVIOUS
  <2> QED
    BY <1>2, <2>2, <2>3
<1>4. \A n \in 1 .. j : n - 1 \in Good => n \in Good
  <2> SUFFICES ASSUME NEW n \in 1 .. j, n - 1 \in Good
               PROVE  n \in Good
    OBVIOUS
  <2> DEFINE a == Power[i]
             b == Power[n - 1]
             c == Power[i + (n - 1)]
  <2>1. c = a * b
    OBVIOUS
  <2>2. n \in 1 .. m /\ i + n \in 1 .. m /\ (i + n) - 1 = i + (n - 1) /\ i \in 0 .. m /\ n - 1 \in 0 .. m
    BY <1>1
  <2>3. Power[n] = 2 * b /\ Power[i + n] = 2 * c /\ a \in Nat /\ b \in Nat
    BY <1>2, <2>2
  <2> HIDE DEF a, b, c
  <2>4. 2 * (a * b) = a * (2 * b)
    BY <2>3, SMT
  <2>5. Power[i + n] = a * Power[n]
    BY <2>1, <2>3, <2>4
  <2> QED
    BY <2>5 DEF a
<1>5. \A n \in Good : Power[i + n] = Power[i] * Power[n]
  OBVIOUS
<1> HIDE DEF Good
<1>6. \A n \in 0 .. j : n \in Good
  BY ONLY <1>3, <1>4, j \in Nat, Induction
<1> QED
  BY <1>5, <1>6

(* A number up to bit n. *)
LEMMA BitIs ==
  ASSUME NEW x \in Nat, NEW n \in 1 .. 2 * Bits
  PROVE  /\ Bit(x, n - 1) \in {0, 1}
         /\ x % Power[n] = (x % Power[n - 1]) + Power[n - 1] * Bit(x, n - 1)
<1> DEFINE p == Power[n - 1]
           q == x \div p
           r == x % p
           s == q \div 2
           t == q % 2
<1>1. p \in Nat \ {0} /\ Power[n] = 2 * p
  <2>1. n - 1 \in 0 .. 2 * Bits
    BY BitsAre
  <2> QED
    BY <2>1, PowerIs
<1> HIDE DEF p
<1>2. q \in Nat /\ r \in Nat /\ r < p /\ x = q * p + r
  BY <1>1, DivMod
<1> HIDE DEF q, r
<1>3. s \in Nat /\ t \in {0, 1} /\ q = 2 * s + t
  BY <1>2, SMT
<1>4. Bit(x, n - 1) = t
  BY DEF Bit, p, q
<1> HIDE DEF s, t
<1>5. q * p = s * (2 * p) + p * t
  <2>1. CASE t = 0
    <3>1. (2 * s) * p = s * (2 * p)
      BY <1>1, <1>3, SMT
    <3> QED
      BY <1>1, <1>3, <2>1, <3>1
  <2>2. CASE t = 1
    <3>1. (2 * s + 1) * p = s * (2 * p) + p
      BY <1>1, <1>3, SMT
    <3> QED
      BY <1>1, <1>3, <2>2, <3>1
  <2> QED
    BY <1>3, <2>1, <2>2
<1>6. p * t + r \in 0 .. 2 * p - 1 /\ p * t \in Nat
  <2>1. CASE t = 0
    BY <1>1, <1>2, <2>1
  <2>2. CASE t = 1
    BY <1>1, <1>2, <2>2
  <2> QED
    BY <1>3, <2>1, <2>2
<1>7. x = s * (2 * p) + (p * t + r)
  <2> DEFINE a == s * (2 * p)
             b == p * t
             c == q * p
  <2>1. a \in Int /\ b \in Nat /\ c \in Int
    BY <1>1, <1>2, <1>3, <1>6, SMT
  <2>2. c = a + b /\ x = c + r
    BY <1>2, <1>5
  <2> HIDE DEF a, b, c
  <2>3. x = a + (b + r)
    BY <1>2, <2>1, <2>2
  <2> QED
    BY <2>3 DEF a, b
<1>8. x % (2 * p) = p * t + r
  <2>1. 2 * p \in Nat \ {0}
    BY <1>1
  <2> QED
    <3> DEFINE z == 2 * p
               y == p * t + r
    <3>1. z \in Nat \ {0} /\ y \in 0 .. z - 1 /\ x = s * z + y
      BY <1>6, <1>7, <2>1
    <3> HIDE DEF z, y
    <3>2. x % z = y
      BY ONLY <1>3, <3>1, DivIs
    <3> QED
      BY <3>2 DEF z, y
<1>9. x % Power[n] = r + p * t
  BY <1>1, <1>2, <1>6, <1>8
<1> QED
  BY <1>3, <1>4, <1>9 DEF p, r

(* The powers divide and are at most the later ones. *)
LEMMA PowerGrows ==
  ASSUME NEW i \in Nat, NEW j \in Nat, i <= j, j <= 2 * Bits
  PROVE  /\ Power[i] \in Nat \ {0} /\ Power[j] \in Nat \ {0} /\ Power[i] <= Power[j]
         /\ Power[j] = Power[j - i] * Power[i] /\ Power[j - i] \in Nat \ {0}
<1>1. 2 * Bits \in Nat
  BY BitsAre
<1> DEFINE m == 2 * Bits
<1> HIDE DEF m
<1>2. j - i \in Nat /\ i + (j - i) = j /\ i \in 0 .. m /\ j \in 0 .. m /\ j - i \in 0 .. m
  BY <1>1 DEF m
<1>3. Power[i] \in Nat \ {0} /\ Power[j] \in Nat \ {0} /\ Power[j - i] \in Nat \ {0}
  BY <1>2, PowerIs DEF m
<1>4. Power[i + (j - i)] = Power[i] * Power[j - i]
  BY <1>2, PowerSum DEF m
<1> DEFINE a == Power[i]
           b == Power[j - i]
<1>5. Power[j] = a * b
  BY <1>2, <1>4
<1> HIDE DEF a, b
<1>6. a \in Nat \ {0} /\ b \in Nat \ {0}
  BY <1>3 DEF a, b
<1>7. a * b = b * a /\ a <= a * b
  BY <1>6, SMT
<1> QED
  BY <1>3, <1>5, <1>7 DEF a, b

(* The number with the bits from k to below b. *)
LEMMA BitsBetween ==
  ASSUME NEW k \in Nat, NEW b \in Nat, k <= b, b <= 2 * Bits, NEW i \in 0 .. 2 * Bits - 1
  PROVE  /\ Power[b] - Power[k] \in Nat
         /\ Bit(Power[b] - Power[k], i) = IF k <= i /\ i < b THEN 1 ELSE 0
<1> DEFINE x == Power[b] - Power[k]
           p == Power[i]
<1>1. 2 * Bits \in Nat /\ i \in Nat /\ i < 2 * Bits
  BY BitsAre
<1>2. Power[k] \in Nat \ {0} /\ Power[b] \in Nat \ {0} /\ Power[k] <= Power[b]
  BY PowerGrows
<1>3. x \in Nat /\ p \in Nat \ {0}
  BY <1>1, <1>2, PowerIs
<1>4. Bit(x, i) = (x \div p) % 2
  BY DEF Bit
<1>5. CASE b <= i
  <2>1. Power[b] <= p
    BY <1>1, <1>5, PowerGrows
  <2>2. x \in 0 .. p - 1 /\ 0 \in Nat
    BY <1>2, <1>3, <2>1
  <2> HIDE DEF x, p
  <2>3. x = 0 * p + x
    BY <1>3
  <2>4. x \div p = 0
    BY <1>3, <2>2, <2>3, DivIs
  <2>5. 0 % 2 = 0
    BY SMT
  <2> QED
    BY <1>1, <1>3, <1>4, <1>5, <2>4, <2>5 DEF x
<1>6. CASE i < k
  <2> DEFINE u == Power[b - (i + 1)]
             v == Power[k - (i + 1)]
  <2>1. Power[i + 1] = 2 * p
    <3>1. i + 1 \in 1 .. 2 * Bits /\ (i + 1) - 1 = i
      BY <1>1
    <3> QED
      BY <3>1, PowerIs
  <2>2. Power[b] = u * (2 * p) /\ Power[k] = v * (2 * p) /\ u \in Nat /\ v \in Nat
    <3>1. i + 1 \in Nat /\ i + 1 <= k /\ i + 1 <= b /\ k <= 2 * Bits
      BY <1>1, <1>6
    <3>2. Power[b] = u * Power[i + 1] /\ u \in Nat
      BY <3>1, PowerGrows
    <3>3. Power[k] = v * Power[i + 1] /\ v \in Nat
      BY <3>1, PowerGrows
    <3> QED
      BY <2>1, <3>2, <3>3
  <2>3. v <= u
    <3>1. k - (i + 1) \in Nat /\ b - (i + 1) \in Nat /\ k - (i + 1) <= b - (i + 1) /\ b - (i + 1) <= 2 * Bits
      BY <1>1, <1>6
    <3> QED
      BY <3>1, PowerGrows
  <2> DEFINE d == u - v
  <2>4. x = u * (2 * p) - v * (2 * p)
    BY <2>2
  <2> HIDE DEF u, v, x, p
  <2>5. d \in Nat /\ u = v + d
    BY <2>2, <2>3
  <2> HIDE DEF d
  <2>6. (v + d) * (2 * p) - v * (2 * p) = (2 * d) * p
    BY <1>3, <2>2, <2>5, SMT
  <2>7. x = (2 * d) * p
    BY <2>4, <2>5, <2>6
  <2>8. 2 * d \in Nat /\ (2 * d) % 2 = 0
    BY <2>5, SMT
  <2> DEFINE q == 2 * d
  <2>9. x \div p = q
    <3>1. q \in Nat /\ x = q * p
      BY <2>7, <2>8
    <3> HIDE DEF q
    <3>2. 0 \in 0 .. p - 1 /\ x = q * p + 0
      BY <1>3, <3>1
    <3> QED
      BY <1>3, <3>1, <3>2, DivIs
  <2> QED
    BY <1>1, <1>3, <1>4, <1>6, <2>8, <2>9 DEF x
<1>7. CASE k <= i /\ i < b
  <2> DEFINE u == Power[b - (i + 1)]
  <2>1. Power[i + 1] = 2 * p
    <3>1. i + 1 \in 1 .. 2 * Bits /\ (i + 1) - 1 = i
      BY <1>1
    <3> QED
      BY <3>1, PowerIs
  <2>2. Power[b] = u * (2 * p) /\ u \in Nat \ {0}
    <3>1. i + 1 \in Nat /\ i + 1 <= b
      BY <1>1, <1>7
    <3>2. Power[b] = u * Power[i + 1] /\ u \in Nat \ {0}
      BY <3>1, PowerGrows
    <3> QED
      BY <2>1, <3>2
  <2>3. Power[k] <= p
    BY <1>1, <1>7, PowerGrows
  <2> DEFINE r == p - Power[k]
             q == 2 * u - 1
  <2>4. r \in 0 .. p - 1 /\ x = u * (2 * p) - p + r
    BY <1>2, <1>3, <2>2, <2>3
  <2>5. q \in Nat /\ q % 2 = 1
    <3> HIDE DEF u
    <3> QED
      BY <2>2, SMT
  <2>6. u * (2 * p) - p = q * p
    <3> HIDE DEF u, p
    <3> QED
      BY <1>3, <2>2, SMT
  <2> HIDE DEF x, p, r, q
  <2>7. x = q * p + r
    BY <2>4, <2>6
  <2>8. x \div p = q
    BY <1>3, <2>4, <2>5, <2>7, DivIs
  <2> QED
    BY <1>3, <1>4, <1>7, <2>5, <2>8 DEF x
<1> QED
  BY <1>1, <1>3, <1>5, <1>6, <1>7

(* And bit by bit. *)
LEMMA SharedIs ==
  ASSUME NEW x \in Nat, NEW y \in Nat
  PROVE  /\ Shared(x, y)[0] = 0
         /\ \A n \in 1 .. 2 * Bits :
              Shared(x, y)[n] = Shared(x, y)[n - 1] + Power[n - 1] * (Bit(x, n - 1) * Bit(y, n - 1))
<1> DEFINE m == 2 * Bits
           T == Int
           base == 0
           Term(n) == Power[n - 1] * (Bit(x, n - 1) * Bit(y, n - 1))
           Body(z, n) == z + Term(n)
           Eq(f) == f = [n \in 0 .. m |-> IF n = 0 THEN base ELSE Body(f[n - 1], n)]
           step == [n \in 1 .. m |-> [z \in T |-> Body(z, n)]]
           loop == Shared(x, y)
<1>1. loop = CHOOSE f : Eq(f)
  BY DEF Shared
<1>2. m \in Nat /\ base \in T
  BY BitsAre
<1>3. \A n \in 1 .. m : \A z \in T : Body(z, n) \in T
  <2> SUFFICES ASSUME NEW n \in 1 .. m, NEW z \in T
               PROVE  z + Term(n) \in Int
    OBVIOUS
  <2>1. n - 1 \in 0 .. m /\ n \in 1 .. 2 * Bits
    BY <1>2
  <2>2. Power[n - 1] \in Nat /\ Bit(x, n - 1) \in {0, 1} /\ Bit(y, n - 1) \in {0, 1}
    BY <2>1, PowerIs, BitIs
  <2>3. Term(n) \in Int
    <3>1. Bit(x, n - 1) * Bit(y, n - 1) \in {0, 1}
      BY <2>2
    <3> DEFINE c == Bit(x, n - 1) * Bit(y, n - 1)
    <3> HIDE DEF c
    <3>2. c \in {0, 1}
      BY <3>1 DEF c
    <3>3. Power[n - 1] * c \in Int
      BY <2>2, <3>2
    <3> QED
      BY <3>3 DEF c
  <2> HIDE DEF Term
  <2> QED
    BY <2>3
<1> HIDE DEF T, Body, m, base, loop
<1>4. Eq(loop)
  <2>1. step \in [1 .. m -> [T -> T]]
    BY <1>3
  <2>2. \E f \in [0 .. m -> T] : f[0] = base /\ \A n \in 1 .. m : f[n] = step[n][f[n - 1]]
    <3> HIDE DEF step
    <3> QED
      BY ONLY <1>2, <2>1, LoopExists
  <2>3. PICK f \in [0 .. m -> T] : f[0] = base /\ \A n \in 1 .. m : f[n] = step[n][f[n - 1]]
    BY <2>2
  <2>4. \A n \in 1 .. m : f[n - 1] \in T
    BY <1>2
  <2>5. \A n \in 1 .. m : f[n] = Body(f[n - 1], n)
    BY <2>3, <2>4
  <2>6. Eq(f)
    BY <1>2, <2>3, <2>5
  <2> HIDE DEF Eq
  <2> QED
    BY <1>1, <2>6
<1>5. loop[0] = base /\ \A n \in 1 .. m : loop[n] = Body(loop[n - 1], n)
  BY <1>2, <1>4
<1> QED
  BY <1>5 DEF Body, m, base, loop

(* And with the bits from k to below b takes these bits of a number. *)
LEMMA AndIs ==
  ASSUME NEW x \in Nat, NEW k \in Nat, NEW b \in Nat, k <= b, b <= 2 * Bits
  PROVE  And(x, Power[b] - Power[k]) = (x % Power[b]) - (x % Power[k])
<1> DEFINE m == 2 * Bits
           y == Power[b] - Power[k]
           Rest(n) == x % Power[n]
           Value(n) == IF n <= k THEN 0 ELSE IF n <= b THEN Rest(n) - Rest(k) ELSE Rest(b) - Rest(k)
           sum == Shared(x, y)
           Good == {n \in 0 .. m : sum[n] = Value(n)}
<1>1. m \in Nat /\ y \in Nat
  <2>1. Power[k] \in Nat /\ Power[b] \in Nat /\ Power[k] <= Power[b]
    BY PowerGrows
  <2> QED
    BY <2>1, BitsAre
<1>2. \A n \in 0 .. m : Rest(n) \in Nat
  <2> SUFFICES ASSUME NEW n \in 0 .. m
               PROVE  x % Power[n] \in Nat
    OBVIOUS
  <2>1. Power[n] \in Nat \ {0}
    BY PowerIs
  <2> QED
    BY <2>1, DivMod
<1>3. sum[0] = 0
  BY <1>1, SharedIs
<1>4. ASSUME NEW n \in 1 .. m, sum[n - 1] = Value(n - 1)
      PROVE  sum[n] = Value(n)
  <2> DEFINE p == Power[n - 1]
             c == Bit(x, n - 1)
             d == Bit(y, n - 1)
  <2>1. sum[n] = sum[n - 1] + p * (c * d)
    BY <1>1, SharedIs
  <2>2. c \in {0, 1} /\ Rest(n) = Rest(n - 1) + p * c
    BY BitIs
  <2>3. d = IF k <= n - 1 /\ n - 1 < b THEN 1 ELSE 0
    <3>1. n - 1 \in 0 .. 2 * Bits - 1
      BY <1>1
    <3> QED
      BY <3>1, BitsBetween
  <2>4. p \in Nat /\ Rest(n) \in Nat /\ Rest(n - 1) \in Nat
    <3>1. n - 1 \in 0 .. m /\ n \in 0 .. m
      BY <1>1
    <3> QED
      BY <1>2, <3>1, PowerIs
  <2>5. n \in Nat /\ k \in 0 .. m /\ b \in 0 .. m
    BY <1>1
  <2>6. Rest(k) \in Nat /\ Rest(b) \in Nat
    BY <1>2, <2>5
  <2> HIDE DEF p, c, d, Rest, sum, m, y
  <2>7. CASE n <= k \/ b < n
    <3>1. d = 0
      BY <2>3, <2>5, <2>7
    <3>2. p * (c * d) = 0
      BY <2>2, <2>4, <3>1
    <3>3. sum[n] = Value(n - 1) + 0
      BY <1>4, <2>1, <3>2
    <3>4. Value(n - 1) + 0 = Value(n - 1)
      BY <2>4, <2>6
    <3>5. Value(n - 1) = Value(n)
      <4>1. CASE n <= k
        BY <2>5, <4>1
      <4>2. CASE b < n /\ ~(n <= k)
        <5>1. CASE n - 1 <= k
          <6>1. k = b
            BY <2>5, <4>2, <5>1
          <6> QED
            BY <2>4, <2>5, <2>6, <4>2, <5>1, <6>1
        <5>2. CASE ~(n - 1 <= k)
          <6>1. n - 1 <= b => n - 1 = b
            BY <2>5, <4>2
          <6> QED
            BY <2>5, <2>6, <4>2, <5>2, <6>1
        <5> QED
          BY <5>1, <5>2
      <4> QED
        BY <2>7, <4>1, <4>2
    <3> QED
      BY <3>3, <3>4, <3>5
  <2>8. CASE k < n /\ n <= b
    <3>1. d = 1
      BY <2>3, <2>5, <2>8
    <3>2. p * (c * d) = p * c /\ p * c = Rest(n) - Rest(n - 1)
      <4>1. c * d = c
        BY <2>2, <3>1
      <4>2. p * c \in Int
        BY <2>2, <2>4
      <4> DEFINE e == p * c
      <4>3. e \in Int /\ Rest(n) = Rest(n - 1) + e
        BY <2>2, <4>2
      <4> HIDE DEF e
      <4>4. e = Rest(n) - Rest(n - 1)
        BY <2>4, <4>3
      <4> QED
        BY <4>1, <4>4 DEF e
    <3>3. sum[n] = Value(n - 1) + (Rest(n) - Rest(n - 1))
      BY <1>4, <2>1, <3>2
    <3>4. Value(n - 1) = Rest(n - 1) - Rest(k)
      <4>1. CASE n - 1 = k
        BY <2>5, <2>6, <4>1
      <4>2. CASE n - 1 # k
        BY <2>5, <2>8, <4>2
      <4> QED
        BY <4>1, <4>2
    <3>5. Value(n) = Rest(n) - Rest(k)
      BY <2>5, <2>8
    <3> QED
      BY <2>4, <2>6, <3>3, <3>4, <3>5
  <2> QED
    BY <2>5, <2>7, <2>8
<1> HIDE DEF Value, sum
<1>5. 0 \in Good
  <2>1. Value(0) = 0
    BY DEF Value
  <2> QED
    BY <1>1, <1>3, <2>1
<1>6. \A n \in 1 .. m : n - 1 \in Good => n \in Good
  BY <1>1, <1>4
<1>7. \A n \in Good : sum[n] = Value(n)
  OBVIOUS
<1> HIDE DEF Good
<1>8. \A n \in 0 .. m : n \in Good
  BY ONLY <1>1, <1>5, <1>6, Induction
<1>9. sum[m] = Value(m)
  <2>1. m \in 0 .. m
    BY <1>1
  <2> QED
    BY <1>7, <1>8, <2>1
<1>10. Value(m) = Rest(b) - Rest(k)
  <2>1. Rest(b) \in Nat /\ Rest(k) \in Nat
    <3>1. b \in 0 .. m /\ k \in 0 .. m
      BY <1>1
    <3> QED
      BY <1>2, <3>1
  <2> HIDE DEF Rest
  <2>2. CASE m <= k
    <3>1. b = k
      BY <1>1, <2>2
    <3> QED
      BY <2>1, <2>2, <3>1 DEF Value
  <2>3. CASE ~(m <= k)
    <3>1. m <= b => m = b
      BY <1>1
    <3> QED
      BY <2>3, <3>1 DEF Value
  <2> QED
    BY <2>2, <2>3
<1> QED
  BY <1>9, <1>10 DEF And, sum

(* And with ones takes the last bits of a number. *)
LEMMA AndOnes ==
  ASSUME NEW x \in Nat, NEW n \in Nat, n <= 2 * Bits
  PROVE  And(x, Ones(n)) = x % Power[n]
<1>1. Power[n] \in Nat \ {0} /\ Power[0] = 1
  <2>1. n \in 0 .. 2 * Bits
    BY BitsAre
  <2> QED
    BY <2>1, PowerIs
<1>2. And(x, Power[n] - Power[0]) = (x % Power[n]) - (x % Power[0])
  <2>1. 0 \in Nat /\ 0 <= n
    OBVIOUS
  <2> QED
    BY <2>1, AndIs
<1>3. x % 1 = 0
  BY SMT
<1>4. x % Power[n] \in Nat
  BY <1>1, DivMod
<1>5. (x % Power[n]) - 0 = x % Power[n]
  BY <1>4
<1> QED
  BY <1>1, <1>2, <1>3, <1>5 DEF Ones

(* The mask of a prefix has its bits at the beginning of an address. *)
LEMMA MaskIs ==
  ASSUME NEW prefix \in 0 .. Bits
  PROVE  Mask(prefix) = Power[Bits] - Power[Bits - prefix]
<1> DEFINE n == Bits - prefix
           all == Power[Bits]
           h == Power[n]
           shifted == Ones(Bits) * h
<1>1. Bits \in Nat /\ n \in Nat /\ n <= Bits /\ Bits <= 2 * Bits /\ Bits + Bits = 2 * Bits
  BY BitsAre
<1>2. all \in Nat \ {0} /\ h \in Nat \ {0} /\ h <= all
  BY <1>1, PowerGrows
<1>3. Power[2 * Bits] = all * all
  <2>1. Bits + Bits <= 2 * Bits
    BY <1>1
  <2>2. Power[Bits + Bits] = Power[Bits] * Power[Bits]
    BY <1>1, <2>1, PowerSum
  <2> QED
    BY <1>1, <2>2
<1>4. Ones(Bits) = all - 1
  BY DEF Ones
<1> HIDE DEF all, h, n
<1>5. shifted \in Nat /\ shifted = (h - 1) * all + (all - h) /\ shifted < all * all
  <2>1. (all - 1) * h = (h - 1) * all + (all - h)
    BY <1>2, SMT
  <2>2. (h - 1) * all + all <= all * all
    <3>1. h - 1 \in Nat /\ h - 1 < all
      BY <1>2
    <3> QED
      BY <1>2, <3>1, ProductGrows
  <2> DEFINE e == (h - 1) * all
             f == all * all
  <2>3. e \in Nat /\ f \in Nat
    BY <1>2, SMT
  <2>4. (all - 1) * h = e + (all - h) /\ e + all <= f
    BY <2>1, <2>2
  <2> HIDE DEF e, f
  <2>5. e + (all - h) \in Nat /\ e + (all - h) < f
    BY <1>2, <2>3, <2>4
  <2> QED
    BY <1>4, <2>4, <2>5 DEF e, f
<1>6. shifted % (all * all) = shifted
  <2> DEFINE f == all * all
  <2>1. f \in Nat \ {0}
    BY <1>2, SMT
  <2>2. shifted \in 0 .. f - 1
    BY <1>5, <2>1
  <2> HIDE DEF f, shifted
  <2>3. shifted = 0 * f + shifted /\ 0 \in Nat
    BY <2>1, <2>2
  <2>4. shifted % f = shifted
    BY <2>1, <2>2, <2>3, DivIs
  <2> QED
    BY <2>4 DEF f
<1>7. shifted % all = all - h
  <2>1. all - h \in 0 .. all - 1 /\ h - 1 \in Nat
    BY <1>2
  <2>2. shifted = (h - 1) * all + (all - h)
    BY <1>5
  <2> DEFINE q == h - 1
             r == all - h
  <2>3. q \in Nat /\ r \in 0 .. all - 1 /\ shifted = q * all + r
    BY <2>1, <2>2
  <2> HIDE DEF q, r, shifted
  <2>4. shifted % all = r
    BY <1>2, <2>3, DivIs
  <2> QED
    BY <2>4 DEF r
<1>8. And(shifted, Ones(Bits)) = shifted % all
  <2>1. shifted \in Nat
    BY <1>5
  <2> HIDE DEF shifted
  <2>2. And(shifted, Ones(Bits)) = shifted % Power[Bits]
    BY <1>1, <2>1, AndOnes
  <2> QED
    BY <2>2 DEF all
<1>9. Mask(prefix) = And(shifted % (all * all), Ones(Bits))
  BY <1>3 DEF Mask, h, n
<1> QED
  BY <1>6, <1>7, <1>8, <1>9 DEF all, h, n

(* A digit and what follows it. *)
LEMMA DigitIs ==
  ASSUME NEW d \in 0 .. Ones(W), NEW n \in Nat, n + W <= 2 * Bits, NEW y \in 0 .. Power[n] - 1
  PROVE  d * Power[n] + y \in 0 .. Power[n + W] - 1
<1> DEFINE p == Power[n]
           g == Power[W]
<1>1. W \in Nat /\ n \in 0 .. 2 * Bits /\ W \in 0 .. 2 * Bits
  BY BitsAre
<1>2. p \in Nat \ {0} /\ g \in Nat \ {0} /\ Power[n + W] = p * g
  BY <1>1, PowerIs, PowerSum
<1>3. d \in Nat /\ d < g
  BY <1>2 DEF Ones
<1> HIDE DEF p, g
<1>4. d * p + p <= g * p /\ g * p = p * g /\ d * p \in Nat
  <2>1. g * p = p * g /\ d * p \in Nat
    BY <1>2, <1>3, SMT
  <2> QED
    BY <1>2, <1>3, <2>1, ProductGrows
<1> DEFINE e == d * p
           f == p * g
<1>5. e \in Nat /\ e + p <= f /\ f \in Nat
  <2>1. f \in Nat
    BY <1>2, SMT
  <2> QED
    BY <1>4, <2>1
<1>6. y \in 0 .. p - 1
  BY DEF p
<1> HIDE DEF e, f
<1>7. e + y \in 0 .. f - 1
  BY <1>2, <1>5, <1>6
<1> QED
  BY <1>2, <1>7 DEF e, f, p

(* The last digits of a number, and the one before them. *)
LEMMA DigitBefore ==
  ASSUME NEW x \in Nat, NEW n \in Nat, n + W <= 2 * Bits
  PROVE  x % Power[n + W] = ((x \div Power[n]) % Power[W]) * Power[n] + (x % Power[n])
<1> DEFINE p == Power[n]
           g == Power[W]
           q == x \div p
           r == x % p
           s == q \div g
           t == q % g
<1>1. W \in Nat /\ n \in 0 .. 2 * Bits /\ W \in 0 .. 2 * Bits
  BY BitsAre
<1>2. p \in Nat \ {0} /\ g \in Nat \ {0} /\ Power[n + W] = p * g
  BY <1>1, PowerIs, PowerSum
<1>3. t \in 0 .. Ones(W) /\ r \in 0 .. p - 1 /\ s \in Nat /\ q = s * g + t /\ x = q * p + r
  <2> HIDE DEF p, g
  <2>1. q \in Nat /\ r \in Nat /\ r < p /\ x = q * p + r
    BY <1>2, DivMod
  <2> HIDE DEF q, r
  <2>2. s \in Nat /\ t \in Nat /\ t < g /\ q = s * g + t
    BY <1>2, <2>1, DivMod
  <2> HIDE DEF s, t
  <2>3. t \in 0 .. Ones(W)
    BY <1>2, <2>2 DEF Ones, g
  <2> QED
    BY <1>2, <2>1, <2>2, <2>3
<1>4. t * p + r \in 0 .. Power[n + W] - 1
  BY <1>3, DigitIs
<1> DEFINE f == p * g
           y == t * p + r
<1> HIDE DEF p, g, q, r, s, t
<1>5. f \in Nat \ {0}
  BY <1>2, SMT
<1>6. y \in 0 .. f - 1
  BY <1>2, <1>4
<1>7. x = s * f + y
  <2>1. t \in Nat /\ r \in Nat
    BY <1>3
  <2>2. (s * g + t) * p = s * (p * g) + t * p
    BY <1>2, <1>3, <2>1, SMT
  <2> DEFINE a == s * (p * g)
             b == t * p
             c == q * p
  <2>3. a \in Int /\ b \in Int /\ c = a + b /\ x = c + r
    <3>1. a \in Int /\ b \in Int
      BY <1>2, <1>3, <2>1, SMT
    <3> QED
      BY <1>3, <2>2, <3>1
  <2> HIDE DEF a, b, c
  <2>4. x = a + (b + r)
    BY <2>1, <2>3
  <2> QED
    BY <2>4 DEF a, b, f, y
<1> HIDE DEF f, y
<1>8. x % f = y
  BY <1>3, <1>5, <1>6, <1>7, DivIs
<1> QED
  BY <1>2, <1>8 DEF f, y, p, g, q, r, t

(* A number below p is what it leaves, divided by p. *)
LEMMA ModSmall ==
  ASSUME NEW p \in Nat \ {0}, NEW x \in 0 .. p - 1
  PROVE  x % p = x
  BY SMT

(* An address is a number of four digits. *)
LEMMA NumberIs ==
  ASSUME NEW digits \in [1 .. 4 -> 0 .. Ones(W)]
  PROVE  Number(digits) \in 0 .. Power[Bits] - 1
<1> DEFINE a == digits[1] * Power[3 * W]
           b == digits[2] * Power[2 * W]
           c == digits[3] * Power[W]
           d == digits[4]
<1>1. /\ W \in Nat /\ 2 * W \in Nat /\ 3 * W \in Nat /\ 0 + W = W /\ W + W = 2 * W
      /\ 2 * W + W = 3 * W /\ 3 * W + W = Bits
      /\ 0 + W <= 2 * Bits /\ W + W <= 2 * Bits /\ 2 * W + W <= 2 * Bits /\ 3 * W + W <= 2 * Bits
  BY BitsAre
<1>2. /\ digits[1] \in 0 .. Ones(W) /\ digits[2] \in 0 .. Ones(W)
      /\ digits[3] \in 0 .. Ones(W) /\ digits[4] \in 0 .. Ones(W)
  OBVIOUS
<1>3. d \in 0 .. Power[W] - 1
  BY <1>2 DEF Ones
<1> HIDE DEF d
<1>4. c + d \in 0 .. Power[2 * W] - 1
  <2>1. c + d \in 0 .. Power[W + W] - 1
    BY <1>1, <1>2, <1>3, DigitIs
  <2> QED
    BY <1>1, <2>1
<1> DEFINE cd == c + d
<1> HIDE DEF cd, c
<1>5. b + cd \in 0 .. Power[3 * W] - 1
  <2>1. cd \in 0 .. Power[2 * W] - 1
    BY <1>4 DEF cd
  <2>2. b + cd \in 0 .. Power[2 * W + W] - 1
    BY <1>1, <1>2, <2>1, DigitIs
  <2> QED
    BY <1>1, <2>2
<1> DEFINE bcd == b + cd
<1> HIDE DEF bcd, b
<1>6. a + bcd \in 0 .. Power[Bits] - 1
  <2>1. bcd \in 0 .. Power[3 * W] - 1
    BY <1>5 DEF bcd
  <2>2. a + bcd \in 0 .. Power[3 * W + W] - 1
    BY <1>1, <1>2, <2>1, DigitIs
  <2> QED
    BY <1>1, <2>2
<1>7. a \in Nat /\ b \in Nat /\ c \in Nat /\ d \in Nat
  <2>1. W \in 0 .. 2 * Bits /\ 2 * W \in 0 .. 2 * Bits /\ 3 * W \in 0 .. 2 * Bits
    BY <1>1
  <2>2. Power[W] \in Nat /\ Power[2 * W] \in Nat /\ Power[3 * W] \in Nat
    BY <2>1, PowerIs
  <2>3. digits[1] \in Nat /\ digits[2] \in Nat /\ digits[3] \in Nat
    BY <1>2
  <2>4. \A x, y \in Nat : x * y \in Nat
    BY SMT
  <2>5. d \in Nat
    BY <1>3
  <2>6. a \in Nat /\ b \in Nat /\ c \in Nat
    BY <2>2, <2>3, <2>4 DEF b, c
  <2> QED
    BY <2>5, <2>6
<1>8. Number(digits) = a + b + c + d
  BY DEF Number, b, c, d
<1> HIDE DEF a
<1>9. a + b + c + d = a + bcd
  BY <1>7 DEF bcd, cd
<1> QED
  BY <1>6, <1>8, <1>9

(* The four digits make the number again. *)
LEMMA DigitsAre ==
  ASSUME NEW x \in 0 .. Power[Bits] - 1,
         NEW digits, digits = [k \in 1 .. 4 |-> And(x \div Power[(4 - k) * W], Ones(W))]
  PROVE  Number(digits) = x
<1> DEFINE Digit(n) == (x \div Power[n]) % Power[W]
           Rest(n) == x % Power[n]
<1>1. /\ W \in Nat /\ 2 * W \in Nat /\ 3 * W \in Nat /\ 0 + W = W /\ W + W = 2 * W
      /\ 2 * W + W = 3 * W /\ 3 * W + W = Bits /\ W <= 2 * Bits
      /\ 0 + W <= 2 * Bits /\ W + W <= 2 * Bits /\ 2 * W + W <= 2 * Bits /\ 3 * W + W <= 2 * Bits
      /\ (4 - 1) * W = 3 * W /\ (4 - 2) * W = 2 * W /\ (4 - 3) * W = W /\ (4 - 4) * W = 0
  BY BitsAre
<1>2. /\ 0 \in 0 .. 2 * Bits /\ W \in 0 .. 2 * Bits /\ 2 * W \in 0 .. 2 * Bits /\ 3 * W \in 0 .. 2 * Bits
      /\ Bits \in 0 .. 2 * Bits
  BY <1>1
<1>3. x \in Nat
  BY <1>2, PowerIs
<1>4. ASSUME NEW n \in 0 .. 2 * Bits
      PROVE  /\ x \div Power[n] \in Nat /\ Digit(n) \in Nat /\ Rest(n) \in Nat /\ Power[n] \in Nat
             /\ And(x \div Power[n], Ones(W)) = Digit(n)
  <2>1. Power[n] \in Nat \ {0} /\ Power[W] \in Nat \ {0}
    BY <1>2, PowerIs
  <2>2. x \div Power[n] \in Nat /\ Rest(n) \in Nat
    BY <1>3, <2>1, DivMod
  <2>3. Digit(n) \in Nat
    BY <2>1, <2>2, DivMod
  <2>4. And(x \div Power[n], Ones(W)) = Digit(n)
    BY <1>1, <2>2, AndOnes
  <2> QED
    BY <2>1, <2>2, <2>3, <2>4
<1>5. digits[1] = Digit(3 * W) /\ digits[2] = Digit(2 * W) /\ digits[3] = Digit(W) /\ digits[4] = Digit(0)
  <2>1. /\ digits[1] = And(x \div Power[(4 - 1) * W], Ones(W))
        /\ digits[2] = And(x \div Power[(4 - 2) * W], Ones(W))
        /\ digits[3] = And(x \div Power[(4 - 3) * W], Ones(W))
        /\ digits[4] = And(x \div Power[(4 - 4) * W], Ones(W))
    OBVIOUS
  <2> HIDE DEF Digit
  <2> QED
    BY <1>1, <1>2, <1>4, <2>1
<1>6. /\ Rest(0 + W) = Digit(0) * Power[0] + Rest(0)
      /\ Rest(W + W) = Digit(W) * Power[W] + Rest(W)
      /\ Rest(2 * W + W) = Digit(2 * W) * Power[2 * W] + Rest(2 * W)
      /\ Rest(3 * W + W) = Digit(3 * W) * Power[3 * W] + Rest(3 * W)
  BY <1>1, <1>3, DigitBefore
<1>7. Rest(0) = 0 /\ Power[0] = 1
  <2>1. x % 1 = 0
    BY <1>3, SMT
  <2> QED
    BY <2>1, PowerIs
<1>8. Rest(Bits) = x
  <2> DEFINE p == Power[Bits]
  <2>1. p \in Nat \ {0} /\ x \in 0 .. p - 1
    BY <1>2, PowerIs
  <2> HIDE DEF p
  <2>3. x % p = x
    BY <2>1, ModSmall
  <2> QED
    BY <2>3 DEF p
<1> DEFINE a == Digit(3 * W) * Power[3 * W]
           b == Digit(2 * W) * Power[2 * W]
           c == Digit(W) * Power[W]
           d == Digit(0)
<1>9. a \in Nat /\ b \in Nat /\ c \in Nat /\ d \in Nat
  <2>1. \A y, z \in Nat : y * z \in Nat
    BY SMT
  <2> HIDE DEF Digit
  <2> QED
    BY <1>2, <1>4, <2>1
<1>10. Number(digits) = a + b + c + d
  <2> HIDE DEF Digit
  <2> QED
    BY <1>5 DEF Number
<1> HIDE DEF Digit, Rest
<1>11. Rest(W) = d
  <2>1. d * 1 = d /\ d + 0 = d
    BY <1>9
  <2> QED
    BY <1>1, <1>6, <1>7, <2>1
<1> HIDE DEF d
<1>12. Rest(2 * W) = c + d
  BY <1>1, <1>6, <1>11
<1> HIDE DEF c
<1>13. Rest(3 * W) = b + (c + d)
  BY <1>1, <1>6, <1>12
<1> HIDE DEF b
<1>14. x = a + (b + (c + d))
  BY <1>1, <1>6, <1>8, <1>13
<1> HIDE DEF a
<1>15. a + b + c + d = a + (b + (c + d))
  BY <1>9
<1> QED
  BY <1>10, <1>14, <1>15

(* The gateway is one more than the network's address. *)
LEMMA GatewayIs ==
  ASSUME NEW digits \in [1 .. 4 -> 0 .. Ones(W)], NEW prefix \in 0 .. Bits, prefix < Bits
  PROVE  LET h == Power[Bits - prefix]
             guess == Number(Gateway(digits, prefix))
         IN guess \div h = Number(digits) \div h /\ guess % h = 1
<1> DEFINE n == Bits - prefix
           h == Power[n]
           all == Power[Bits]
           x == Number(digits)
           gw == And(x, Mask(prefix)) + 1
           q == x \div h
           r == x % h
<1>1. Bits \in Nat /\ n \in Nat /\ n <= Bits /\ Bits <= 2 * Bits /\ n \in 1 .. 2 * Bits /\ Bits - n = prefix
  BY BitsAre
<1>2. all \in Nat \ {0} /\ h \in Nat \ {0} /\ all = Power[prefix] * h /\ Power[prefix] \in Nat \ {0}
  BY <1>1, PowerGrows
<1>3. h > 1
  <2>1. Power[n] = 2 * Power[n - 1] /\ n - 1 \in 0 .. 2 * Bits
    BY <1>1, PowerIs
  <2>2. Power[n - 1] \in Nat \ {0}
    BY <2>1, PowerIs
  <2> HIDE DEF n
  <2> QED
    BY <2>1, <2>2
<1>4. x \in 0 .. all - 1
  BY NumberIs
<1>5. Mask(prefix) = all - h
  BY MaskIs
<1> DEFINE s == Power[prefix]
<1> HIDE DEF n, h, all, x, s
<1>6. x \in Nat /\ q \in Nat /\ r \in Nat /\ r < h /\ x = q * h + r
  <2>1. x \in Nat
    BY <1>2, <1>4
  <2> QED
    BY <1>2, <2>1, DivMod
<1>7. gw = q * h + 1 /\ q * h \in Nat
  <2>1. And(x, all - h) = (x % all) - (x % h)
    <3>1. And(x, Power[Bits] - Power[n]) = (x % Power[Bits]) - (x % Power[n])
      BY <1>1, <1>6, AndIs
    <3> QED
      BY <3>1 DEF all, h
  <2>2. x % all = x
    BY <1>2, <1>4, ModSmall
  <2> DEFINE e == q * h
  <2>3. e \in Nat /\ x = e + r
    <3> HIDE DEF q, r
    <3>1. e \in Nat
      BY <1>2, <1>6, SMT
    <3> QED
      BY <1>6, <3>1
  <2>4. gw = (x - r) + 1
    BY <1>5, <2>1, <2>2
  <2> HIDE DEF e, r, gw, q
  <2>5. gw = e + 1
    BY <1>6, <2>3, <2>4
  <2> QED
    BY <2>3, <2>5 DEF e
<1> HIDE DEF gw, q, r
<1>8. gw \in 0 .. all - 1
  <2> DEFINE e == q * h
             f == s * h
  <2>1. e \in Nat /\ f \in Nat /\ all = f /\ x = e + r /\ s \in Nat
    <3>1. s \in Nat /\ all = s * h
      BY <1>2 DEF s
    <3>2. f \in Nat
      BY <1>2, <3>1, SMT
    <3> QED
      BY <1>6, <1>7, <3>1, <3>2
  <2>2. q < s
    <3> SUFFICES ASSUME s <= q
                 PROVE  FALSE
      BY <1>6, <2>1
    <3>1. s * h <= q * h
      <4>1. CASE s = q
        BY <2>1, <4>1
      <4>2. CASE s < q
        <5>1. s * h + h <= q * h
          BY <1>2, <1>6, <2>1, <4>2, ProductGrows
        <5> HIDE DEF e, f
        <5>2. f + h <= e
          BY <5>1 DEF e, f
        <5>3. f <= e
          BY <1>2, <2>1, <5>2
        <5> QED
          BY <5>3 DEF e, f
      <4> QED
        BY <1>6, <2>1, <4>1, <4>2
    <3>2. f <= e
      BY <3>1
    <3> HIDE DEF e, f
    <3> QED
      BY <1>4, <1>6, <2>1, <3>2
  <2>3. e + h <= f
    BY <1>2, <1>6, <2>1, <2>2, ProductGrows
  <2>4. gw = e + 1
    BY <1>7
  <2> HIDE DEF e, f
  <2> QED
    BY <1>2, <1>3, <2>1, <2>3, <2>4
<1>9. Number(Gateway(digits, prefix)) = gw
  <2>1. Gateway(digits, prefix) = [k \in 1 .. 4 |-> And(gw \div Power[(4 - k) * W], Ones(W))]
    BY DEF Gateway, gw, x
  <2>2. gw \in 0 .. Power[Bits] - 1
    BY <1>8 DEF all
  <2> QED
    BY <2>1, <2>2, DigitsAre
<1>10. gw \div h = q /\ gw % h = 1
  <2>1. 1 \in 0 .. h - 1
    BY <1>2, <1>3
  <2> QED
    BY <1>2, <1>6, <1>7, <2>1, DivIs
<1> QED
  BY <1>9, <1>10 DEF n, h, x, q

(* For addresses with digits of whatever width and every prefix but that   *)
(* of a single address: the gateway that Stop guesses is in the same       *)
(* network as eth0, and the first address of it.                           *)
THEOREM GatewayIsAlwaysFirstHost == Spec => []GatewayIsFirstHost
<1>1. Init => GatewayIsFirstHost
  BY DEF Init, GatewayIsFirstHost, Is
<1>2. GatewayIsFirstHost /\ [Next]_done => GatewayIsFirstHost'
  <2> SUFFICES ASSUME GatewayIsFirstHost, [Next]_done
               PROVE  GatewayIsFirstHost'
    OBVIOUS
  <2>1. CASE GuessGateway
    <3>1. PICK digits \in [1 .. 4 -> 0 .. Ones(W)], prefix \in 0 .. Bits :
            Call("gateway", <<digits, prefix>>, Gateway(digits, prefix))
      BY <2>1 DEF GuessGateway
    <3>2. done'.arg[1] = digits /\ done'.arg[2] = prefix /\ done'.result = Gateway(digits, prefix)
      BY <3>1 DEF Call
    <3>3. ASSUME prefix < Bits
          PROVE  LET h == Power[Bits - prefix]
                     guess == Number(done'.result)
                 IN guess \div h = Number(done'.arg[1]) \div h /\ guess % h = 1
      BY <3>2, <3>3, GatewayIs
    <3> QED
      BY <3>2, <3>3 DEF GatewayIsFirstHost
  <2>2. CASE Next /\ ~GuessGateway
    BY <2>2, CallOf, Zenon DEF Next, GatewayIsFirstHost, Is
  <2>3. CASE UNCHANGED done
    BY <2>3, Zenon DEF GatewayIsFirstHost, Is
  <2> QED
    BY <2>1, <2>2, <2>3
<1> QED
  BY <1>1, <1>2, PTL DEF Spec
=============================================================================
