-------------------------- MODULE RecipeCacheProofs --------------------------
(***************************************************************************)
(* What the recipe cache promises, for any number of processes, graphs and *)
(* builds: IInv is inductive, and with it OwnRecipe, StoredWhole and       *)
(* StoredStays hold; NoLitter needs only the types besides itself.         *)
(***************************************************************************)
EXTENDS RecipeCache, TLAPS

\* The names the argument rests on: a temporary file is never a stored one,
\* and while process ids differ it belongs to one process and key.
LEMMA Names ==
    ASSUME TypeOK
    PROVE  /\ \A k \in Key : Path(k) \in Paths /\ Path(k)[1] = k /\ Path(k)[2] = "recipe"
           /\ \A k \in Key, p \in Proc : Tmp(k, p) \in Paths /\ Tmp(k, p)[1] = k
           /\ \A k, l \in Key, p \in Proc : Tmp(k, p) # Path(l)
           /\ \A k, l \in Key : Path(k) = Path(l) => k = l
           /\ Distinct => \A k, l \in Key, p, q \in Proc :
                              Tmp(k, p) = Tmp(l, q) => k = l /\ p = q
    <1>1. \A p \in Proc : pid[p] \in PidSet /\ pid[p] # "recipe"
        BY CacheAssumption DEF TypeOK
    <1>. QED  BY <1>1 DEF Path, Tmp, Paths, Distinct

LEMMA InitInv == Init => IInv
    <1>. SUFFICES ASSUME Init PROVE IInv  OBVIOUS
    <1>1. TypeOK
        <2>1. /\ name \in [Paths -> Inode \cup {NoFile}]
              /\ open \in [Proc -> Inode \cup {NoFile}]
              /\ pc \in [Proc -> Pcs]
            BY DEF Init, Pcs
        <2>2. data \in [Inode -> Content] /\ got \in [Proc -> Content]
            BY DEF Init, Content
        <2>3. builds \in [Proc -> 0 .. MaxBuilds]
            BY CacheAssumption DEF Init
        <2>. QED  BY <2>1, <2>2, <2>3 DEF Init, TypeOK
    <1>2. OwnContent /\ Writing /\ OwnRecipe /\ Alone
        BY DEF Init, OwnContent, Writing, OwnRecipe, Alone
    <1>3. StoredWhole  BY <1>1, Names DEF Init, StoredWhole
    <1>. QED  BY <1>1, <1>2, <1>3 DEF IInv

\* The steps that leave every file and writer alone.
LEMMA QuietSteps ==
    ASSUME IInv, NEW p \in Proc,
           \/ \E k \in Key : Begin(p, k)
           \/ Lookup(p) \/ Loads(p) \/ LoadFails(p) \/ Compiles(p) \/ CompileFails(p)
           \/ NoDirectory(p) \/ RenameFails(p) \/ Restart(p)
    PROVE  IInv'
    <1>0. TypeOK  BY DEF IInv
    <1>1. /\ name' = name /\ data' = data /\ open' = open /\ lost' = lost /\ pid' = pid
          /\ killed' = killed
        BY DEF Begin, Lookup, Loads, LoadFails, Compiles, CompileFails, NoDirectory,
            RenameFails, Restart, Files, Holds, Past
    <1>2. TypeOK'
        <2>1. pc' \in [Proc -> Pcs]
            BY DEF IInv, TypeOK, Begin, Lookup, Loads, LoadFails, Compiles, CompileFails,
                NoDirectory, RenameFails, Restart, Goto, Pcs
        <2>2. key' \in [Proc -> Key] /\ builds' \in [Proc -> 0 .. MaxBuilds]
            BY CacheAssumption DEF IInv, TypeOK, Begin, Lookup, Loads, LoadFails, Compiles,
                CompileFails, NoDirectory, RenameFails, Restart, Past
        <2>3. Path(key[p]) \in Paths  BY <1>0, Names DEF TypeOK
        <2>4. got' \in [Proc -> Content]
            BY <2>3 DEF IInv, TypeOK, Begin, Lookup, Loads, LoadFails, Compiles,
                CompileFails, NoDirectory, RenameFails, Restart, Holds, Content
        <2>. QED  BY <1>0, <1>1, <2>1, <2>2, <2>4 DEF TypeOK
    <1>3. \A q \in Proc : pc'[q] = "write" <=> pc[q] = "write"
        BY DEF IInv, TypeOK, Begin, Lookup, Loads, LoadFails, Compiles, CompileFails,
            NoDirectory, RenameFails, Restart, Goto
    <1>4. \A q \in Proc : pc'[q] = "rename" => pc[q] = "rename"
        BY DEF IInv, TypeOK, Begin, Lookup, Loads, LoadFails, Compiles, CompileFails,
            NoDirectory, RenameFails, Restart, Goto
    <1>5. \A q \in Proc : pc[q] \in {"write", "rename"} => key'[q] = key[q]
        BY DEF IInv, TypeOK, Begin, Lookup, Loads, LoadFails, Compiles, CompileFails,
            NoDirectory, RenameFails, Restart, Holds, Past
    <1>6. OwnRecipe'
        BY <1>0, Names DEF IInv, OwnRecipe, OwnContent, TypeOK, Begin, Lookup, Loads,
            LoadFails, Compiles, CompileFails, NoDirectory, RenameFails, Restart, Holds, Past
    <1>7. \A q \in Proc : pc'[q] \in {"store", "write"} => got'[q] = key'[q]
        BY DEF IInv, Writing, TypeOK, Begin, Lookup, Loads, LoadFails, Compiles,
            CompileFails, NoDirectory, RenameFails, Restart, Goto, Holds, Past
    <1>8. OwnContent' /\ StoredWhole'
        BY <1>1 DEF IInv, OwnContent, StoredWhole, Distinct, Path
    <1>9. Writing'
        BY <1>1, <1>3, <1>5, <1>7 DEF IInv, Writing
    <1>10. Alone'
        BY <1>1, <1>3, <1>4, <1>5 DEF IInv, Alone, Distinct, Tmp
    <1>. QED  BY <1>2, <1>6, <1>8, <1>9, <1>10 DEF IInv

LEMMA OpenStep ==
    ASSUME IInv, NEW p \in Proc, Open(p)
    PROVE  IInv'
    <1>. DEFINE f == Tmp(key[p], p)
    <1>0. TypeOK  BY DEF IInv
    <1>1. f \in Paths /\ f[1] = key[p] /\ key[p] \in Key  BY <1>0, Names DEF TypeOK
    <1>2. PICK i \in Inode :
              /\ \/ name[f] = i
                 \/ i \in Unused
              /\ name' = [name EXCEPT ![f] = i]
              /\ data' = [data EXCEPT ![i] = Torn]
              /\ open' = [open EXCEPT ![p] = i]
        BY <1>0, <1>1, CacheAssumption DEF Open, Opens, TypeOK, Unused
    <1>3. /\ pc[p] = "store" /\ pc' = [pc EXCEPT ![p] = "write"]
          /\ got' = got /\ key' = key /\ pid' = pid /\ lost' = lost /\ builds' = builds
          /\ killed' = killed
        BY DEF Open, Opens, Goto, Past
    <1>. HIDE DEF f
    <1>4. TypeOK'
        BY <1>0, <1>1, <1>2, <1>3, CacheAssumption DEF TypeOK, Content, Pcs
    \* The inode is the file's own or nobody's.
    <1>5. /\ i # NoFile
          /\ \A g \in Paths : name[g] = i => g = f
          /\ \A q \in Proc : open[q] = i => key[q] = key[p]
        BY <1>0, <1>1, <1>2, CacheAssumption DEF IInv, OwnContent, Writing, Unused
    <1>6. OwnContent'
        BY <1>0, <1>1, <1>2, <1>5 DEF IInv, OwnContent, TypeOK
    <1>7. Writing'
        BY <1>0, <1>1, <1>2, <1>3, <1>5 DEF IInv, Writing, TypeOK
    <1>8. OwnRecipe'  BY <1>3 DEF IInv, OwnRecipe
    <1>9. ASSUME Distinct'  PROVE  Distinct /\ \A q \in Proc : q # p => Tmp(key[q], q) # f
        BY <1>0, <1>3, <1>9, Names DEF f, Distinct, TypeOK
    <1>10. \A q \in Proc : Tmp(key[q], q)' = Tmp(key[q], q)
        BY <1>3 DEF Tmp
    <1>11. Alone'
        <2>. SUFFICES ASSUME Distinct' PROVE
               /\ \A q \in Proc : pc'[q] = "write" => name'[Tmp(key[q], q)] = open'[q]
               /\ \A q \in Proc : pc'[q] = "rename" /\ ~lost' /\ name'[Tmp(key[q], q)] # NoFile =>
                      data'[name'[Tmp(key[q], q)]] = key[q]
            BY <1>3, <1>10 DEF Alone
        <2>1. \A q \in Proc : Tmp(key[q], q) \in Paths  BY <1>0, Names DEF TypeOK
        <2>2. \A q \in Proc : pc'[q] = "write" => name'[Tmp(key[q], q)] = open'[q]
            BY <1>0, <1>1, <1>2, <1>3, <1>9, <2>1 DEF IInv, Alone, TypeOK, f
        <2>3. ASSUME NEW q \in Proc, pc'[q] = "rename", ~lost', name'[Tmp(key[q], q)] # NoFile
              PROVE  data'[name'[Tmp(key[q], q)]] = key[q]
            <3>1. q # p /\ pc[q] = "rename"  BY <1>0, <1>3, <2>3 DEF TypeOK
            <3>2. name'[Tmp(key[q], q)] = name[Tmp(key[q], q)]
                BY <1>0, <1>2, <1>9, <2>1, <3>1 DEF TypeOK
            <3>3. name[Tmp(key[q], q)] # i  BY <1>5, <1>9, <2>1, <3>1
            <3>. QED  BY <1>0, <1>2, <1>3, <1>9, <2>1, <2>3, <3>1, <3>2, <3>3 DEF IInv, Alone, TypeOK
        <2>. QED  BY <2>2, <2>3
    <1>12. StoredWhole'
        <2>. SUFFICES ASSUME Distinct', ~lost', NEW k \in Key, name'[Path(k)] # NoFile
             PROVE  data'[name'[Path(k)]] # Torn
            BY DEF StoredWhole, Path
        <2>1. Path(k) \in Paths /\ Path(k) # f  BY <1>0, <1>1, Names DEF f
        <2>2. name'[Path(k)] = name[Path(k)] /\ name[Path(k)] # i
            BY <1>0, <1>2, <1>5, <2>1 DEF TypeOK
        <2>. QED  BY <1>0, <1>2, <1>3, <1>9, <2>1, <2>2 DEF IInv, StoredWhole, TypeOK
    <1>. QED  BY <1>4, <1>6, <1>7, <1>8, <1>11, <1>12 DEF IInv

LEMMA WriteStep ==
    ASSUME IInv, NEW p \in Proc, Written(p) \/ WriteFails(p)
    PROVE  IInv'
    <1>. DEFINE f == Tmp(key[p], p)
    <1>0. TypeOK  BY DEF IInv
    <1>1. /\ pc[p] = "write" /\ open' = [open EXCEPT ![p] = NoFile]
          /\ name' = name /\ got' = got /\ key' = key /\ pid' = pid /\ lost' = lost
          /\ builds' = builds /\ killed' = killed
          /\ pc' = [pc EXCEPT ![p] = IF Written(p) THEN "rename" ELSE "remove"]
        BY <1>0 DEF Written, WriteFails, Goto, Files, Past, TypeOK
    <1>2. f \in Paths /\ f[1] = key[p] /\ key[p] \in Key /\ got[p] = key[p]
        BY <1>0, <1>1, Names DEF TypeOK, IInv, Writing
    <1>3. PICK i \in Inode : \E c \in {got[p], Torn, data[i]} :
              /\ i = open[p] /\ data' = [data EXCEPT ![i] = c]
              /\ Written(p) /\ Writers(i) = {p} => c = got[p]
        <2>1. open[p] \in Inode  BY <1>0, <1>1 DEF IInv, Writing, TypeOK
        <2>2. CASE Written(p)  BY <2>1, <2>2 DEF Written
        <2>3. CASE ~Written(p)
            <3>1. data' = [data EXCEPT ![open[p]] = data[open[p]]]
                BY <1>0, <2>1, <2>3 DEF WriteFails, Files, TypeOK
            <3>. QED  BY <2>1, <2>3, <3>1
        <2>. QED  BY <2>2, <2>3
    <1>. PICK c \in {got[p], Torn, data[i]} :
              /\ i = open[p] /\ data' = [data EXCEPT ![i] = c]
              /\ Written(p) /\ Writers(i) = {p} => c = got[p]
        BY <1>3
    <1>. HIDE DEF f
    <1>4. c \in Content  BY <1>0, <1>2, <1>3 DEF TypeOK, Content
    <1>5. TypeOK'
        BY <1>0, <1>1, <1>3, <1>4 DEF TypeOK, Pcs
    <1>6. \A g \in Paths : name[g] = i => g[1] = key[p]
        BY <1>0, <1>1, <1>3, CacheAssumption DEF IInv, Writing, TypeOK
    <1>7. OwnContent'
        BY <1>0, <1>1, <1>2, <1>3, <1>6 DEF IInv, OwnContent, TypeOK
    <1>8. Writing'
        BY <1>0, <1>1, <1>3, CacheAssumption DEF IInv, Writing, TypeOK
    <1>9. OwnRecipe'  BY <1>1 DEF IInv, OwnRecipe
    <1>10. ASSUME Distinct'
           PROVE  /\ Distinct
                  /\ name[f] = i
                  /\ \A g \in Paths : name[g] = i => g = f
                  /\ \A q \in Proc : q # p => Tmp(key[q], q) # f
                  /\ Writers(i) = {p}
        <2>1. Distinct  BY <1>1, <1>10 DEF Distinct
        <2>2. \A q \in Proc : q # p => Tmp(key[q], q) # f
            BY <1>0, <2>1, Names DEF f, TypeOK
        <2>3. name[f] = i  BY <1>1, <1>3, <2>1 DEF IInv, Alone, f
        <2>4. \A g \in Paths : name[g] = i => g = f
            BY <1>2, <1>3, <2>3, CacheAssumption DEF IInv, OwnContent
        <2>5. ASSUME NEW q \in Proc, open[q] = i  PROVE q = p
            <3>1. pc[q] = "write"  BY <2>5, <1>3, CacheAssumption DEF IInv, Writing
            <3>2. name[Tmp(key[q], q)] = i  BY <2>1, <2>5, <3>1 DEF IInv, Alone
            <3>3. Tmp(key[q], q) \in Paths  BY <1>0, Names DEF TypeOK
            <3>. QED  BY <2>2, <2>4, <3>2, <3>3
        <2>. QED  BY <1>3, <2>1, <2>2, <2>3, <2>4, <2>5 DEF Writers
    <1>11. Alone'
        <2>. SUFFICES ASSUME Distinct' PROVE
               /\ \A q \in Proc : pc'[q] = "write" => name[Tmp(key[q], q)] = open'[q]
               /\ \A q \in Proc : pc'[q] = "rename" /\ ~lost /\ name[Tmp(key[q], q)] # NoFile =>
                      data'[name[Tmp(key[q], q)]] = key[q]
            BY <1>1 DEF Alone, Tmp
        <2>1. \A q \in Proc : Tmp(key[q], q) \in Paths  BY <1>0, Names DEF TypeOK
        <2>2. \A q \in Proc : pc'[q] = "write" => name[Tmp(key[q], q)] = open'[q]
            BY <1>0, <1>1, <1>10 DEF IInv, Alone, TypeOK
        <2>3. ASSUME NEW q \in Proc, pc'[q] = "rename", ~lost, name[Tmp(key[q], q)] # NoFile
              PROVE  data'[name[Tmp(key[q], q)]] = key[q]
            <3>1. CASE q = p
                <4>1. Written(p)  BY <1>0, <1>1, <2>3, <3>1 DEF TypeOK
                <4>. QED  BY <1>0, <1>2, <1>3, <1>10, <3>1, <4>1 DEF f, TypeOK
            <3>2. CASE q # p
                <4>1. pc[q] = "rename"  BY <1>0, <1>1, <2>3, <3>2 DEF TypeOK
                <4>2. name[Tmp(key[q], q)] # i  BY <1>10, <2>1, <3>2
                <4>. QED  BY <1>0, <1>3, <1>10, <2>1, <2>3, <4>1, <4>2 DEF IInv, Alone, TypeOK
            <3>. QED  BY <3>1, <3>2
        <2>. QED  BY <2>2, <2>3
    <1>12. StoredWhole'
        <2>. SUFFICES ASSUME Distinct', ~lost, NEW k \in Key, name[Path(k)] # NoFile
             PROVE  data'[name[Path(k)]] # Torn
            BY <1>1 DEF StoredWhole, Path
        <2>1. Path(k) \in Paths /\ Path(k) # f  BY <1>0, Names DEF f, TypeOK
        <2>2. name[Path(k)] # i  BY <1>10, <2>1
        <2>. QED  BY <1>0, <1>3, <1>10, <2>1, <2>2 DEF IInv, StoredWhole, TypeOK
    <1>. QED  BY <1>5, <1>7, <1>8, <1>9, <1>11, <1>12 DEF IInv

\* A rename and the removal of the temporary file.
LEMMA RenameStep ==
    ASSUME IInv, NEW p \in Proc, Renames(p) \/ Removes(p)
    PROVE  IInv'
    <1>. DEFINE f == Tmp(key[p], p)
                t == Path(key[p])
    <1>0. TypeOK  BY DEF IInv
    <1>1. /\ pc' = [pc EXCEPT ![p] = "idle"] /\ pc[p] \in {"rename", "remove"}
          /\ data' = data /\ open' = open /\ got' = got /\ key' = key
          /\ pid' = pid /\ lost' = lost /\ builds' = builds /\ killed' = killed
        BY DEF Renames, Removes, Goto, Holds, Past
    <1>2. /\ f \in Paths /\ t \in Paths /\ f # t /\ f[1] = key[p] /\ t[1] = key[p]
          /\ key[p] \in Key
        BY <1>0, Names DEF TypeOK
    <1>3. \/ Renames(p) /\ name[f] # NoFile /\ name' = [name EXCEPT ![t] = name[f], ![f] = NoFile]
          \/ Removes(p) /\ name' = [name EXCEPT ![f] = NoFile]
        BY DEF Renames, Removes
    <1>5. \A g \in Paths : g \notin {f, t} => name'[g] = name[g]
        BY <1>0, <1>2, <1>3 DEF TypeOK
    <1>6. /\ name'[f] = NoFile
          /\ name'[t] \in {name[t], name[f]}
          /\ name'[t] = name[t] \/ (pc[p] = "rename" /\ name[f] # NoFile)
        BY <1>0, <1>2, <1>3 DEF TypeOK, Renames
    <1>7. TypeOK'
        <2>1. name' \in [Paths -> Inode \cup {NoFile}]  BY <1>0, <1>2, <1>3 DEF TypeOK
        <2>. QED  BY <1>0, <1>1, <2>1 DEF TypeOK, Pcs
    <1>. HIDE DEF f, t
    <1>8. OwnContent'
        <2>1. \A g \in Paths : name'[g] # NoFile =>
                 \E h \in Paths : name[h] = name'[g] /\ h[1] = g[1] /\ (h = g \/ (h = f /\ g = t))
            BY <1>2, <1>5, <1>6
        <2>2. \A g, h \in Paths : name'[g] # NoFile /\ name'[g] = name'[h] => g = h
            <3>. SUFFICES ASSUME NEW g \in Paths, NEW h \in Paths, name'[g] # NoFile,
                                 name'[g] = name'[h], g # h
                 PROVE  FALSE
                OBVIOUS
            <3>1. g # f /\ h # f  BY <1>6
            <3>2. CASE g = t  BY <1>2, <1>5, <1>6, <3>1, <3>2 DEF IInv, OwnContent
            <3>3. CASE h = t  BY <1>2, <1>5, <1>6, <3>1, <3>3 DEF IInv, OwnContent
            <3>4. CASE g # t /\ h # t  BY <1>5, <3>1, <3>4 DEF IInv, OwnContent
            <3>. QED  BY <3>2, <3>3, <3>4
        <2>3. \A g \in Paths : name'[g] # NoFile => data'[name'[g]] \in {Torn, g[1]}
            BY <1>1, <2>1 DEF IInv, OwnContent
        <2>. QED  BY <2>2, <2>3 DEF OwnContent
    <1>9. Writing'
        <2>1. \A q \in Proc, g \in Paths : open'[q] # NoFile /\ name'[g] = open'[q] => g[1] = key'[q]
            BY <1>1, <1>2, <1>5, <1>6 DEF IInv, Writing
        <2>2. \A q \in Proc : pc'[q] \in {"store", "write"} => pc'[q] = pc[q]
            BY <1>0, <1>1 DEF TypeOK
        <2>3. \A q \in Proc : pc'[q] = "write" <=> pc[q] = "write"
            BY <1>0, <1>1 DEF TypeOK
        <2>. QED  BY <1>1, <2>1, <2>2, <2>3 DEF IInv, Writing
    <1>10. OwnRecipe'  BY <1>1 DEF IInv, OwnRecipe
    <1>11. ASSUME Distinct'
           PROVE  Distinct /\ \A q \in Proc : q # p => Tmp(key[q], q) \in Paths \ {f, t}
        BY <1>0, <1>1, <1>11, Names DEF f, t, Distinct, TypeOK
    <1>12. Alone'
        <2>. SUFFICES ASSUME Distinct', NEW q \in Proc, pc'[q] \in {"write", "rename"}  PROVE
               /\ pc'[q] = "write" => name'[Tmp(key[q], q)] = open[q]
               /\ pc'[q] = "rename" /\ ~lost /\ name'[Tmp(key[q], q)] # NoFile =>
                      data[name'[Tmp(key[q], q)]] = key[q]
            BY <1>1 DEF Alone, Tmp
        <2>1. q # p /\ pc'[q] = pc[q]  BY <1>0, <1>1 DEF TypeOK
        <2>2. name'[Tmp(key[q], q)] = name[Tmp(key[q], q)]  BY <1>5, <1>11, <2>1
        <2>. QED  BY <1>11, <2>1, <2>2 DEF IInv, Alone
    <1>13. StoredWhole'
        <2>. SUFFICES ASSUME Distinct', ~lost, NEW k \in Key, name'[Path(k)] # NoFile
             PROVE  data[name'[Path(k)]] # Torn
            BY <1>1 DEF StoredWhole, Path
        <2>1. Path(k) \in Paths /\ Path(k) # f  BY <1>0, Names DEF f, TypeOK
        <2>2. CASE name'[Path(k)] = name[Path(k)]
            BY <1>11, <2>2 DEF IInv, StoredWhole
        <2>3. CASE name'[Path(k)] # name[Path(k)]
            <3>1. /\ Path(k) = t /\ name'[Path(k)] = name[f] /\ pc[p] = "rename" /\ name[f] # NoFile
                BY <1>5, <1>6, <2>1, <2>3
            <3>2. data[name[f]] = key[p]  BY <1>11, <3>1 DEF IInv, Alone, f
            <3>. QED  BY <1>2, <3>1, <3>2, CacheAssumption
        <2>. QED  BY <2>2, <2>3
    <1>. QED  BY <1>7, <1>8, <1>9, <1>10, <1>12, <1>13 DEF IInv

LEMMA KillStep ==
    ASSUME IInv, NEW p \in Proc, Kill(p)
    PROVE  IInv'
    <1>0. TypeOK  BY DEF IInv
    <1>1. TypeOK'
        BY <1>0, Names DEF TypeOK, Kill, Goto, Files, Pcs, Content
    <1>2. OwnContent' /\ StoredWhole'
        BY DEF IInv, OwnContent, StoredWhole, Kill, Files, Distinct, Path
    <1>3. Writing' /\ OwnRecipe' /\ Alone'
        BY <1>0 DEF IInv, TypeOK, Writing, OwnRecipe, Alone, Kill, Goto, Files, Distinct, Tmp
    <1>. QED  BY <1>1, <1>2, <1>3 DEF IInv

LEMMA PowerStep ==
    ASSUME IInv, PowerLoss
    PROVE  IInv'
    <1>0. TypeOK  BY DEF IInv
    <1>1. PICK gone \in SUBSET Inode : data' = [i \in Inode |-> IF i \in gone THEN Torn ELSE data[i]]
        BY DEF PowerLoss
    <1>2. lost' /\ pid' = pid /\ name' = name /\ key' = key /\ builds' = builds
        BY DEF PowerLoss
    <1>3. TypeOK'
        <2>1. data' \in [Inode -> Content]  BY <1>0, <1>1 DEF TypeOK, Content
        <2>2. killed' \subseteq Paths  BY <1>0, Names DEF TypeOK, PowerLoss
        <2>3. /\ pc' \in [Proc -> Pcs] /\ open' \in [Proc -> Inode \cup {NoFile}]
              /\ got' \in [Proc -> Content] /\ lost' \in BOOLEAN
            BY DEF PowerLoss, Pcs, Content
        <2>. QED  BY <1>0, <1>2, <2>1, <2>2, <2>3 DEF TypeOK
    <1>4. OwnContent'
        BY <1>0, <1>1, <1>2 DEF IInv, OwnContent, TypeOK
    <1>5. Writing' /\ OwnRecipe' /\ Alone' /\ StoredWhole'
        BY <1>2 DEF PowerLoss, Writing, OwnRecipe, Alone, StoredWhole
    <1>. QED  BY <1>3, <1>4, <1>5 DEF IInv

\* IInv is inductive.
THEOREM CacheInvariant == Spec => []IInv
    <1>1. ASSUME IInv, [Next]_vars  PROVE IInv'
        <2>1. CASE UNCHANGED vars
            BY <1>1, <2>1 DEF vars, IInv, TypeOK, OwnContent, Writing, OwnRecipe, Alone,
                StoredWhole, Distinct, Path, Tmp
        <2>2. CASE PowerLoss  BY <2>2, <1>1, PowerStep
        <2>3. ASSUME NEW p \in Proc, Step(p) \/ Kill(p) \/ Restart(p)  PROVE IInv'
            BY <1>1, <2>3, QuietSteps, OpenStep, WriteStep, RenameStep, KillStep DEF Step
        <2>. QED  BY <1>1, <2>1, <2>2, <2>3 DEF Next
    <1>. QED  BY InitInv, <1>1, PTL DEF Spec

\* A build that gets a recipe gets its own graph's.
THEOREM RecipeIsOwn == Spec => []OwnRecipe
    <1>1. IInv => OwnRecipe  BY DEF IInv
    <1>. QED  BY <1>1, CacheInvariant, PTL

\* While process ids differ and the power holds, a stored recipe is whole.
THEOREM StoredIsWhole == Spec => []StoredWhole
    <1>1. IInv => StoredWhole  BY DEF IInv
    <1>. QED  BY <1>1, CacheInvariant, PTL

\* No step takes a stored recipe away or spoils it while the power holds.
THEOREM StoredRecipeStays == Spec => StoredStays
    <1>. DEFINE Stays == ~lost' => \A k \in Key : name[Path(k)] # NoFile =>
                            /\ name'[Path(k)] # NoFile
                            /\ Distinct => data'[name'[Path(k)]] = data[name[Path(k)]]
    <1>1. ASSUME IInv, IInv', [Next]_vars  PROVE [Stays]_vars
        <2>. SUFFICES ASSUME ~lost', ~UNCHANGED vars, NEW k \in Key, name[Path(k)] # NoFile
             PROVE  /\ name'[Path(k)] # NoFile
                    /\ Distinct => data'[name'[Path(k)]] = data[name[Path(k)]]
            OBVIOUS
        <2>. DEFINE i == name[Path(k)]
        <2>0. TypeOK /\ Path(k) \in Paths /\ name[Path(k)] \in Inode
            BY <1>1, Names DEF IInv, TypeOK
        <2>1. Next /\ ~PowerLoss  BY <1>1 DEF PowerLoss
        <2>2. PICK p \in Proc : Step(p) \/ Kill(p) \/ Restart(p)  BY <2>1 DEF Next
        <2>3. /\ Tmp(key[p], p) \in Paths \ {Path(k)} /\ Tmp(key[p], p)[1] = key[p]
              /\ key[p] \in Key
              /\ \A l \in Key : Path(l) = Path(k) => l = k
            BY <2>0, Names DEF TypeOK
        <2>4. CASE \/ \E l \in Key : Begin(p, l)
                   \/ Lookup(p) \/ Loads(p) \/ LoadFails(p) \/ Compiles(p) \/ CompileFails(p)
                   \/ NoDirectory(p) \/ RenameFails(p) \/ Restart(p) \/ Kill(p) \/ WriteFails(p)
            BY <2>4 DEF Begin, Lookup, Loads, LoadFails, Compiles, CompileFails, NoDirectory,
                RenameFails, Restart, Kill, WriteFails, Files, Holds, Past
        <2>5. CASE Open(p)
            <3>1. PICK j \in Inode :
                      /\ name[Tmp(key[p], p)] = j \/ j \in Unused
                      /\ name' = [name EXCEPT ![Tmp(key[p], p)] = j]
                      /\ data' = [data EXCEPT ![j] = Torn]
                BY <2>0, <2>3, <2>5, CacheAssumption DEF Open, Opens, TypeOK, Unused
            <3>2. i # j
                BY <1>1, <2>0, <2>3, <3>1, CacheAssumption DEF IInv, OwnContent, Unused
            <3>. QED  BY <2>0, <2>3, <3>1, <3>2 DEF TypeOK
        <2>6. CASE Written(p)
            <3>1. name' = name /\ pc[p] = "write" /\ open[p] \in Inode
                BY <1>1, <2>0, <2>6 DEF Written, IInv, Writing, TypeOK
            <3>2. PICK c : data' = [data EXCEPT ![open[p]] = c]
                BY <2>6 DEF Written
            <3>3. Distinct => name[Tmp(key[p], p)] = open[p]
                BY <1>1, <3>1 DEF IInv, Alone
            <3>4. Distinct => open[p] # i
                BY <1>1, <2>0, <2>3, <3>1, <3>3, CacheAssumption DEF IInv, OwnContent
            <3>. QED  BY <2>0, <3>1, <3>2, <3>4 DEF TypeOK
        <2>7. CASE Renames(p)
            <3>1. /\ data' = data /\ name[Tmp(key[p], p)] # NoFile /\ pc[p] = "rename"
                  /\ lost' = lost /\ pid' = pid
                  /\ name'[Path(k)] \in {name[Path(k)], name[Tmp(key[p], p)]}
                  /\ Path(key[p]) # Path(k) => name'[Path(k)] = name[Path(k)]
                BY <2>0, <2>3, <2>7, Names DEF Renames, Past, TypeOK
            <3>2. Distinct => data[name[Tmp(key[p], p)]] = key[p]
                BY <1>1, <3>1 DEF IInv, Alone
            <3>3. Distinct => data[name[Path(k)]] = k
                BY <1>1, <2>0, <3>1, Names DEF IInv, StoredWhole, OwnContent
            <3>. QED  BY <2>3, <3>1, <3>2, <3>3
        <2>8. CASE Removes(p)
            BY <2>0, <2>3, <2>8 DEF Removes, TypeOK
        <2>. QED  BY <2>2, <2>4, <2>5, <2>6, <2>7, <2>8 DEF Step
    <1>. QED  BY CacheInvariant, <1>1, PTL DEF Spec, StoredStays

\* Only a process on its way, or one that was killed, leaves a temporary file.
THEOREM OnlyKilledLitter == Spec => []NoLitter
    <1>. DEFINE Busy(f) == \E p \in Proc : Tmp(key[p], p) = f /\ pc[p] \in {"write", "rename", "remove"}
    <1>1. Init => NoLitter  BY DEF Init, NoLitter
    <1>2. ASSUME IInv, NoLitter, [Next]_vars  PROVE NoLitter'
        <2>. SUFFICES ASSUME NEW f \in Paths, name'[f] # NoFile, f[2] # "recipe", f \notin killed'
             PROVE  Busy(f)'
            BY DEF NoLitter
        <2>0. TypeOK  BY <1>2 DEF IInv
        <2>1. CASE UNCHANGED vars
            BY <1>2, <2>1 DEF vars, NoLitter, Tmp
        <2>2. CASE PowerLoss
            <3>1. name' = name /\ f \notin killed /\ \A p \in Proc : Tmp(key[p], p) # f
                BY <2>2 DEF PowerLoss
            <3>. QED  BY <1>2, <3>1 DEF NoLitter
        <2>3. ASSUME NEW q \in Proc, Step(q) \/ Kill(q) \/ Restart(q)  PROVE Busy(f)'
            <3>0. f \notin killed /\ pid' = pid
                BY <2>3 DEF Step, Begin, Lookup, Loads, LoadFails, Compiles, CompileFails,
                    NoDirectory, Open, Opens, Written, WriteFails, Renames, RenameFails,
                    Removes, Restart, Kill, Files, Holds, Past
            <3>1. name[f] # NoFile \/ (Open(q) /\ f = Tmp(key[q], q))
                <4>1. CASE Open(q)
                    BY <2>0, <4>1 DEF Open, Opens, TypeOK
                <4>2. CASE Renames(q)
                    BY <2>0, <4>2, Names DEF Renames, TypeOK, Path
                <4>3. CASE Removes(q)
                    BY <2>0, <4>3 DEF Removes, TypeOK
                <4>4. CASE ~Open(q) /\ ~Renames(q) /\ ~Removes(q)
                    BY <2>3, <4>4 DEF Step, Begin, Lookup, Loads, LoadFails, Compiles,
                        CompileFails, NoDirectory, Written, WriteFails, RenameFails, Restart,
                        Kill, Files, Holds, Past
                <4>. QED  BY <4>1, <4>2, <4>3, <4>4
            <3>2. CASE Open(q) /\ f = Tmp(key[q], q)
                <4>1. key' = key /\ pc'[q] = "write"
                    BY <2>0, <3>2 DEF Open, Opens, Goto, TypeOK
                <4>. QED  BY <3>0, <3>2, <4>1 DEF Tmp
            <3>3. CASE name[f] # NoFile
                <4>1. PICK p \in Proc : Tmp(key[p], p) = f /\ pc[p] \in {"write", "rename", "remove"}
                    BY <1>2, <3>0, <3>3 DEF NoLitter
                <4>2. CASE p # q
                    <5>1. pc'[p] = pc[p] /\ key'[p] = key[p]
                        BY <2>0, <2>3, <4>2 DEF Step, Begin, Lookup, Loads, LoadFails, Compiles,
                            CompileFails, NoDirectory, Open, Opens, Written, WriteFails, Renames,
                            RenameFails, Removes, Restart, Kill, Goto, TypeOK
                    <5>. QED  BY <3>0, <4>1, <5>1 DEF Tmp
                <4>3. CASE p = q
                    <5>1. \/ Written(q) \/ WriteFails(q) \/ RenameFails(q)
                          \/ Renames(q) \/ Removes(q) \/ Kill(q)
                        BY <2>3, <4>1, <4>3 DEF Step, Begin, Lookup, Loads, LoadFails, Compiles,
                            CompileFails, NoDirectory, Open, Opens, Restart
                    <5>2. CASE Written(q) \/ WriteFails(q) \/ RenameFails(q)
                        <6>1. key' = key /\ pc'[q] \in {"rename", "remove"}
                            BY <2>0, <5>2 DEF Written, WriteFails, RenameFails, Goto, TypeOK
                        <6>. QED  BY <3>0, <4>1, <4>3, <6>1 DEF Tmp
                    <5>3. CASE Renames(q) \/ Removes(q)
                        <6>1. name'[f] = NoFile
                            BY <2>0, <4>1, <4>3, <5>3, Names DEF Renames, Removes, TypeOK
                        <6>. QED  BY <6>1
                    <5>4. CASE Kill(q)
                        BY <4>1, <4>3, <5>4 DEF Kill
                    <5>. QED  BY <5>1, <5>2, <5>3, <5>4
                <4>. QED  BY <4>2, <4>3
            <3>. QED  BY <3>1, <3>2, <3>3
        <2>. QED  BY <1>2, <2>1, <2>2, <2>3 DEF Next
    <1>. QED  BY CacheInvariant, <1>1, <1>2, PTL DEF Spec
=============================================================================
