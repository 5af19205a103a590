--------------------------- MODULE UserMan_proofs ---------------------------
(***************************************************************************)
(* Theorems about UserMan, for any number of kernels, directories, names   *)
(* and passwords.                                                          *)
(***************************************************************************)
EXTENDS UserMan, TLAPS

-----------------------------------------------------------------------------
(* Lines.                                                                  *)

LEMMA FormatType ==
  ASSUME NEW n \in Names, NEW p \in Passwords
  PROVE  Format(n, Hash[p]) \in Line
BY NamesAssumption, HashAssumption DEF Format, Line

LEMMA Singleton ==
  ASSUME NEW S, NEW s \in Seq(S), Len(s) = 1
  PROVE  s = <<s[1]>>
OBVIOUS

\* A line written for a name matches that name with that hash, provided the
\* name has no dot; no line matches any other name or hash.
LEMMA FormatMatches ==
  ASSUME NEW n \in Names, NEW m \in Names, NEW p \in Passwords, NEW q \in Passwords
  PROVE  /\ Matches(Format(n, Hash[p]), m, Hash[q]) => n = m /\ p = q
         /\ Len(n) = 1 => Matches(Format(n, Hash[p]), n, Hash[p])
<1>1. /\ n \in Seq(STRING) /\ n # <<>> /\ m \in Seq(STRING)
      /\ Hash[p] \in STRING /\ Hash[q] \in STRING
  BY NamesAssumption, HashAssumption
<1>2. Len(n) \in Nat \ {0}
  BY <1>1
<1> DEFINE l == Append(n, Hash[p])
<1>3. /\ l \in Seq(STRING) /\ Len(l) = Len(n) + 1 /\ l[Len(n) + 1] = Hash[p]
      /\ \A i \in 1..Len(n) : l[i] = n[i]
  BY <1>1
<1>4. /\ Head(l) = n[1]
      /\ Len(Tail(l)) = Len(n)
      /\ \A i \in 1..Len(n) : Tail(l)[i] = l[i + 1]
  BY <1>2, <1>3
<1>5. ASSUME Matches(l, m, Hash[q]) PROVE n = m /\ p = q
  <2>1. <<n[1]>> = m /\ Tail(l) = <<Hash[q]>>
    BY <1>4, <1>5 DEF Matches
  <2>2. Len(n) = 1 /\ Tail(l)[1] = Hash[q]
    <3> DEFINE t == Tail(l)
    <3>1. t = <<Hash[q]>> /\ Len(t) = Len(n)
      BY <1>4, <2>1
    <3> HIDE DEF t
    <3>2. Len(t) = 1 /\ t[1] = Hash[q]
      BY <3>1
    <3> QED  BY <3>1, <3>2 DEF t
  <2>4. Hash[p] = Hash[q]
    BY <1>3, <1>4, <2>2
  <2>3. n = <<n[1]>>
    BY <1>1, <2>2, Singleton
  <2> QED  BY <2>1, <2>3, <2>4, HashAssumption
<1>6. ASSUME Len(n) = 1 PROVE Matches(l, n, Hash[p])
  <2>1. n = <<n[1]>>
    BY <1>1, <1>6, Singleton
  <2>2. Tail(l) \in Seq(STRING) /\ Len(Tail(l)) = 1 /\ Tail(l)[1] = Hash[p]
    BY <1>2, <1>3, <1>4, <1>6
  <2>3. Tail(l) = <<Hash[p]>>
    <3> DEFINE t == Tail(l)
    <3>1. t \in Seq(STRING) /\ Len(t) = 1 /\ t[1] = Hash[p]
      BY <2>2
    <3> HIDE DEF t
    <3>2. t = <<t[1]>>
      BY <3>1, Singleton
    <3> QED  BY <3>1, <3>2 DEF t
  <2> QED  BY <1>4, <2>1, <2>3 DEF Matches
<1> QED  BY <1>5, <1>6 DEF Format

-----------------------------------------------------------------------------
(* Types.                                                                  *)

LEMMA TypeStep == TypeOK /\ [Next]_vars => TypeOK'
<1> SUFFICES ASSUME TypeOK, [Next]_vars PROVE TypeOK'
  OBVIOUS
<1> USE DEF TypeOK, KernelPC, fileVars, Goto, SetEcho
<1>1. CASE UNCHANGED vars
  BY <1>1 DEF vars
<1>2. ASSUME NEW k \in Kernels, Step(k) PROVE TypeOK'
  <2>1. CASE Boot(k)
    BY <2>1 DEF Boot
  <2>2. CASE Initialize(k)
    BY <2>2 DEF Initialize
  <2>3. CASE CreateOpen(k)
    <3>1. <<>> \in Seq(Line)
      OBVIOUS
    <3>2. /\ passwd' \in {passwd, [passwd EXCEPT ![RootFS] = <<>>]}
          /\ exists' \in {exists, [exists EXCEPT ![RootFS] = TRUE]}
          /\ echo' \in {echo, [echo EXCEPT ![k] = FALSE]}
          /\ pc' \in {[pc EXCEPT ![k] = "newpassword"], [pc EXCEPT ![k] = "username"]}
          /\ linked' \in {linked, [linked EXCEPT ![k] = TRUE]}
          /\ rootless' \in {rootless, FALSE}
          /\ UNCHANGED <<attempts, currentUsername, cwd>>
      BY <2>3, Zenon DEF CreateOpen, Goto, SetEcho, fileVars
    <3>3. passwd' \in [Dirs -> Seq(Line)]
      BY <3>1, <3>2
    <3>4. pc' \in [Kernels -> KernelPC] /\ exists' \in [Dirs -> BOOLEAN]
          /\ echo' \in [Kernels -> BOOLEAN] /\ linked' \in [Kernels -> BOOLEAN]
      BY <3>2
    <3> QED  BY <3>2, <3>3, <3>4
  <2>4. CASE CreateWrite(k)
    <3>1. /\ pc' = [pc EXCEPT ![k] = "username"] /\ echo' = [echo EXCEPT ![k] = TRUE]
          /\ linked' = [linked EXCEPT ![k] = FALSE]
          /\ UNCHANGED <<attempts, currentUsername, cwd, exists, rootless>>
      BY <2>4 DEF CreateWrite
    <3>2. ASSUME NEW p \in Passwords,
                 passwd' = [passwd EXCEPT ![RootFS] =
                              <<Format(Root, Hash[p])>> \o SubSeq(@, 2, Len(@))]
          PROVE  passwd' \in [Dirs -> Seq(Line)]
      <4> DEFINE first == <<Format(Root, Hash[p])>>
                 rest  == SubSeq(passwd[RootFS], 2, Len(passwd[RootFS]))
      <4>1. Format(Root, Hash[p]) \in Line /\ passwd[RootFS] \in Seq(Line)
        BY FormatType, NamesAssumption, DirsAssumption
      <4>2. first \in Seq(Line) /\ rest \in Seq(Line)
        BY <4>1
      <4>3. passwd' = [passwd EXCEPT ![RootFS] = first \o rest]
        BY <3>2
      <4> HIDE DEF first, rest
      <4>4. first \o rest \in Seq(Line)
        BY <4>2
      <4> QED  BY <4>3, <4>4
    <3>3. passwd' \in [Dirs -> Seq(Line)]
      BY <2>4, <3>2 DEF CreateWrite
    <3> QED  BY <3>1, <3>3
  <2>5. CASE LoginUsername(k)
    BY <2>5 DEF LoginUsername
  <2>6. CASE LoginPassword(k)
    <3>1. PICK n \in Names : LoginSucceeds(k, n) \/ LoginFails(k)
      BY <2>6 DEF LoginPassword
    <3>2. SetEcho(k, TRUE) /\ UNCHANGED fileVars
      BY <2>6 DEF LoginPassword
    <3>3. CASE LoginSucceeds(k, n)
      BY <3>2, <3>3 DEF LoginSucceeds
    <3>4. CASE LoginFails(k)
      <4>1. attempts[k] \in 0..2
        OBVIOUS
      <4>2. \/ /\ attempts[k] + 1 \in 0..2
               /\ attempts' = [attempts EXCEPT ![k] = attempts[k] + 1]
               /\ pc' = [pc EXCEPT ![k] = "username"]
               /\ UNCHANGED <<currentUsername, cwd>>
            \/ Ends(k)
        BY <3>4, <4>1 DEF LoginFails, maxAttempts
      <4>3. CASE Ends(k)
        BY <3>2, <4>3, DirsAssumption DEF Ends
      <4> QED  BY <3>2, <4>2, <4>3
    <3> QED  BY <3>1, <3>3, <3>4
  <2>7. CASE Chdir(k)
    BY <2>7 DEF Chdir
  <2>8. ASSUME NEW n \in Names, NEW p \in Passwords, Appends(k, Format(n, Hash[p]))
        PROVE  TypeOK'
    <3>1. Format(n, Hash[p]) \in Line
      BY FormatType
    <3>2. passwd[cwd[k]] \in Seq(Line)
      OBVIOUS
    <3>3. passwd' \in [Dirs -> Seq(Line)]
      BY <2>8, <3>1, <3>2 DEF Appends
    <3>4. rootless' \in BOOLEAN
      BY <2>8 DEF Appends
    <3> QED  BY <2>8, <3>3, <3>4 DEF Appends
  <2>11. ASSUME NEW d \in Dirs, Remove(k, d) PROVE TypeOK'
    <3>1. <<>> \in Seq(Line)
      OBVIOUS
    <3>2. passwd' \in [Dirs -> Seq(Line)]
      BY <2>11, <3>1 DEF Remove
    <3>3. linked' \in [Kernels -> BOOLEAN] /\ rootless' \in BOOLEAN
      BY <2>11 DEF Remove
    <3> QED  BY <2>11, <3>2, <3>3 DEF Remove
  <2>9. CASE Exit(k)
    BY <2>9, DirsAssumption DEF Exit, Ends
  <2>10. CASE Interrupt(k)
    BY <2>10, DirsAssumption DEF Interrupt, Ends
  <2> QED  BY <1>2, <2>1, <2>2, <2>3, <2>4, <2>5, <2>6, <2>7, <2>8, <2>9, <2>10, <2>11
           DEF Step, SetPassword, Edit
<1> QED  BY <1>1, <1>2 DEF Next

LEMMA InitType == Init => TypeOK
<1>1. <<>> \in Seq(Line)
  OBVIOUS
<1> SUFFICES ASSUME Init PROVE TypeOK
  OBVIOUS
<1>2. passwd \in [Dirs -> Seq(Line)]
  BY <1>1 DEF Init
<1>3. attempts \in [Kernels -> 0..2]
  BY DEF Init
<1> QED  BY <1>2, <1>3, DirsAssumption DEF Init, TypeOK, KernelPC

\* Every variable keeps its type; in particular no process ever makes a fourth
\* attempt to log in (userman.cpp 47-64).
THEOREM TypeCorrect == Spec => []TypeOK
BY InitType, TypeStep, PTL DEF Spec

-----------------------------------------------------------------------------
(* The echo.                                                               *)

\* The shell echoes on every terminal, whatever earlier processes left it in
\* (userman.cpp 17-38).
THEOREM ShellEchoes == Spec => []EchoInShell
<1>1. Init => EchoInShell
  BY DEF Init, EchoInShell
<1>2. TypeOK /\ EchoInShell /\ [Next]_vars => EchoInShell'
  <2> SUFFICES ASSUME TypeOK, EchoInShell, [Next]_vars PROVE EchoInShell'
    OBVIOUS
  <2> USE DEF EchoInShell, TypeOK, Goto, SetEcho
  <2>1. CASE UNCHANGED vars
    BY <2>1 DEF vars
  <2>2. ASSUME NEW k \in Kernels, Step(k) PROVE EchoInShell'
    <3>1. \A j \in Kernels : j # k => pc'[j] = pc[j] /\ echo'[j] = echo[j]
      BY <2>2 DEF Step, Boot, Initialize, CreateOpen, CreateWrite, LoginUsername,
         LoginPassword, LoginSucceeds, LoginFails, Ends, Chdir, SetPassword, Edit, Appends,
         Remove, Exit, Interrupt
    <3>2. pc'[k] = "shell" => echo'[k]
      BY <2>2 DEF Step, Boot, Initialize, CreateOpen, CreateWrite, LoginUsername,
         LoginPassword, LoginSucceeds, LoginFails, Ends, Chdir, SetPassword, Edit, Appends,
         Remove, Exit, Interrupt
    <3> QED  BY <3>1, <3>2
  <2> QED  BY <2>1, <2>2 DEF Next
<1> QED  BY <1>1, <1>2, TypeCorrect, PTL DEF Spec

-----------------------------------------------------------------------------
(* The file.  What a line written at its end, or by createPasswordFile(),  *)
(* does to the pairs authenticate() accepts.                               *)

LEMMA AppendsAccepts ==
  ASSUME TypeOK, NEW k \in Kernels, NEW n \in Names, NEW p \in Passwords,
         Appends(k, Format(n, Hash[p])), exists[RootFS],
         NEW m \in Names, NEW q \in Passwords
  PROVE  Authenticate(RootFS, m, q)'
           <=> \/ Authenticate(RootFS, m, q)
               \/ /\ cwd[k] = RootFS
                  /\ Matches(Format(n, Hash[p]), m, Hash[q])
<1>1. exists'[RootFS]
  BY DirsAssumption DEF Appends, TypeOK
<1>2. CASE cwd[k] # RootFS
  <2>1. passwd'[RootFS] = passwd[RootFS]
    BY <1>2, DirsAssumption DEF Appends, TypeOK
  <2> QED  BY <1>1, <1>2, <2>1 DEF Authenticate
<1>3. CASE cwd[k] = RootFS
  <2> DEFINE s == passwd[RootFS]
             l == Format(n, Hash[p])
  <2>1. s \in Seq(Line) /\ l \in Line
    BY FormatType, DirsAssumption DEF TypeOK
  <2>2. passwd'[RootFS] = Append(s, l)
    BY <1>3, DirsAssumption DEF Appends, TypeOK
  <2> HIDE DEF s, l
  <2>3. /\ Len(s) \in Nat
        /\ Len(Append(s, l)) = Len(s) + 1
        /\ Append(s, l)[Len(s) + 1] = l
        /\ \A i \in 1..Len(s) : Append(s, l)[i] = s[i]
    BY <2>1
  <2>4. (\E i \in 1..Len(Append(s, l)) : Matches(Append(s, l)[i], m, Hash[q]))
          <=> \/ \E i \in 1..Len(s) : Matches(s[i], m, Hash[q])
              \/ Matches(l, m, Hash[q])
    <3>1. ASSUME NEW i \in 1..Len(Append(s, l)), Matches(Append(s, l)[i], m, Hash[q])
          PROVE  \/ \E j \in 1..Len(s) : Matches(s[j], m, Hash[q])
                 \/ Matches(l, m, Hash[q])
      <4>1. i \in 1..Len(s) \/ i = Len(s) + 1
        BY <2>3
      <4> QED  BY <2>3, <3>1, <4>1
    <3>2. ASSUME NEW i \in 1..Len(s), Matches(s[i], m, Hash[q])
          PROVE  \E j \in 1..Len(Append(s, l)) : Matches(Append(s, l)[j], m, Hash[q])
      <4>1. i \in 1..Len(Append(s, l))
        BY <2>3
      <4> QED  BY <2>3, <3>2, <4>1
    <3>3. ASSUME Matches(l, m, Hash[q])
          PROVE  \E j \in 1..Len(Append(s, l)) : Matches(Append(s, l)[j], m, Hash[q])
      <4>1. Len(s) + 1 \in 1..Len(Append(s, l))
        BY <2>3
      <4> QED  BY <2>3, <3>3, <4>1
    <3> QED  BY <3>1, <3>2, <3>3
  <2> QED  BY <1>1, <1>3, <2>2, <2>4 DEF Authenticate, s, l
<1> QED  BY <1>2, <1>3

LEMMA CreateWriteAccepts ==
  ASSUME TypeOK, NEW k \in Kernels, CreateWrite(k), linked[k], exists[RootFS]
  PROVE  RootHasPassword'
<1>1. PICK p \in Passwords :
        passwd' = [passwd EXCEPT ![RootFS] =
                     <<Format(Root, Hash[p])>> \o SubSeq(@, 2, Len(@))]
  BY DEF CreateWrite
<1> DEFINE l    == Format(Root, Hash[p])
           rest == SubSeq(passwd[RootFS], 2, Len(passwd[RootFS]))
<1>2. l \in Line /\ rest \in Seq(Line)
  BY FormatType, NamesAssumption, DirsAssumption DEF TypeOK
<1>3. passwd'[RootFS] = <<l>> \o rest
  BY <1>1, DirsAssumption DEF TypeOK
<1>4. Matches(l, Root, Hash[p])
  BY FormatMatches, NamesAssumption
<1> HIDE DEF l, rest
<1>5. 1 \in 1..Len(<<l>> \o rest) /\ (<<l>> \o rest)[1] = l
  BY <1>2
<1>6. exists'[RootFS]
  BY DEF CreateWrite
<1>7. Authenticate(RootFS, Root, p)'
  BY <1>3, <1>4, <1>5, <1>6 DEF Authenticate
<1> QED  BY <1>7 DEF RootHasPassword

\* A process that has the .passwd of the rootfs open is at the prompt for root's
\* password, and the file exists.
LinkedFits(k) == linked[k] => exists[RootFS] /\ pc[k] = "newpassword"
Linked == \A k \in Kernels : LinkedFits(k)

LEMMA LinkedStep == TypeOK /\ Linked /\ [Next]_vars => Linked'
<1> SUFFICES ASSUME TypeOK, Linked, [Next]_vars PROVE Linked'
  OBVIOUS
<1>0. /\ RootFS \in Dirs /\ exists \in [Dirs -> BOOLEAN]
      /\ linked \in [Kernels -> BOOLEAN] /\ pc \in [Kernels -> KernelPC]
  BY DirsAssumption DEF TypeOK
<1>1. ASSUME UNCHANGED fileVars,
             \A j \in Kernels : pc[j] = "newpassword" => pc'[j] = "newpassword"
      PROVE  Linked'
  BY <1>1 DEF Linked, LinkedFits, fileVars
<1>2. CASE UNCHANGED vars
  BY <1>1, <1>2 DEF vars
<1>3. ASSUME NEW k \in Kernels, Step(k) PROVE Linked'
  <2> USE <1>0 DEF Linked, LinkedFits, Goto
  <2>1. CASE CreateOpen(k)
    BY <2>1 DEF CreateOpen, fileVars
  <2>2. CASE CreateWrite(k)
    BY <2>2 DEF CreateWrite
  <2>3. ASSUME NEW n \in Names, NEW p \in Passwords, SetPassword(k, n, p) \/ Edit(k, n, p)
        PROVE  Linked'
    BY <2>3 DEF SetPassword, Edit, Appends
  <2>4. ASSUME NEW d \in Dirs, Remove(k, d) PROVE Linked'
    BY <2>4 DEF Remove
  <2>5. CASE Interrupt(k)
    BY <2>5 DEF Interrupt, Ends
  <2>6. CASE Boot(k) \/ Initialize(k) \/ LoginUsername(k) \/ LoginPassword(k)
               \/ Chdir(k) \/ Exit(k)
    <3>1. UNCHANGED fileVars
      BY <2>6 DEF Boot, Initialize, LoginUsername, LoginPassword, Chdir, Exit
    <3>2. \A j \in Kernels : pc[j] = "newpassword" => pc'[j] = "newpassword"
      BY <2>6 DEF Boot, Initialize, LoginUsername, LoginPassword, LoginSucceeds,
         LoginFails, Ends, Chdir, Exit
    <3> QED  BY <1>1, <3>1, <3>2
  <2> QED  BY <1>3, <2>1, <2>2, <2>3, <2>4, <2>5, <2>6 DEF Step
<1> QED  BY <1>2, <1>3 DEF Next

LEMMA LockoutStep ==
  TypeOK /\ Linked /\ NoLockoutByRaces /\ [Next]_vars => NoLockoutByRaces'
<1> SUFFICES ASSUME TypeOK, Linked, NoLockoutByRaces, [Next]_vars
             PROVE  NoLockoutByRaces'
  OBVIOUS
<1>0. /\ RootFS \in Dirs /\ exists \in [Dirs -> BOOLEAN]
      /\ linked \in [Kernels -> BOOLEAN]
  BY DirsAssumption DEF TypeOK
<1>1. ASSUME UNCHANGED fileVars PROVE NoLockoutByRaces'
  BY <1>1 DEF NoLockoutByRaces, RootHasPassword, Authenticate, fileVars
<1>2. CASE UNCHANGED vars
  BY <1>1, <1>2 DEF vars
<1>3. ASSUME NEW k \in Kernels, Step(k) PROVE NoLockoutByRaces'
  <2>1. CASE CreateOpen(k)
    <3>1. linked'[k] \/ UNCHANGED fileVars
      BY <1>0, <2>1 DEF CreateOpen
    <3> QED  BY <1>1, <3>1 DEF NoLockoutByRaces
  <2>2. CASE CreateWrite(k)
    <3>1. CASE linked[k]
      <4>1. RootHasPassword'
        BY <2>2, <3>1, CreateWriteAccepts DEF Linked, LinkedFits
      <4> QED  BY <4>1 DEF NoLockoutByRaces
    <3>2. CASE ~linked[k]
      <4>1. UNCHANGED <<exists, passwd, rootless>>
        BY <2>2, <3>2 DEF CreateWrite
      <4>2. linked' = [linked EXCEPT ![k] = FALSE]
        BY <2>2 DEF CreateWrite
      <4>3. linked' = linked
        BY <1>0, <3>2, <4>2
      <4> QED  BY <1>1, <4>1, <4>3 DEF fileVars
    <3> QED  BY <3>1, <3>2
  <2>3. ASSUME NEW n \in Names, NEW p \in Passwords, SetPassword(k, n, p) \/ Edit(k, n, p)
        PROVE  NoLockoutByRaces'
    <3>1. Appends(k, Format(n, Hash[p]))
      BY <2>3 DEF SetPassword, Edit
    <3>2. UNCHANGED linked /\ (rootless => rootless')
      BY <3>1 DEF Appends
    <3>3. CASE exists[RootFS]
      <4>1. RootHasPassword => RootHasPassword'
        BY <3>1, <3>3, AppendsAccepts, NamesAssumption DEF RootHasPassword
      <4> QED  BY <3>2, <3>3, <4>1 DEF NoLockoutByRaces
    <3>4. CASE ~exists[RootFS]
      <4>1. exists'[RootFS] => rootless'
        BY <1>0, <3>1, <3>4 DEF Appends, TypeOK
      <4> QED  BY <4>1 DEF NoLockoutByRaces
    <3> QED  BY <3>3, <3>4
  <2>4. ASSUME NEW d \in Dirs, Remove(k, d) PROVE NoLockoutByRaces'
    <3>1. CASE d = RootFS
      <4>1. ~exists'[RootFS]
        BY <1>0, <2>4, <3>1 DEF Remove
      <4> QED  BY <4>1 DEF NoLockoutByRaces
    <3>2. CASE d # RootFS
      <4>1. exists'[RootFS] = exists[RootFS] /\ passwd'[RootFS] = passwd[RootFS]
        BY <1>0, <2>4, <3>2 DEF Remove, TypeOK
      <4>2. (rootless => rootless') /\ \A j \in Kernels : linked[j] => linked'[j]
        BY <2>4, <3>2 DEF Remove
      <4> QED  BY <4>1, <4>2 DEF NoLockoutByRaces, RootHasPassword, Authenticate
    <3> QED  BY <3>1, <3>2
  <2>5. CASE Interrupt(k)
    <3>1. UNCHANGED <<exists, passwd>> /\ (rootless => rootless') /\ (linked[k] => rootless')
          /\ linked' = [linked EXCEPT ![k] = FALSE]
      BY <2>5 DEF Interrupt
    <3>2. \A j \in Kernels : linked[j] => linked'[j] \/ rootless'
      BY <1>0, <3>1
    <3> QED  BY <3>1, <3>2 DEF NoLockoutByRaces, RootHasPassword, Authenticate
  <2>6. CASE Boot(k) \/ Initialize(k) \/ LoginUsername(k) \/ LoginPassword(k)
               \/ Chdir(k) \/ Exit(k)
    <3>1. UNCHANGED fileVars
      BY <2>6 DEF Boot, Initialize, LoginUsername, LoginPassword, Chdir, Exit
    <3> QED  BY <1>1, <3>1
  <2> QED  BY <1>3, <2>1, <2>2, <2>3, <2>4, <2>5, <2>6 DEF Step
<1> QED  BY <1>2, <1>3 DEF Next

\* However many processes create, write over, extend and remove the password file
\* at once, root can log in with some password unless one of them is at the prompt
\* for it or has ended there, or the file was made by passwd or the editor after
\* rm (userman.cpp 42-45, 86-115; disk.cpp 156-170, 216-222).
THEOREM RacesLockNobodyOut == Spec => []NoLockoutByRaces
<1>1. Init => Linked /\ NoLockoutByRaces
  BY DirsAssumption DEF Init, Linked, LinkedFits, NoLockoutByRaces
<1> QED  BY <1>1, LinkedStep, LockoutStep, TypeCorrect, PTL DEF Spec

-----------------------------------------------------------------------------
(* UserMan implements Accounts.                                            *)

\* Whoever has a name has a shell, and nobody else.
UserInv == \A k \in Kernels : pc[k] # "shell" <=> currentUsername[k] = NoName

LEMMA UserStep == TypeOK /\ UserInv /\ [Next]_vars => UserInv'
<1> SUFFICES ASSUME TypeOK, UserInv, [Next]_vars PROVE UserInv'
  OBVIOUS
<1> USE DEF UserInv
<1>1. CASE UNCHANGED vars
  BY <1>1 DEF vars
<1>2. ASSUME NEW k \in Kernels, Step(k) PROVE UserInv'
  <2>1. \A j \in Kernels : j # k =>
          pc'[j] = pc[j] /\ currentUsername'[j] = currentUsername[j]
    BY <1>2 DEF TypeOK, Step, Boot, Initialize, CreateOpen, CreateWrite,
       LoginUsername, LoginPassword, LoginSucceeds, LoginFails, Ends, Chdir,
       SetPassword, Edit, Appends, Remove, Exit, Interrupt, Goto
  <2>2. CASE LoginPassword(k)
    <3>1. PICK n \in Names : LoginSucceeds(k, n) \/ LoginFails(k)
      BY <2>2 DEF LoginPassword
    <3>2. n # NoName
      BY NamesAssumption
    <3> QED  BY <2>1, <2>2, <3>1, <3>2 DEF TypeOK, LoginPassword, LoginSucceeds,
             LoginFails, Ends, Goto
  <2>3. CASE ~LoginPassword(k)
    BY <1>2, <2>1, <2>3 DEF TypeOK, Step, Boot, Initialize, CreateOpen, CreateWrite,
       LoginUsername, Ends, Chdir, SetPassword, Edit, Appends, Remove, Exit, Interrupt,
       Goto
  <2> QED  BY <2>2, <2>3
<1> QED  BY <1>1, <1>2 DEF Next

\* Steps that touch neither the file nor who is logged in, and that start or
\* end no creation of the file, are invisible.
LEMMA Invisible ==
  ASSUME UNCHANGED <<exists, passwd, currentUsername>>,
         \/ ~settled /\ ~settled'
         \/ \A k \in Kernels : pc'[k] \in {"create", "newpassword"}
                                  <=> pc[k] \in {"create", "newpassword"}
  PROVE  UNCHANGED A!vars
<1>1. accepted' = accepted
  BY DEF accepted, Authenticate
<1>2. settled' = settled
  BY DEF settled
<1> QED  BY <1>1, <1>2 DEF A!vars

LEMMA CreationSetsUp ==
  ASSUME TypeOK, NEW k \in Kernels, pc[k] \in {"create", "newpassword"},
         UNCHANGED currentUsername
  PROVE  A!SetUp
BY DEF A!SetUp, accepted, settled

LEMMA AppendsAdds ==
  ASSUME TypeOK, NEW k \in Kernels, NEW n \in Names, NEW p \in Passwords,
         currentUsername[k] # NoName, Appends(k, Format(n, Hash[p]))
  PROVE  A!AddPassword(k, n, p) \/ A!SetUp \/ UNCHANGED A!vars
<1>0. CASE ~exists[RootFS]
  BY <1>0 DEF Appends, A!SetUp, accepted, settled
<1>1. CASE exists[RootFS]
  <2>1. exists'[RootFS] /\ UNCHANGED <<pc, currentUsername>>
    BY <1>1, DirsAssumption DEF Appends, TypeOK
  <2>2. settled' = settled
    BY <1>1, <2>1 DEF settled
  <2>3. ASSUME NEW m \in Names, NEW q \in Passwords
        PROVE  Authenticate(RootFS, m, q)'
                 <=> \/ Authenticate(RootFS, m, q)
                     \/ /\ cwd[k] = RootFS
                        /\ Matches(Format(n, Hash[p]), m, Hash[q])
    BY <1>1, AppendsAccepts
  <2>4. CASE cwd[k] = RootFS /\ Matches(Format(n, Hash[p]), n, Hash[p])
    <3>1. \A m \in Names, q \in Passwords :
            Matches(Format(n, Hash[p]), m, Hash[q]) <=> m = n /\ q = p
      BY <2>4, FormatMatches
    <3>2. accepted' = accepted \cup {<<n, p>>}
      BY <2>3, <2>4, <3>1 DEF accepted
    <3> QED  BY <2>1, <2>2, <3>2 DEF A!AddPassword
  <2>5. CASE ~(cwd[k] = RootFS /\ Matches(Format(n, Hash[p]), n, Hash[p]))
    <3>1. \A m \in Names, q \in Passwords :
            ~(cwd[k] = RootFS /\ Matches(Format(n, Hash[p]), m, Hash[q]))
      BY <2>5, FormatMatches
    <3>2. accepted' = accepted
      BY <2>3, <3>1 DEF accepted
    <3> QED  BY <2>1, <2>2, <3>2 DEF A!vars
  <2> QED  BY <2>4, <2>5
<1> QED  BY <1>0, <1>1

LEMMA RemoveLoses ==
  ASSUME TypeOK, NEW k \in Kernels, NEW d \in Dirs, currentUsername[k] # NoName,
         Remove(k, d)
  PROVE  A!LoseAll(k) \/ UNCHANGED A!vars
<1>0. RootFS \in Dirs /\ UNCHANGED <<pc, currentUsername>>
  BY DirsAssumption DEF Remove
<1>1. CASE d = RootFS
  <2>1. ~exists'[RootFS]
    BY <1>0, <1>1 DEF Remove, TypeOK
  <2>2. accepted' = {} /\ settled' = FALSE
    BY <2>1 DEF accepted, settled, Authenticate
  <2> QED  BY <1>0, <2>2 DEF A!LoseAll
<1>2. CASE d # RootFS
  <2>1. exists'[RootFS] = exists[RootFS] /\ passwd'[RootFS] = passwd[RootFS]
    BY <1>0, <1>2 DEF Remove, TypeOK
  <2>2. accepted' = accepted
    BY <2>1 DEF accepted, Authenticate
  <2>3. settled' = settled
    BY <1>0, <2>1 DEF settled
  <2> QED  BY <1>0, <2>2, <2>3 DEF A!vars
<1> QED  BY <1>1, <1>2

LEMMA ImplementationStep ==
  TypeOK /\ UserInv /\ [Next]_vars => [A!Next]_(A!vars)
<1> SUFFICES ASSUME TypeOK, UserInv, [Next]_vars
             PROVE  A!Next \/ UNCHANGED A!vars
  OBVIOUS
<1>1. CASE UNCHANGED vars
  BY <1>1, Invisible DEF vars, fileVars
<1>2. ASSUME NEW k \in Kernels, Step(k) PROVE A!Next \/ UNCHANGED A!vars
  <2>0. pc \in [Kernels -> KernelPC]
        /\ currentUsername \in [Kernels -> Names \cup {NoName}]
    BY DEF TypeOK
  <2>1. CASE Initialize(k)
    <3>1. \/ exists[RootFS] /\ pc' = [pc EXCEPT ![k] = "username"]
          \/ ~settled /\ ~settled'
      BY <2>1 DEF Initialize, Goto, settled, fileVars
    <3>2. pc[k] = "initialize" /\ UNCHANGED <<exists, passwd, currentUsername>>
      BY <2>1 DEF Initialize, fileVars
    <3> QED  BY <2>0, <3>1, <3>2, Invisible
  <2>2. CASE CreateOpen(k) \/ CreateWrite(k)
    <3>1. pc[k] \in {"create", "newpassword"} /\ UNCHANGED currentUsername
      BY <2>2 DEF CreateOpen, CreateWrite
    <3>2. A!SetUp
      BY <3>1, CreationSetsUp
    <3> QED  BY <3>2 DEF A!Next
  <2>3. CASE Boot(k) \/ LoginUsername(k) \/ Chdir(k)
    <3>1. UNCHANGED <<exists, passwd, currentUsername>>
      BY <2>3 DEF Boot, LoginUsername, Chdir, fileVars
    <3>2. \A j \in Kernels : pc'[j] \in {"create", "newpassword"}
                              <=> pc[j] \in {"create", "newpassword"}
      BY <2>0, <2>3 DEF Boot, LoginUsername, Chdir, Goto
    <3> QED  BY <3>1, <3>2, Invisible
  <2>4. CASE LoginPassword(k)
    <3>1. PICK n \in Names, p \in Passwords :
            \/ Authenticate(RootFS, n, p) /\ LoginSucceeds(k, n)
            \/ LoginFails(k)
      BY <2>4 DEF LoginPassword
    <3>2. /\ pc[k] = "password" /\ UNCHANGED <<exists, passwd>>
          /\ currentUsername[k] = NoName
      BY <2>4 DEF LoginPassword, UserInv, fileVars
    <3>3. \A j \in Kernels : pc'[j] \in {"create", "newpassword"}
                              <=> pc[j] \in {"create", "newpassword"}
      BY <2>0, <3>1, <3>2 DEF LoginSucceeds, LoginFails, Ends, Goto
    <3>4. CASE LoginFails(k)
      <4>1. UNCHANGED currentUsername
        BY <2>0, <3>2, <3>4 DEF LoginFails, Ends
      <4> QED  BY <3>2, <3>3, <4>1, Invisible
    <3>5. CASE Authenticate(RootFS, n, p) /\ LoginSucceeds(k, n)
      <4>1. <<n, p>> \in accepted
        BY <3>5 DEF accepted
      <4>2. accepted' = accepted /\ settled' = settled
        BY <3>2, <3>3 DEF accepted, settled, Authenticate
      <4>3. A!LogIn(k, n, p)
        BY <3>2, <3>5, <4>1, <4>2 DEF A!LogIn, LoginSucceeds
      <4> QED  BY <4>3 DEF A!Next
    <3> QED  BY <3>1, <3>4, <3>5
  <2>5. ASSUME NEW n \in Names, NEW p \in Passwords, SetPassword(k, n, p) \/ Edit(k, n, p)
        PROVE  A!Next \/ UNCHANGED A!vars
    <3>1. currentUsername[k] # NoName /\ Appends(k, Format(n, Hash[p]))
      BY <2>5 DEF SetPassword, Edit, UserInv
    <3> QED  BY <3>1, AppendsAdds DEF A!Next
  <2>7. ASSUME NEW d \in Dirs, Remove(k, d) PROVE A!Next \/ UNCHANGED A!vars
    <3>1. currentUsername[k] # NoName
      BY <2>7 DEF Remove, UserInv
    <3> QED  BY <2>7, <3>1, RemoveLoses DEF A!Next
  <2>6. CASE Exit(k) \/ Interrupt(k)
    <3>1. UNCHANGED <<exists, passwd>> /\ Ends(k)
      BY <2>6 DEF Exit, Interrupt, fileVars
    <3>2. CASE pc[k] \in {"create", "newpassword"}
      <4>1. UNCHANGED currentUsername
        BY <2>0, <3>1, <3>2 DEF Ends, UserInv
      <4>2. A!SetUp
        BY <3>2, <4>1, CreationSetsUp
      <4> QED  BY <4>2 DEF A!Next
    <3>3. CASE pc[k] \notin {"create", "newpassword"}
      <4>1. \A j \in Kernels : pc'[j] \in {"create", "newpassword"}
                                <=> pc[j] \in {"create", "newpassword"}
        BY <2>0, <3>1, <3>3 DEF Ends, Goto
      <4>2. accepted' = accepted /\ settled' = settled
        BY <3>1, <4>1 DEF accepted, settled, Authenticate
      <4>3. A!LogOut(k)
        BY <3>1, <4>2 DEF Ends, A!LogOut
      <4> QED  BY <4>3 DEF A!Next
    <3> QED  BY <3>2, <3>3
  <2> QED  BY <1>2, <2>1, <2>2, <2>3, <2>4, <2>5, <2>6, <2>7 DEF Step
<1> QED  BY <1>1, <1>2 DEF Next

\* The user manager implements the accounts: a login needs an accepted pair, and
\* from the end of the first boot on only a user who is logged in adds one or
\* removes them all, through races of booting kernels, interruptions, and passwd,
\* editor and rm in any directory (userman.cpp 42-139, lsh.cpp 128-140, 210-291).
THEOREM Implementation == Spec => ImplementsAccounts
<1>1. Init => A!Init
  <2> SUFFICES ASSUME Init PROVE A!Init
    OBVIOUS
  <2>1. accepted = {}
    BY DirsAssumption DEF Init, accepted, Authenticate
  <2>2. settled = FALSE
    BY DirsAssumption DEF Init, settled
  <2> QED  BY <2>1, <2>2 DEF Init, A!Init
<1>2. Init => UserInv
  BY DEF Init, UserInv
<1>3. Spec => [](TypeOK /\ UserInv)
  BY <1>2, UserStep, TypeCorrect, PTL DEF Spec
<1> QED  BY <1>1, <1>3, ImplementationStep, PTL DEF Spec, A!Spec, ImplementsAccounts

=============================================================================
