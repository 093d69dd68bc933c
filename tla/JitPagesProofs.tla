--------------------------- MODULE JitPagesProofs ---------------------------
(***************************************************************************)
(* Proofs about JitPages, for any number of threads and pages, any page    *)
(* size and any sizes of programs, whichever calls of libc fail.           *)
(***************************************************************************)
EXTENDS JitPages, TLAPS

(* Zenon first: in large contexts it is much the faster of the two.        *)
USE ZenonT(5), SMTT(60)

-----------------------------------------------------------------------------
(* Arithmetic of pages.                                                    *)

Aligned(n) == \E k \in Nat : n = k * page_size

LEMMA MultiplesOrdered ==
  ASSUME NEW a \in Int, NEW b \in Int
  PROVE  (a * page_size < b * page_size) <=> a < b
  <1>1. ASSUME a < b PROVE a * page_size < b * page_size
    <2>1. b * page_size = a * page_size + (b - a) * page_size
      BY PagesAssumption
    <2>2. (b - a) * page_size > 0
      BY <1>1, PagesAssumption
    <2> QED
      BY <2>1, <2>2, PagesAssumption
  <1>2. ASSUME ~(a < b) PROVE ~(a * page_size < b * page_size)
    <2>1. a * page_size = b * page_size + (a - b) * page_size
      BY PagesAssumption
    <2>2. (a - b) * page_size >= 0
      BY <1>2, PagesAssumption
    <2> QED
      BY <2>1, <2>2, PagesAssumption
  <1> QED
    BY <1>1, <1>2

(* The page of a cell.                                                     *)
LEMMA PageOfCell ==
  ASSUME NEW c \in Nat
  PROVE  /\ c \div page_size \in Nat
         /\ (c \div page_size) * page_size <= c
         /\ c < (c \div page_size + 1) * page_size
  BY PagesAssumption

(* A run of whole pages.                                                   *)
LEMMA WholePages ==
  ASSUME NEW i \in Nat, NEW k \in Nat
  PROVE  PagesOf(i * page_size, k * page_size) = i..i + k - 1
  <1>1. i * page_size \in Nat /\ k * page_size \in Nat /\ page_size \in Nat \ {0}
    BY PagesAssumption
  <1>2. i * page_size + k * page_size = (i + k) * page_size
    BY PagesAssumption
  <1>3. ASSUME NEW c \in Span(i * page_size, k * page_size)
        PROVE  c \div page_size \in i..i + k - 1
    <2> DEFINE g == c \div page_size
    <2>1. c \in Nat /\ i * page_size <= c /\ c < (i + k) * page_size
      BY <1>1, <1>2 DEF Span
    <2>2. g \in Nat /\ g * page_size <= c /\ c < (g + 1) * page_size
      BY <2>1, PageOfCell
    <2> HIDE DEF g
    <2>3. i * page_size < (g + 1) * page_size /\ g * page_size < (i + k) * page_size
      BY <1>1, <2>1, <2>2
    <2>4. i < g + 1 /\ g < i + k
      BY <2>2, <2>3, MultiplesOrdered
    <2> QED
      BY <2>2, <2>4 DEF g
  <1>4. ASSUME NEW g \in i..i + k - 1
        PROVE  \E c \in Span(i * page_size, k * page_size) : g = c \div page_size
    <2>1. g \in Nat /\ i < g + 1 /\ g < i + k
      OBVIOUS
    <2>2. ~(g * page_size < i * page_size) /\ g * page_size < (i + k) * page_size
      BY <2>1, MultiplesOrdered
    <2>3. g * page_size \in Span(i * page_size, k * page_size)
      BY <1>1, <1>2, <2>1, <2>2 DEF Span
    <2>4. g = (g * page_size) \div page_size
      BY <2>1, PagesAssumption
    <2> QED
      BY <2>3, <2>4
  <1> QED
    BY <1>3, <1>4 DEF PagesOf

(* RoundToPageSize finds the next multiple.                                *)
LEMMA RoundingUp ==
  ASSUME NEW n \in Nat
  PROVE  /\ Aligned(RoundToPageSize(n)) /\ RoundToPageSize(n) \in Nat
         /\ n <= RoundToPageSize(n) /\ RoundToPageSize(n) < n + page_size
  <1> DEFINE k == (n + page_size - 1) \div page_size
  <1>1. n + page_size - 1 \in Nat
    BY PagesAssumption
  <1>2. k \in Nat /\ k * page_size <= n + page_size - 1 /\ n + page_size - 1 < (k + 1) * page_size
    BY <1>1, PageOfCell
  <1>3. RoundToPageSize(n) = k * page_size
    BY DEF RoundToPageSize
  <1> HIDE DEF k
  <1>4. k * page_size \in Nat /\ (k + 1) * page_size = k * page_size + page_size
    BY <1>2, PagesAssumption
  <1> QED
    BY <1>2, <1>3, <1>4, PagesAssumption DEF Aligned

(* What is aligned stays, and nothing below it is rounded beyond it.       *)
LEMMA RoundingBelow ==
  ASSUME NEW n \in Nat, NEW m \in Nat, Aligned(m), n <= m
  PROVE  RoundToPageSize(n) <= m /\ RoundToPageSize(m) = m
  <1>1. PICK k \in Nat : m = k * page_size
    BY DEF Aligned
  <1>2. ASSUME NEW x \in Nat, x <= m
        PROVE  RoundToPageSize(x) <= m
    <2>1. PICK j \in Nat : RoundToPageSize(x) = j * page_size
      BY RoundingUp DEF Aligned
    <2>2. j * page_size < m + page_size
      BY <1>2, <2>1, RoundingUp, PagesAssumption
    <2>3. m + page_size = (k + 1) * page_size
      BY <1>1, PagesAssumption
    <2>4. j < k + 1
      BY <2>2, <2>3, MultiplesOrdered
    <2>5. ~(k * page_size < j * page_size)
      BY <2>4, MultiplesOrdered
    <2> QED
      BY <1>1, <2>1, <2>5, PagesAssumption
  <1>3. m <= RoundToPageSize(m) /\ RoundToPageSize(m) \in Nat
    BY RoundingUp
  <1> QED
    BY <1>2, <1>3

-----------------------------------------------------------------------------
(* What a program holds.                                                   *)

Program == [raw : Nat, pc : Nat, text : Nat]

(* The sections of a program are runs of pages, one behind the other.      *)
LEMMA SectionPages ==
  ASSUME NEW p \in Program, Aligned(p.raw)
  PROVE  \E i, j, k \in Nat :
            /\ p.raw = i * page_size /\ PcSize(p) = j * page_size
            /\ RoundToPageSize(p.text) = k * page_size
            /\ PcPages(p) = i..i + j - 1
            /\ TextPages(p) = i + j..i + j + k - 1
            /\ Held(p) = i..i + j + k - 1
  <1>1. p.raw \in Nat /\ p.pc \in Nat /\ p.text \in Nat
    BY DEF Program
  <1>2. PICK i \in Nat : p.raw = i * page_size
    BY DEF Aligned
  <1>3. PICK j \in Nat : PcSize(p) = j * page_size
    BY <1>1, RoundingUp DEF PcSize, Aligned
  <1>4. PICK k \in Nat : RoundToPageSize(p.text) = k * page_size
    BY <1>1, RoundingUp DEF Aligned
  <1>5. /\ i * page_size + j * page_size = (i + j) * page_size
        /\ j * page_size + k * page_size = (j + k) * page_size
    BY PagesAssumption
  <1>6. PcPages(p) = i..i + j - 1
    BY <1>2, <1>3, WholePages DEF PcPages
  <1>7. TextPages(p) = i + j..(i + j) + k - 1
    BY <1>2, <1>3, <1>4, <1>5, WholePages DEF TextPages
  <1>8. Held(p) = i..i + (j + k) - 1
    BY <1>2, <1>3, <1>4, <1>5, WholePages DEF Held, MemSize
  <1>9. i + (j + k) - 1 = i + j + k - 1
    OBVIOUS
  <1> QED
    BY <1>2, <1>3, <1>4, <1>6, <1>7, <1>8, <1>9

LEMMA SectionsInside ==
  ASSUME NEW p \in Program, Aligned(p.raw)
  PROVE  /\ PcPages(p) \subseteq Held(p) /\ TextPages(p) \subseteq Held(p)
         /\ PcPages(p) \cap TextPages(p) = {}
  <1>1. PICK i, j, k \in Nat :
            /\ p.raw = i * page_size /\ PcSize(p) = j * page_size
            /\ RoundToPageSize(p.text) = k * page_size
            /\ PcPages(p) = i..i + j - 1
            /\ TextPages(p) = i + j..i + j + k - 1
            /\ Held(p) = i..i + j + k - 1
    BY SectionPages
  <1> QED
    BY <1>1

LEMMA NothingHeld == NoProgram \in Program /\ Aligned(NoProgram.raw) /\ Held(NoProgram) = {}
  <1>1. 0 = 0 * page_size
    BY PagesAssumption
  <1>2. RoundToPageSize(0) = 0
    BY <1>1, RoundingBelow DEF Aligned
  <1>3. PagesOf(0, 0) = {}
    BY DEF PagesOf, Span
  <1> QED
    BY <1>1, <1>2, <1>3 DEF NoProgram, Program, Aligned, Held, MemSize, PcSize

(* seal splits what the program holds: what stays and what it gives back.  *)
LEMMA TailSplits ==
  ASSUME NEW p \in Program, Aligned(p.raw), Aligned(p.text),
         NEW u \in Nat, RoundToPageSize(u) < p.text
  PROVE  LET tail == PagesOf(p.raw + PcSize(p) + RoundToPageSize(u), p.text - RoundToPageSize(u))
             rest == Held([p EXCEPT !.text = u])
         IN  /\ Held(p) = rest \cup tail /\ rest \cap tail = {}
  <1> DEFINE q == [p EXCEPT !.text = u]
             tail == PagesOf(p.raw + PcSize(p) + RoundToPageSize(u), p.text - RoundToPageSize(u))
  <1>1. q \in Program /\ q.raw = p.raw /\ q.pc = p.pc /\ q.text = u
    BY DEF Program
  <1> HIDE DEF q, tail
  <1>2. PICK i, j, k \in Nat :
            /\ p.raw = i * page_size /\ PcSize(p) = j * page_size
            /\ RoundToPageSize(p.text) = k * page_size
            /\ Held(p) = i..i + j + k - 1
    BY SectionPages
  <1>3. p.text \in Nat /\ p.text = k * page_size
    BY <1>2, RoundingBelow DEF Program
  <1>4. PICK m \in Nat : RoundToPageSize(u) = m * page_size
    BY RoundingUp DEF Aligned
  <1>5. m < k
    BY <1>3, <1>4, MultiplesOrdered
  <1>6. Held(q) = i..i + (j + m) - 1
    <2>1. PcSize(q) + RoundToPageSize(q.text) = (j + m) * page_size
      BY <1>1, <1>2, <1>4, PagesAssumption DEF PcSize
    <2>2. Held(q) = PagesOf(i * page_size, (j + m) * page_size)
      BY <1>1, <1>2, <2>1 DEF Held, MemSize
    <2> QED
      BY <2>2, WholePages
  <1>7. tail = i + j + m..(i + j + m) + (k - m) - 1
    <2>1. /\ p.raw + PcSize(p) + RoundToPageSize(u) = (i + j + m) * page_size
          /\ p.text - RoundToPageSize(u) = (k - m) * page_size
      BY <1>2, <1>3, <1>4, PagesAssumption
    <2>2. i + j + m \in Nat /\ k - m \in Nat
      BY <1>5
    <2> QED
      BY <2>1, <2>2, WholePages DEF tail
  <1>8. Held(p) = Held(q) \cup tail /\ Held(q) \cap tail = {}
    BY <1>2, <1>5, <1>6, <1>7
  <1> QED
    BY <1>8 DEF q, tail

-----------------------------------------------------------------------------
(* The accounts.  A step of a thread changes what that thread holds; the   *)
(* pages it takes were free, and what it gives up is unmapped or leaked.   *)

Mapped == {g \in Pages : prot[g] # "none"}
Accounted == PagesAccounted /\ \A s \in Slots : leaked \cap HeldIn(s) = {}

Compiled(e) == <<e, "compiled">>
Work(e) == <<e, "work">>
Untouched(e) ==
    \A f \in Executables \ {e} :
        /\ compiled'[f] = compiled[f] /\ work'[f] = work[f]
        /\ usage'[f] = usage[f] /\ call'[f] = call[f]

LEMMA Accounting ==
  ASSUME Accounted, NEW e \in Executables, Untouched(e), leaked \subseteq leaked',
         HeldIn(Compiled(e))' \cap HeldIn(Work(e))' = {},
         (leaked' \ leaked) \cap (HeldIn(Compiled(e))' \cup HeldIn(Work(e))') = {},
         LET old == HeldIn(Compiled(e)) \cup HeldIn(Work(e))
             new == HeldIn(Compiled(e))' \cup HeldIn(Work(e))' \cup (leaked' \ leaked)
         IN  (new \ old) \cap Mapped = {} /\ Mapped' = (Mapped \ old) \cup new
  PROVE  Accounted'
  <1> DEFINE own == {Compiled(e), Work(e)}
  <1>1. own \subseteq Slots /\ \A s \in Slots : s \in own \/ s[1] # e
    BY DEF Slots, Compiled, Work
  <1>2. \A s \in Slots \ own : HeldIn(s)' = HeldIn(s)
    <2> SUFFICES ASSUME NEW s \in Slots \ own
                 PROVE  HeldIn(s)' = HeldIn(s)
      OBVIOUS
    <2>1. s[1] \in Executables \ {e}
      BY <1>1 DEF Slots
    <2> QED
      BY <2>1 DEF Untouched, HeldIn
  <1>3. /\ Mapped = leaked \cup UNION {HeldIn(s) : s \in Slots}
        /\ \A s, t \in Slots : s # t => HeldIn(s) \cap HeldIn(t) = {}
        /\ \A s \in Slots : leaked \cap HeldIn(s) = {}
    BY DEF Accounted, PagesAccounted, Mapped
  <1> DEFINE old == HeldIn(Compiled(e)) \cup HeldIn(Work(e))
             new == HeldIn(Compiled(e))' \cup HeldIn(Work(e))' \cup (leaked' \ leaked)
             others == UNION {HeldIn(s) : s \in Slots \ own}
  <1>4. Mapped = leaked \cup old \cup others
    BY <1>1, <1>3, ZenonT(60)
  <1>5. others \cap old = {} /\ leaked \cap old = {} /\ leaked \cap others = {}
    BY <1>1, <1>3
  <1>6. new \cap others = {} /\ new \cap leaked = {}
    BY <1>4, <1>5
  <1>7. Mapped' = leaked \cup others \cup new
    BY <1>4, <1>5
  <1>8. UNION {HeldIn(s)' : s \in Slots} = others \cup HeldIn(Compiled(e))' \cup HeldIn(Work(e))'
    BY <1>1, <1>2
  <1>9. Mapped' = leaked' \cup UNION {HeldIn(s)' : s \in Slots}
    BY <1>7, <1>8
  <1>10. \A s \in Slots : leaked' \cap HeldIn(s)' = {}
    BY <1>1, <1>2, <1>3, <1>5, <1>6
  <1>11. \A s, t \in Slots : s # t => HeldIn(s)' \cap HeldIn(t)' = {}
    BY <1>1, <1>2, <1>3, <1>6
  <1> QED
    BY <1>9, <1>10, <1>11 DEF Accounted, PagesAccounted, Mapped, Slots

LEMMA Holdings ==
  ASSUME NEW e \in Executables
  PROVE  /\ HeldIn(Compiled(e)) = Held(compiled[e])
         /\ HeldIn(Work(e)) = IF call[e] = "mmap" THEN {} ELSE Held(work[e])
         /\ HeldIn(Compiled(e))' = Held(compiled'[e])
         /\ HeldIn(Work(e))' = IF call'[e] = "mmap" THEN {} ELSE Held(work'[e])
  BY DEF HeldIn, Compiled, Work

-----------------------------------------------------------------------------
(* The invariant: besides the accounts, what every phase of a thread knows *)
(* about the program it works on.                                          *)

Phases == {"none", "compile"} \cup Calls

TypeInv ==
    /\ prot \in [Pages -> {"none", "rw", "r", "rx"}]
    /\ DOMAIN memory = Span(0, PageCount * page_size)
    /\ compiled \in [Executables -> Program] /\ work \in [Executables -> Program]
    /\ usage \in [Executables -> Nat]
    /\ call \in [Executables -> Phases]

(* Sections start at page boundaries; until seal has cut it, the           *)
(* text_section ends at one too, and what munmap is asked for is not       *)
(* empty.                                                                  *)
Cut ==
    \A e \in Executables :
        /\ Aligned(compiled[e].raw) /\ Aligned(work[e].raw)
        /\ call[e] = "none" => work[e] = NoProgram
        /\ call[e] \in {"mmap", "compile", "munmap_tail"} => Aligned(work[e].text)
        /\ call[e] = "munmap_tail" => RoundToPageSize(usage[e]) < work[e].text

PageInv == TypeInv /\ Cut /\ Accounted

(* A step of e that keeps to the cuts of e keeps to all.                   *)
LEMMA CutKept ==
  ASSUME Cut, NEW e \in Executables, Untouched(e),
         Aligned(compiled'[e].raw), Aligned(work'[e].raw),
         call'[e] = "none" => work'[e] = NoProgram,
         call'[e] \in {"mmap", "compile", "munmap_tail"} => Aligned(work'[e].text),
         call'[e] = "munmap_tail" => RoundToPageSize(usage'[e]) < work'[e].text
  PROVE  Cut'
  <1> SUFFICES ASSUME NEW f \in Executables
               PROVE  /\ Aligned(compiled'[f].raw) /\ Aligned(work'[f].raw)
                      /\ call'[f] = "none" => work'[f] = NoProgram
                      /\ call'[f] \in {"mmap", "compile", "munmap_tail"} => Aligned(work'[f].text)
                      /\ call'[f] = "munmap_tail" => RoundToPageSize(usage'[f]) < work'[f].text
    BY DEF Cut, Aligned, RoundToPageSize
  <1>1. CASE f = e
    BY <1>1
  <1>2. CASE f # e
    BY <1>2 DEF Cut, Untouched
  <1> QED
    BY <1>1, <1>2

(* A step that changes neither protections nor leaks, and only renames     *)
(* what e holds.                                                           *)
LEMMA SameAccounts ==
  ASSUME Accounted, NEW e \in Executables, Untouched(e), Mapped' = Mapped, leaked' = leaked,
         \/ /\ HeldIn(Compiled(e))' = HeldIn(Compiled(e))
            /\ HeldIn(Work(e))' = HeldIn(Work(e))
         \/ /\ HeldIn(Compiled(e))' = HeldIn(Work(e))
            /\ HeldIn(Work(e))' = HeldIn(Compiled(e))
  PROVE  Accounted'
  <1>1. Compiled(e) \in Slots /\ Work(e) \in Slots /\ Compiled(e) # Work(e)
    BY DEF Slots, Compiled, Work
  <1>2. /\ HeldIn(Compiled(e)) \cap HeldIn(Work(e)) = {}
        /\ HeldIn(Compiled(e)) \cup HeldIn(Work(e)) \subseteq Mapped
    BY <1>1 DEF Accounted, PagesAccounted, Mapped
  <1>3. HeldIn(Compiled(e))' \cap HeldIn(Work(e))' = {}
    BY <1>2
  <1>4. (leaked' \ leaked) = {}
    OBVIOUS
  <1>5. HeldIn(Compiled(e))' \cup HeldIn(Work(e))' = HeldIn(Compiled(e)) \cup HeldIn(Work(e))
    OBVIOUS
  <1> QED
    BY <1>2, <1>3, <1>4, <1>5, Accounting

LEMMA TypesOf ==
  ASSUME PageInv, NEW e \in Executables
  PROVE  /\ compiled[e] \in Program /\ work[e] \in Program /\ usage[e] \in Nat
         /\ Aligned(compiled[e].raw) /\ Aligned(work[e].raw)
  BY DEF PageInv, TypeInv, Cut

-----------------------------------------------------------------------------
(* One lemma per action.                                                   *)

LEMMA JitCompileKeeps ==
  ASSUME PageInv, NEW e \in Executables, NEW pc \in PcCounts, NEW code_size \in CodeSizes,
         JitCompile(e, pc, code_size)
  PROVE  PageInv'
  <1> DEFINE w == [raw |-> 0, pc |-> pc, text |-> RoundToPageSize(code_size)]
  <1>1. w \in Program /\ Aligned(w.raw) /\ Aligned(w.text)
    BY RoundingUp, NothingHeld, PagesAssumption DEF Program, NoProgram
  <1>2. /\ call[e] = "none" /\ work' = [work EXCEPT ![e] = w]
        /\ call' = [call EXCEPT ![e] = "mmap"]
        /\ UNCHANGED <<prot, memory, compiled, usage, leaked>>
    BY DEF JitCompile, Enter, pages
  <1> HIDE DEF w
  <1>3. /\ TypeInv' /\ Untouched(e)
        /\ compiled'[e] = compiled[e] /\ work'[e] = w /\ call'[e] = "mmap"
    BY <1>1, <1>2 DEF PageInv, TypeInv, Untouched, Phases, Calls
  <1>4. work[e] = NoProgram
    BY <1>2 DEF PageInv, Cut
  <1>5. Accounted'
    BY <1>2, <1>3, <1>4, NothingHeld, Holdings, SameAccounts DEF PageInv, Mapped
  <1>6. Cut'
    BY <1>1, <1>3, TypesOf, CutKept DEF PageInv
  <1> QED
    BY <1>3, <1>5, <1>6 DEF PageInv

(* What Protect and Remap do to the pages that are mapped.                 *)
LEMMA Protected ==
  ASSUME TypeInv, NEW set, NEW flags \in {"none", "rw", "r", "rx"}, Protect(set, flags)
  PROVE  /\ prot' \in [Pages -> {"none", "rw", "r", "rx"}]
         /\ \A g \in Pages : prot'[g] = IF g \in set THEN flags ELSE prot[g]
         /\ flags = "none" => Mapped' = Mapped \ set
         /\ flags # "none" => Mapped' = Mapped \cup (set \cap Pages)
  <1>1. /\ prot' \in [Pages -> {"none", "rw", "r", "rx"}]
        /\ \A g \in Pages : prot'[g] = IF g \in set THEN flags ELSE prot[g]
    BY DEF TypeInv, Protect
  <1> QED
    BY <1>1 DEF Mapped, Pages

LEMMA AllocatePagesKeeps ==
  ASSUME PageInv, NEW e \in Executables, AllocatePages(e)
  PROVE  PageInv'
  <1>1. PICK first \in Pages :
           LET p == [work[e] EXCEPT !.raw = first * page_size]
           IN  /\ Held(p) \subseteq {g \in Pages : prot[g] = "none"}
               /\ work' = [work EXCEPT ![e] = p]
               /\ Remap(Held(p), "rw")
    BY DEF AllocatePages
  <1> DEFINE p == [work[e] EXCEPT !.raw = first * page_size]
  <1>2. work[e] \in Program /\ first \in Nat /\ first * page_size \in Nat
    BY TypesOf, PagesAssumption DEF Pages
  <1>3. p \in Program /\ p.raw = first * page_size /\ p.text = work[e].text
    BY <1>2 DEF Program
  <1>4. Aligned(p.raw)
    BY <1>2, <1>3 DEF Aligned
  <1>5. /\ Held(p) \subseteq {g \in Pages : prot[g] = "none"}
        /\ work' = [work EXCEPT ![e] = p] /\ Remap(Held(p), "rw")
    BY <1>1
  <1> HIDE DEF p
  <1>6. /\ call[e] = "mmap" /\ call' = [call EXCEPT ![e] = "compile"]
        /\ UNCHANGED <<compiled, usage, leaked>>
    BY DEF AllocatePages, Enter
  <1>7. Aligned(p.text)
    BY <1>3, <1>6 DEF PageInv, Cut
  <1>8. /\ prot' \in [Pages -> {"none", "rw", "r", "rx"}] /\ DOMAIN memory' = DOMAIN memory
        /\ Mapped' = Mapped \cup Held(p) /\ Mapped \cap Held(p) = {}
    BY <1>5, Protected, ZenonT(60) DEF PageInv, Remap, Mapped
  <1>9. /\ TypeInv' /\ Untouched(e)
        /\ compiled'[e] = compiled[e] /\ work'[e] = p /\ call'[e] = "compile"
    BY <1>3, <1>5, <1>6, <1>8 DEF PageInv, TypeInv, Untouched, Phases
  <1>10. Accounted'
    <2>1. /\ HeldIn(Compiled(e))' = HeldIn(Compiled(e)) /\ HeldIn(Work(e)) = {}
          /\ HeldIn(Work(e))' = Held(p)
      BY <1>6, <1>9, Holdings
    <2>2. HeldIn(Compiled(e)) \subseteq Mapped
      BY DEF PageInv, Accounted, PagesAccounted, Mapped, Slots, Compiled
    <2> QED
      BY <1>6, <1>8, <1>9, <2>1, <2>2, Accounting, ZenonT(60) DEF PageInv
  <1>11. Cut'
    BY <1>4, <1>7, <1>9, TypesOf, CutKept DEF PageInv
  <1> QED
    BY <1>9, <1>10, <1>11 DEF PageInv

LEMMA ExhaustedKeeps ==
  ASSUME PageInv, NEW e \in Executables, ExhaustedTextSegment(e)
  PROVE  PageInv'
  <1>1. /\ call[e] = "compile" /\ call' = [call EXCEPT ![e] = "drop"]
        /\ UNCHANGED <<prot, memory, compiled, work, usage, leaked>>
    BY DEF ExhaustedTextSegment, Enter, pages
  <1>2. /\ TypeInv' /\ Untouched(e)
        /\ compiled'[e] = compiled[e] /\ work'[e] = work[e] /\ call'[e] = "drop"
    BY <1>1 DEF PageInv, TypeInv, Untouched, Phases, Calls
  <1>3. Accounted'
    BY <1>1, <1>2, Holdings, SameAccounts DEF PageInv, Mapped
  <1>4. Cut'
    BY <1>2, TypesOf, CutKept DEF PageInv
  <1> QED
    BY <1>2, <1>3, <1>4 DEF PageInv

(* Code that needs all pages of the text_section ends in the last one, so  *)
(* the shorter slice holds the same pages.                                 *)
LEMMA EmitKeeps ==
  ASSUME PageInv, NEW e \in Executables, NEW n \in 1..work[e].text, Emit(e, n)
  PROVE  PageInv'
  <1> DEFINE p == work[e]
             q == [p EXCEPT !.text = n]
  <1>1. /\ call[e] = "compile" /\ n \in Nat /\ n <= p.text
        /\ UNCHANGED <<prot, compiled, leaked>> /\ DOMAIN memory' = DOMAIN memory
    BY TypesOf DEF Emit, Program
  <1>2. p \in Program /\ Aligned(p.raw) /\ Aligned(p.text) /\ p.text \in Nat
    BY <1>1, TypesOf DEF PageInv, Cut, Program
  <1>3. CASE p.text > RoundToPageSize(n)
    <2>1. /\ call' = [call EXCEPT ![e] = "munmap_tail"] /\ usage' = [usage EXCEPT ![e] = n]
          /\ UNCHANGED work
      BY <1>3 DEF Emit, Enter
    <2>2. /\ TypeInv' /\ Untouched(e) /\ compiled'[e] = compiled[e] /\ work'[e] = work[e]
          /\ call'[e] = "munmap_tail" /\ usage'[e] = n
      BY <1>1, <2>1 DEF PageInv, TypeInv, Untouched, Phases, Calls
    <2>3. Accounted'
      BY <1>1, <2>2, Holdings, SameAccounts DEF PageInv, Mapped
    <2>4. RoundToPageSize(usage'[e]) < work'[e].text
      BY <1>1, <1>2, <1>3, <2>2, RoundingUp
    <2>5. Cut'
      BY <1>2, <2>2, <2>4, TypesOf, CutKept DEF PageInv
    <2> QED
      BY <2>2, <2>3, <2>5 DEF PageInv
  <1>4. CASE ~(p.text > RoundToPageSize(n))
    <2>1. /\ call' = [call EXCEPT ![e] = "protect_pc"] /\ UNCHANGED usage
          /\ work' = [work EXCEPT ![e] = q]
      BY <1>4 DEF Emit, Enter
    <2>2. q \in Program /\ q.raw = p.raw /\ q.pc = p.pc /\ q.text = n
      BY <1>1, <1>2 DEF Program
    <2>3. RoundToPageSize(n) = p.text /\ RoundToPageSize(p.text) = p.text
      BY <1>1, <1>2, <1>4, RoundingBelow, RoundingUp
    <2>4. Held(q) = Held(p)
      BY <2>2, <2>3 DEF Held, MemSize, PcSize
    <2> HIDE DEF p, q
    <2>5. /\ TypeInv' /\ Untouched(e) /\ compiled'[e] = compiled[e] /\ work'[e] = q
          /\ call'[e] = "protect_pc"
      BY <1>1, <2>1, <2>2 DEF PageInv, TypeInv, Untouched, Phases, Calls
    <2>6. Accounted'
      BY <1>1, <2>4, <2>5, Holdings, SameAccounts DEF PageInv, Mapped, p
    <2>7. Cut'
      BY <1>2, <2>2, <2>5, TypesOf, CutKept DEF PageInv
    <2> QED
      BY <2>5, <2>6, <2>7 DEF PageInv
  <1> QED
    BY <1>3, <1>4

LEMMA FreeTailKeeps ==
  ASSUME PageInv, NEW e \in Executables, FreeTail(e)
  PROVE  PageInv'
  <1> DEFINE p == work[e]
             u == usage[e]
             q == [p EXCEPT !.text = u]
             freed == PagesOf(p.raw + PcSize(p) + RoundToPageSize(u), p.text - RoundToPageSize(u))
  <1>1. /\ call[e] = "munmap_tail" /\ Remap(freed, "none")
        /\ work' = [work EXCEPT ![e] = q] /\ usage' = [usage EXCEPT ![e] = 0]
        /\ call' = [call EXCEPT ![e] = "protect_pc"] /\ UNCHANGED <<compiled, leaked>>
    BY DEF FreeTail, Enter
  <1>2. /\ p \in Program /\ u \in Nat /\ Aligned(p.raw) /\ Aligned(p.text)
        /\ RoundToPageSize(u) < p.text
    BY <1>1, TypesOf DEF PageInv, Cut
  <1>3. Held(p) = Held(q) \cup freed /\ Held(q) \cap freed = {}
    BY <1>2, TailSplits
  <1>4. q \in Program /\ q.raw = p.raw
    BY <1>2 DEF Program
  <1> HIDE DEF q, freed
  <1>5. /\ prot' \in [Pages -> {"none", "rw", "r", "rx"}] /\ DOMAIN memory' = DOMAIN memory
        /\ Mapped' = Mapped \ freed
    BY <1>1, Protected DEF PageInv, Remap
  <1>6. /\ TypeInv' /\ Untouched(e) /\ compiled'[e] = compiled[e] /\ work'[e] = q
        /\ call'[e] = "protect_pc"
    BY <1>1, <1>4, <1>5 DEF PageInv, TypeInv, Untouched, Phases, Calls
  <1>7. Accounted'
    <2>1. /\ HeldIn(Compiled(e))' = HeldIn(Compiled(e)) /\ HeldIn(Work(e)) = Held(p)
          /\ HeldIn(Work(e))' = Held(q)
      BY <1>1, <1>6, Holdings
    <2>2. /\ HeldIn(Compiled(e)) \cap HeldIn(Work(e)) = {}
          /\ HeldIn(Compiled(e)) \cup HeldIn(Work(e)) \subseteq Mapped
      BY DEF PageInv, Accounted, PagesAccounted, Mapped, Slots, Compiled, Work
    <2> DEFINE old == HeldIn(Compiled(e)) \cup HeldIn(Work(e))
               new == HeldIn(Compiled(e))' \cup HeldIn(Work(e))' \cup (leaked' \ leaked)
    <2>3. new \subseteq old /\ Mapped' = (Mapped \ old) \cup new
      BY <1>1, <1>3, <1>5, <2>1, <2>2
    <2> QED
      BY <1>1, <1>3, <1>6, <2>1, <2>2, <2>3, Accounting, ZenonT(60) DEF PageInv
  <1>8. Cut'
    BY <1>2, <1>4, <1>6, TypesOf, CutKept DEF PageInv
  <1> QED
    BY <1>6, <1>7, <1>8 DEF PageInv

(* mprotect is asked for pages that the program holds.                     *)
LEMMA SectionsHeld ==
  ASSUME PageInv, NEW e \in Executables, call[e] # "mmap"
  PROVE  /\ PcPages(work[e]) \subseteq Held(work[e]) /\ TextPages(work[e]) \subseteq Held(work[e])
         /\ PcPages(work[e]) \cap TextPages(work[e]) = {}
         /\ Held(work[e]) = HeldIn(Work(e)) /\ Held(work[e]) \subseteq Mapped
  <1>1. /\ PcPages(work[e]) \subseteq Held(work[e]) /\ TextPages(work[e]) \subseteq Held(work[e])
        /\ PcPages(work[e]) \cap TextPages(work[e]) = {}
    BY TypesOf, SectionsInside
  <1>2. Held(work[e]) = HeldIn(Work(e))
    BY Holdings
  <1>3. HeldIn(Work(e)) \subseteq Mapped
    BY DEF PageInv, Accounted, PagesAccounted, Mapped, Slots, Work
  <1> QED
    BY <1>1, <1>2, <1>3

LEMMA ProtectPcKeeps ==
  ASSUME PageInv, NEW e \in Executables, ProtectPcSection(e)
  PROVE  PageInv'
  <1>1. /\ call[e] = "protect_pc" /\ Protect(PcPages(work[e]), "r")
        /\ call' = [call EXCEPT ![e] = "protect_text"]
        /\ UNCHANGED <<memory, compiled, work, usage, leaked>>
    BY DEF ProtectPcSection, Enter
  <1>2. prot' \in [Pages -> {"none", "rw", "r", "rx"}] /\ Mapped' = Mapped
    BY <1>1, Protected, SectionsHeld DEF PageInv, Mapped
  <1>3. /\ TypeInv' /\ Untouched(e) /\ compiled'[e] = compiled[e] /\ work'[e] = work[e]
        /\ call'[e] = "protect_text"
    BY <1>1, <1>2 DEF PageInv, TypeInv, Untouched, Phases, Calls
  <1>4. Accounted'
    BY <1>1, <1>2, <1>3, Holdings, SameAccounts DEF PageInv
  <1>5. Cut'
    BY <1>3, TypesOf, CutKept DEF PageInv
  <1> QED
    BY <1>3, <1>4, <1>5 DEF PageInv

(* The new program takes the place of the old one, which is dropped.       *)
LEMMA ProtectTextKeeps ==
  ASSUME PageInv, NEW e \in Executables, ProtectTextSection(e)
  PROVE  PageInv'
  <1> DEFINE next == IF compiled[e] = NoProgram THEN "none" ELSE "drop"
  <1>1. /\ call[e] = "protect_text" /\ Protect(TextPages(work[e]), "rx")
        /\ call' = [call EXCEPT ![e] = next]
        /\ compiled' = [compiled EXCEPT ![e] = work[e]] /\ work' = [work EXCEPT ![e] = compiled[e]]
        /\ UNCHANGED <<memory, usage, leaked>>
    BY DEF ProtectTextSection, Enter
  <1>2. prot' \in [Pages -> {"none", "rw", "r", "rx"}] /\ Mapped' = Mapped
    BY <1>1, Protected, SectionsHeld DEF PageInv, Mapped
  <1>3. /\ TypeInv' /\ Untouched(e) /\ compiled'[e] = work[e] /\ work'[e] = compiled[e]
        /\ call'[e] = next
    BY <1>1, <1>2 DEF PageInv, TypeInv, Untouched, Phases, Calls
  <1>4. Accounted'
    BY <1>1, <1>2, <1>3, Holdings, SameAccounts DEF PageInv
  <1>5. Cut'
    BY <1>3, TypesOf, CutKept DEF PageInv
  <1> QED
    BY <1>3, <1>4, <1>5 DEF PageInv

LEMMA DropExecutableKeeps ==
  ASSUME PageInv, NEW e \in Executables, DropExecutable(e)
  PROVE  PageInv'
  <1>1. /\ call[e] = "none" /\ call' = [call EXCEPT ![e] = "drop"]
        /\ compiled' = [compiled EXCEPT ![e] = NoProgram]
        /\ work' = [work EXCEPT ![e] = compiled[e]]
        /\ UNCHANGED <<prot, memory, usage, leaked>>
    BY DEF DropExecutable, Enter, pages
  <1>2. work[e] = NoProgram
    BY <1>1 DEF PageInv, Cut
  <1>3. /\ TypeInv' /\ Untouched(e) /\ compiled'[e] = work[e] /\ work'[e] = compiled[e]
        /\ call'[e] = "drop"
    BY <1>1, <1>2, NothingHeld DEF PageInv, TypeInv, Untouched, Phases, Calls
  <1>4. Accounted'
    BY <1>1, <1>3, Holdings, SameAccounts DEF PageInv, Mapped
  <1>5. Cut'
    BY <1>3, TypesOf, CutKept DEF PageInv
  <1> QED
    BY <1>3, <1>4, <1>5 DEF PageInv

(* What e held is unmapped, or given up and leaked.                        *)
LEMMA GivenUp ==
  ASSUME PageInv, NEW e \in Executables, call[e] = "drop", Untouched(e),
         compiled'[e] = compiled[e], work'[e] = NoProgram, call'[e] = "none",
         \/ leaked' = leaked /\ Mapped' = Mapped \ Held(work[e])
         \/ leaked' = leaked \cup Held(work[e]) /\ Mapped' = Mapped
  PROVE  Accounted'
  <1>1. /\ HeldIn(Compiled(e))' = HeldIn(Compiled(e)) /\ HeldIn(Work(e)) = Held(work[e])
        /\ HeldIn(Work(e))' = {}
    BY Holdings, NothingHeld
  <1>2. /\ HeldIn(Compiled(e)) \cap HeldIn(Work(e)) = {}
        /\ HeldIn(Compiled(e)) \cup HeldIn(Work(e)) \subseteq Mapped
        /\ leaked \cap HeldIn(Work(e)) = {}
    BY ZenonT(60) DEF PageInv, Accounted, PagesAccounted, Mapped, Slots, Compiled, Work
  <1> DEFINE old == HeldIn(Compiled(e)) \cup HeldIn(Work(e))
             new == HeldIn(Compiled(e))' \cup HeldIn(Work(e))' \cup (leaked' \ leaked)
  <1>3. new \subseteq old /\ Mapped' = (Mapped \ old) \cup new
    BY <1>1, <1>2
  <1>4. /\ leaked \subseteq leaked' /\ HeldIn(Compiled(e))' \cap HeldIn(Work(e))' = {}
        /\ (leaked' \ leaked) \cap (HeldIn(Compiled(e))' \cup HeldIn(Work(e))') = {}
    BY <1>1, <1>2
  <1> QED
    BY <1>3, <1>4, Accounting DEF PageInv

LEMMA DropKeeps ==
  ASSUME PageInv, NEW e \in Executables, Drop(e)
  PROVE  PageInv'
  <1>1. /\ call[e] = "drop" /\ Remap(Held(work[e]), "none")
        /\ work' = [work EXCEPT ![e] = NoProgram] /\ call' = [call EXCEPT ![e] = "none"]
        /\ UNCHANGED <<compiled, usage, leaked>>
    BY DEF Drop, Enter
  <1>2. /\ prot' \in [Pages -> {"none", "rw", "r", "rx"}] /\ DOMAIN memory' = DOMAIN memory
        /\ Mapped' = Mapped \ Held(work[e])
    BY <1>1, Protected DEF PageInv, Remap
  <1>3. /\ TypeInv' /\ Untouched(e) /\ compiled'[e] = compiled[e] /\ work'[e] = NoProgram
        /\ call'[e] = "none"
    BY <1>1, <1>2, NothingHeld DEF PageInv, TypeInv, Untouched, Phases
  <1>4. Accounted'
    BY <1>1, <1>2, <1>3, GivenUp
  <1>5. Cut'
    BY <1>3, NothingHeld, TypesOf, CutKept DEF PageInv
  <1> QED
    BY <1>3, <1>4, <1>5 DEF PageInv

LEMMA NothingChanges ==
  ASSUME PageInv, UNCHANGED <<prot, memory, compiled, work, usage, call, leaked>>
  PROVE  PageInv'
  <1>1. TypeInv'
    BY DEF PageInv, TypeInv
  <1>2. Cut'
    BY DEF PageInv, Cut
  <1>3. Accounted'
    BY DEF PageInv, Accounted, PagesAccounted, HeldIn
  <1> QED
    BY <1>1, <1>2, <1>3 DEF PageInv

LEMMA LibcFailsKeeps ==
  ASSUME PageInv, NEW e \in Executables, LibcFails(e)
  PROVE  PageInv'
  BY NothingChanges DEF LibcFails, pages

LEMMA InvocationFailedKeeps ==
  ASSUME PageInv, NEW e \in Executables, LibcInvocationFailed(e)
  PROVE  PageInv'
  <1>1. /\ call[e] \in Calls /\ usage' = [usage EXCEPT ![e] = 0]
        /\ UNCHANGED <<prot, memory, compiled>>
    BY DEF LibcInvocationFailed, pages
  <1>2. Mapped' = Mapped
    BY <1>1 DEF Mapped
  <1>3. CASE call[e] = "drop"
    <2>1. /\ call' = [call EXCEPT ![e] = "none"] /\ work' = [work EXCEPT ![e] = NoProgram]
          /\ leaked' = leaked \cup Held(work[e])
      BY <1>3 DEF LibcInvocationFailed, Enter
    <2>2. /\ TypeInv' /\ Untouched(e) /\ compiled'[e] = compiled[e] /\ work'[e] = NoProgram
          /\ call'[e] = "none"
      BY <1>1, <2>1, NothingHeld DEF PageInv, TypeInv, Untouched, Phases
    <2>3. Accounted'
      BY <1>2, <1>3, <2>1, <2>2, GivenUp
    <2>4. Cut'
      BY <2>2, NothingHeld, TypesOf, CutKept DEF PageInv
    <2> QED
      BY <2>2, <2>3, <2>4 DEF PageInv
  <1>4. CASE call[e] = "mmap"
    <2>1. /\ call' = [call EXCEPT ![e] = "none"] /\ work' = [work EXCEPT ![e] = NoProgram]
          /\ leaked' = leaked
      BY <1>4 DEF LibcInvocationFailed, Enter
    <2>2. /\ TypeInv' /\ Untouched(e) /\ compiled'[e] = compiled[e] /\ work'[e] = NoProgram
          /\ call'[e] = "none"
      BY <1>1, <2>1, NothingHeld DEF PageInv, TypeInv, Untouched, Phases
    <2>3. Accounted'
      BY <1>2, <1>4, <2>1, <2>2, NothingHeld, Holdings, SameAccounts DEF PageInv
    <2>4. Cut'
      BY <2>2, NothingHeld, TypesOf, CutKept DEF PageInv
    <2> QED
      BY <2>2, <2>3, <2>4 DEF PageInv
  <1>5. CASE call[e] \notin {"mmap", "drop"}
    <2>1. call' = [call EXCEPT ![e] = "drop"] /\ work' = work /\ leaked' = leaked
      BY <1>5 DEF LibcInvocationFailed, Enter
    <2>2. /\ TypeInv' /\ Untouched(e) /\ compiled'[e] = compiled[e] /\ work'[e] = work[e]
          /\ call'[e] = "drop"
      BY <1>1, <2>1 DEF PageInv, TypeInv, Untouched, Phases, Calls
    <2>3. Accounted'
      BY <1>2, <1>5, <2>1, <2>2, Holdings, SameAccounts DEF PageInv
    <2>4. Cut'
      BY <2>2, TypesOf, CutKept DEF PageInv
    <2> QED
      BY <2>2, <2>3, <2>4 DEF PageInv
  <1> QED
    BY <1>3, <1>4, <1>5

LEMMA PageInvStarts == Init => PageInv
  <1> SUFFICES ASSUME Init
               PROVE  PageInv
    OBVIOUS
  <1>1. TypeInv
    BY NothingHeld DEF Init, TypeInv, Phases
  <1>2. Cut
    BY NothingHeld DEF Init, Cut
  <1>3. Accounted
    <2>1. \A s \in Slots : HeldIn(s) = {}
      BY NothingHeld DEF Init, Slots, HeldIn
    <2>2. Mapped = {}
      BY DEF Init, Mapped
    <2> QED
      BY <2>1, <2>2 DEF Init, Accounted, PagesAccounted, Mapped
  <1> QED
    BY <1>1, <1>2, <1>3 DEF PageInv

LEMMA PageInvKept == PageInv /\ [Next]_vars => PageInv'
  <1> SUFFICES ASSUME PageInv, [Next]_vars
               PROVE  PageInv'
    OBVIOUS
  <1>1. CASE UNCHANGED vars
    BY <1>1, NothingChanges DEF vars, pages
  <1>2. CASE Next
    <2>1. PICK e \in Executables :
            \/ \E pc \in PcCounts, code_size \in CodeSizes : JitCompile(e, pc, code_size)
            \/ DropExecutable(e)
            \/ Step(e)
      BY <1>2 DEF Next
    <2>2. CASE Step(e)
      BY <2>2, AllocatePagesKeeps, ExhaustedKeeps, EmitKeeps, FreeTailKeeps, ProtectPcKeeps,
         ProtectTextKeeps, DropKeeps, LibcFailsKeeps, InvocationFailedKeeps DEF Step
    <2> QED
      BY <2>1, <2>2, JitCompileKeeps, DropExecutableKeeps
  <1> QED
    BY <1>1, <1>2

LEMMA PageInvariant == Spec => []PageInv
  BY PageInvStarts, PageInvKept, PTL DEF Spec

(* Whatever threads compile and drop, and whichever calls of libc fail, no *)
(* page is held twice or lost: JitProgram::new, seal and drop give back    *)
(* exactly what they took (jit.rs).                                        *)
THEOREM PagesAlwaysAccounted == Spec => []PagesAccounted
  <1>1. PageInv => PagesAccounted
    BY DEF PageInv, Accounted
  <1> QED
    BY <1>1, PageInvariant, PTL

-----------------------------------------------------------------------------
(* What is in the pages.  While a program is sealed its cells are filled,  *)
(* and no step of another thread reaches them.                             *)

Filled(m, p, n, e) ==
    LET text == p.raw + PcSize(p)
    IN  /\ \A c \in Span(p.raw, p.pc) : m[c] = Cell("pc", e)
        /\ \A c \in Span(text, n) : m[c] = Cell("code", e)
        /\ \A c \in Span(text + n, RoundToPageSize(n) - n) : m[c] = Trap

Sealed(pr, m, p, e) ==
    /\ \A g \in PcPages(p) : pr[g] = "r"
    /\ \A g \in TextPages(p) : pr[g] = "rx"
    /\ Filled(m, p, p.text, e)

SealInv ==
    \A e \in Executables :
        /\ compiled[e] # NoProgram => Sealed(prot, memory, compiled[e], e)
        /\ call[e] = "munmap_tail" => Filled(memory, work[e], usage[e], e)
        /\ call[e] \in {"protect_pc", "protect_text"} => Filled(memory, work[e], work[e].text, e)
        /\ call[e] = "protect_text" => \A g \in PcPages(work[e]) : prot[g] = "r"

(* The cells of a program lie in the pages it holds.                       *)
LEMMA CellsInside ==
  ASSUME NEW p \in Program, Aligned(p.raw), NEW n \in Nat,
         RoundToPageSize(n) <= RoundToPageSize(p.text), Held(p) \subseteq Pages,
         NEW c, \/ c \in Span(p.raw, p.pc) \/ c \in Span(p.raw + PcSize(p), n)
                \/ c \in Span(p.raw + PcSize(p) + n, RoundToPageSize(n) - n)
  PROVE  c \in Span(0, PageCount * page_size) /\ c \div page_size \in Held(p)
  <1>1. /\ p.raw \in Nat /\ p.pc \in Nat /\ p.text \in Nat
        /\ PcSize(p) \in Nat /\ p.pc <= PcSize(p)
        /\ RoundToPageSize(n) \in Nat /\ n <= RoundToPageSize(n)
        /\ RoundToPageSize(p.text) \in Nat
    BY RoundingUp DEF Program, PcSize
  <1>2. c \in Nat /\ c \in Span(p.raw, MemSize(p))
    BY <1>1 DEF Span, MemSize
  <1>3. c \div page_size \in Held(p)
    BY <1>2 DEF Held, PagesOf
  <1>4. c \div page_size \in Nat /\ c \div page_size + 1 <= PageCount
    BY <1>3, PagesAssumption DEF Pages
  <1>5. c < (c \div page_size + 1) * page_size
    BY <1>2, PageOfCell
  <1>6. ~(PageCount * page_size < (c \div page_size + 1) * page_size)
    BY <1>4, MultiplesOrdered, PagesAssumption
  <1>7. c < PageCount * page_size
    BY <1>2, <1>4, <1>5, <1>6, PagesAssumption
  <1> QED
    BY <1>2, <1>3, <1>7, PagesAssumption DEF Span

LEMMA FilledKept ==
  ASSUME NEW p \in Program, Aligned(p.raw), NEW n \in Nat,
         RoundToPageSize(n) <= RoundToPageSize(p.text), Held(p) \subseteq Pages,
         NEW e, NEW m, NEW k, Filled(m, p, n, e),
         \A c \in Span(0, PageCount * page_size) : c \div page_size \in Held(p) => k[c] = m[c]
  PROVE  Filled(k, p, n, e)
  BY CellsInside DEF Filled

(* A step of e changes pages of the program e works on, and no others.     *)
Mine(e) == HeldIn(Work(e)) \cup HeldIn(Work(e))'
Local(e) ==
    /\ \A g \in Pages \ Mine(e) : prot'[g] = prot[g]
    /\ \A c \in DOMAIN memory : c \div page_size \notin Mine(e) => memory'[c] = memory[c]

(* So what others hold, and what e has compiled, stays as it was.          *)
LEMMA OthersKept ==
  ASSUME PageInv, PageInv', NEW e \in Executables, Untouched(e), Local(e),
         NEW s \in Slots, s # Work(e), HeldIn(s)' = HeldIn(s)
  PROVE  /\ HeldIn(s) \subseteq Pages
         /\ \A g \in HeldIn(s) : prot'[g] = prot[g]
         /\ \A c \in Span(0, PageCount * page_size) :
                c \div page_size \in HeldIn(s) => memory'[c] = memory[c]
  <1>1. Work(e) \in Slots
    BY DEF Slots, Work
  <1>2. HeldIn(s) \subseteq Pages /\ HeldIn(s) \cap HeldIn(Work(e)) = {}
    BY <1>1 DEF PageInv, Accounted, PagesAccounted
  <1>3. HeldIn(s)' \cap HeldIn(Work(e))' = {}
    BY <1>1 DEF PageInv, Accounted, PagesAccounted, Slots
  <1>4. HeldIn(s) \cap Mine(e) = {}
    BY <1>2, <1>3 DEF Mine
  <1>5. DOMAIN memory = Span(0, PageCount * page_size)
    BY DEF PageInv, TypeInv
  <1> QED
    BY <1>2, <1>4, <1>5 DEF Local

(* A sealed program stays sealed.                                          *)
LEMMA SealKept ==
  ASSUME PageInv, PageInv', SealInv, NEW e \in Executables, Untouched(e), Local(e),
         NEW f \in Executables, compiled'[f] = compiled[f], compiled[f] # NoProgram
  PROVE  Sealed(prot', memory', compiled[f], f)
  <1> DEFINE p == compiled[f]
  <1>1. p \in Program /\ Aligned(p.raw) /\ p.text \in Nat
    BY TypesOf DEF Program
  <1>2. Compiled(f) \in Slots /\ Compiled(f) # Work(e)
    BY DEF Slots, Compiled, Work
  <1>3. HeldIn(Compiled(f)) = Held(p) /\ HeldIn(Compiled(f))' = HeldIn(Compiled(f))
    BY Holdings
  <1>4. /\ Held(p) \subseteq Pages /\ \A g \in Held(p) : prot'[g] = prot[g]
        /\ \A c \in Span(0, PageCount * page_size) :
               c \div page_size \in Held(p) => memory'[c] = memory[c]
    BY <1>2, <1>3, OthersKept
  <1>5. Sealed(prot, memory, p, f)
    BY DEF SealInv
  <1> HIDE DEF p
  <1>6. PcPages(p) \subseteq Held(p) /\ TextPages(p) \subseteq Held(p)
    BY <1>1, SectionsInside
  <1>7. RoundToPageSize(p.text) <= RoundToPageSize(p.text)
    BY <1>1, RoundingUp
  <1>8. Filled(memory', p, p.text, f)
    BY <1>1, <1>4, <1>5, <1>7, FilledKept DEF Sealed
  <1>9. Sealed(prot', memory', p, f)
    BY <1>4, <1>5, <1>6, <1>8 DEF Sealed
  <1> QED
    BY <1>9 DEF p

(* What another thread has filled stays filled.                            *)
LEMMA WorkKept ==
  ASSUME PageInv, PageInv', NEW e \in Executables, Untouched(e), Local(e),
         NEW f \in Executables, f # e, call[f] # "mmap"
  PROVE  /\ \A n \in Nat : /\ RoundToPageSize(n) <= RoundToPageSize(work[f].text)
                             /\ Filled(memory, work[f], n, f)
                             => Filled(memory', work[f], n, f)
         /\ \A g \in PcPages(work[f]) : prot'[g] = prot[g]
  <1> DEFINE p == work[f]
  <1>1. p \in Program /\ Aligned(p.raw)
    BY TypesOf
  <1>2. Work(f) \in Slots /\ Work(f) # Work(e)
    BY DEF Slots, Work
  <1>3. HeldIn(Work(f)) = Held(p) /\ HeldIn(Work(f))' = HeldIn(Work(f))
    BY Holdings DEF Untouched
  <1>4. /\ Held(p) \subseteq Pages /\ \A g \in Held(p) : prot'[g] = prot[g]
        /\ \A c \in Span(0, PageCount * page_size) :
               c \div page_size \in Held(p) => memory'[c] = memory[c]
    BY <1>2, <1>3, OthersKept
  <1> HIDE DEF p
  <1>5. PcPages(p) \subseteq Held(p)
    BY <1>1, SectionsInside
  <1>6. \A n \in Nat : RoundToPageSize(n) <= RoundToPageSize(p.text) /\ Filled(memory, p, n, f)
                         => Filled(memory', p, n, f)
    BY <1>1, <1>4, FilledKept
  <1> QED
    BY <1>4, <1>5, <1>6 DEF p

(* The clauses of SealInv for one thread, after a step.                    *)
SealedNext(f) ==
    /\ compiled'[f] # NoProgram => Sealed(prot', memory', compiled'[f], f)
    /\ call'[f] = "munmap_tail" => Filled(memory', work'[f], usage'[f], f)
    /\ call'[f] \in {"protect_pc", "protect_text"} => Filled(memory', work'[f], work'[f].text, f)
    /\ call'[f] = "protect_text" => \A g \in PcPages(work'[f]) : prot'[g] = "r"

LEMMA SealedElsewhere ==
  ASSUME PageInv, PageInv', SealInv, NEW e \in Executables, Untouched(e), Local(e),
         NEW f \in Executables, f # e
  PROVE  SealedNext(f)
  <1>1. /\ compiled'[f] = compiled[f] /\ work'[f] = work[f]
        /\ usage'[f] = usage[f] /\ call'[f] = call[f]
    BY DEF Untouched
  <1>2. compiled[f] # NoProgram => Sealed(prot', memory', compiled[f], f)
    BY <1>1, SealKept
  <1>3. ASSUME call[f] = "munmap_tail"
        PROVE  Filled(memory', work[f], usage[f], f)
    <2>1. work[f].text \in Nat /\ usage[f] \in Nat /\ Aligned(work[f].text)
          /\ RoundToPageSize(usage[f]) < work[f].text
      BY <1>3, TypesOf DEF PageInv, Cut, Program
    <2>2. RoundToPageSize(usage[f]) <= RoundToPageSize(work[f].text)
      BY <2>1, RoundingUp
    <2>3. Filled(memory, work[f], usage[f], f)
      BY <1>3 DEF SealInv
    <2> QED
      BY <1>3, <2>1, <2>2, <2>3, WorkKept
  <1>4. ASSUME call[f] \in {"protect_pc", "protect_text"}
        PROVE  Filled(memory', work[f], work[f].text, f)
    <2>1. work[f].text \in Nat /\ RoundToPageSize(work[f].text) <= RoundToPageSize(work[f].text)
      BY TypesOf, RoundingUp DEF Program
    <2>2. Filled(memory, work[f], work[f].text, f)
      BY <1>4 DEF SealInv
    <2> QED
      BY <1>4, <2>1, <2>2, WorkKept
  <1>5. call[f] = "protect_text" => \A g \in PcPages(work[f]) : prot'[g] = "r"
    BY WorkKept DEF SealInv
  <1> QED
    BY <1>1, <1>2, <1>3, <1>4, <1>5 DEF SealedNext

(* The steps of e.                                                         *)
Acts(e) ==
    \/ \E pc \in PcCounts, code_size \in CodeSizes : JitCompile(e, pc, code_size)
    \/ DropExecutable(e)
    \/ Step(e)

LEMMA ActsAlone ==
  ASSUME PageInv, NEW e \in Executables, Acts(e)
  PROVE  Untouched(e)
  <1> USE DEF PageInv, TypeInv, Untouched, Enter
  <1>1. ASSUME NEW pc \in PcCounts, NEW code_size \in CodeSizes, JitCompile(e, pc, code_size)
        PROVE  Untouched(e)
    BY <1>1 DEF JitCompile
  <1>2. CASE DropExecutable(e)
    BY <1>2 DEF DropExecutable
  <1>3. CASE AllocatePages(e)
    BY <1>3 DEF AllocatePages
  <1>4. CASE ExhaustedTextSegment(e)
    BY <1>4 DEF ExhaustedTextSegment
  <1>5. ASSUME NEW n \in 1..work[e].text, Emit(e, n)
        PROVE  Untouched(e)
    BY <1>5 DEF Emit
  <1>6. CASE FreeTail(e)
    BY <1>6 DEF FreeTail
  <1>7. CASE ProtectPcSection(e)
    BY <1>7 DEF ProtectPcSection
  <1>8. CASE ProtectTextSection(e)
    BY <1>8 DEF ProtectTextSection
  <1>9. CASE Drop(e)
    BY <1>9 DEF Drop
  <1>10. CASE LibcFails(e)
    BY <1>10 DEF LibcFails
  <1>11. CASE LibcInvocationFailed(e)
    BY <1>11 DEF LibcInvocationFailed
  <1> QED
    BY <1>1, <1>2, <1>3, <1>4, <1>5, <1>6, <1>7, <1>8, <1>9, <1>10, <1>11 DEF Acts, Step

LEMMA RemapLocal ==
  ASSUME PageInv, NEW e \in Executables, NEW set, NEW flags \in {"none", "rw", "r", "rx"},
         Remap(set, flags), set \subseteq Mine(e)
  PROVE  Local(e)
  <1>1. \A g \in Pages : prot'[g] = IF g \in set THEN flags ELSE prot[g]
    BY DEF Remap, Protect
  <1>2. \A c \in DOMAIN memory :
           memory'[c] = IF c \div page_size \in set THEN Zero ELSE memory[c]
    BY DEF Remap
  <1> QED
    BY <1>1, <1>2 DEF Local

LEMMA ProtectLocal ==
  ASSUME PageInv, NEW e \in Executables, NEW set, NEW flags \in {"none", "rw", "r", "rx"},
         Protect(set, flags), UNCHANGED memory, set \subseteq Mine(e)
  PROVE  Local(e)
  BY DEF Protect, Local

(* A step after which e is not sealing anything.                           *)
LEMMA SealNotGoingOn ==
  ASSUME PageInv, PageInv', SealInv, NEW e \in Executables, Untouched(e), Local(e),
         compiled'[e] \in {compiled[e], NoProgram},
         call'[e] \in {"none", "mmap", "compile", "drop"}
  PROVE  SealedNext(e)
  <1>1. compiled'[e] # NoProgram => Sealed(prot', memory', compiled'[e], e)
    BY SealKept
  <1> QED
    BY <1>1 DEF SealedNext

(* Emitting fills the cells.                                               *)
LEMMA EmitFills ==
  ASSUME PageInv, NEW e \in Executables, NEW n \in 1..work[e].text, Emit(e, n)
  PROVE  Filled(memory', work[e], n, e) /\ Local(e)
  <1> DEFINE p == work[e]
             text == p.raw + PcSize(p)
             written == Span(p.raw, p.pc) \cup Span(text, n)
                            \cup Span(text + n, RoundToPageSize(n) - n)
  <1>1. /\ p \in Program /\ Aligned(p.raw) /\ p.raw \in Nat /\ p.pc \in Nat
        /\ p.text \in Nat /\ Aligned(p.text) /\ n \in Nat /\ n <= p.text
    BY TypesOf DEF Emit, PageInv, Cut, Program
  <1>2. /\ RoundToPageSize(n) <= RoundToPageSize(p.text)
        /\ n <= RoundToPageSize(n) /\ RoundToPageSize(n) \in Nat
        /\ p.pc <= PcSize(p) /\ PcSize(p) \in Nat
    BY <1>1, RoundingBelow, RoundingUp DEF PcSize
  <1>3. call[e] = "compile" /\ UNCHANGED prot
    BY DEF Emit
  <1>4. Held(p) = HeldIn(Work(e)) /\ Held(p) \subseteq Pages
    BY <1>3, SectionsHeld DEF Mapped
  <1>5. memory' = [c \in DOMAIN memory |->
                      CASE c \in Span(p.raw, p.pc) -> Cell("pc", e)
                        [] c \in Span(text, n) -> Cell("code", e)
                        [] c \in Span(text + n, RoundToPageSize(n) - n) -> Trap
                        [] OTHER -> memory[c]]
    BY DEF Emit
  <1> HIDE DEF p
  <1>6. \A c \in written : c \in DOMAIN memory /\ c \div page_size \in Held(p)
    BY <1>1, <1>2, <1>4, CellsInside DEF PageInv, TypeInv
  <1>7. /\ Span(p.raw, p.pc) \cap Span(text, n) = {}
        /\ Span(p.raw, p.pc) \cap Span(text + n, RoundToPageSize(n) - n) = {}
        /\ Span(text, n) \cap Span(text + n, RoundToPageSize(n) - n) = {}
    BY <1>1, <1>2 DEF Span
  <1>8. Filled(memory', p, n, e)
    BY <1>5, <1>6, <1>7 DEF Filled
  <1>9. \A c \in DOMAIN memory : c \notin written => memory'[c] = memory[c]
    BY <1>5
  <1>10. Local(e)
    BY <1>3, <1>4, <1>6, <1>9 DEF Local, Mine
  <1> QED
    BY <1>8, <1>10 DEF p

LEMMA EmitSeals ==
  ASSUME PageInv, PageInv', SealInv, NEW e \in Executables, Untouched(e),
         NEW n \in 1..work[e].text, Emit(e, n)
  PROVE  Local(e) /\ SealedNext(e)
  <1> DEFINE q == [work[e] EXCEPT !.text = n]
  <1>1. Filled(memory', work[e], n, e) /\ Local(e)
    BY EmitFills
  <1>2. work[e] \in Program /\ compiled'[e] = compiled[e]
    BY TypesOf DEF Emit
  <1>3. compiled'[e] # NoProgram => Sealed(prot', memory', compiled'[e], e)
    BY <1>1, <1>2, SealKept
  <1>4. CASE work[e].text > RoundToPageSize(n)
    <2>1. call'[e] = "munmap_tail" /\ usage'[e] = n /\ work'[e] = work[e]
      BY <1>4 DEF Emit, Enter, PageInv, TypeInv
    <2> QED
      BY <1>1, <1>3, <2>1 DEF SealedNext
  <1>5. CASE ~(work[e].text > RoundToPageSize(n))
    <2>1. call'[e] = "protect_pc" /\ work'[e] = q
      BY <1>5 DEF Emit, Enter, PageInv, TypeInv
    <2>2. q.raw = work[e].raw /\ q.pc = work[e].pc /\ q.text = n
      BY <1>2 DEF Program
    <2> HIDE DEF q
    <2>3. Filled(memory', q, q.text, e)
      BY <1>1, <2>2 DEF Filled, PcSize
    <2> QED
      BY <1>1, <1>3, <2>1, <2>3 DEF SealedNext
  <1> QED
    BY <1>1, <1>4, <1>5

LEMMA FreeTailSeals ==
  ASSUME PageInv, PageInv', SealInv, NEW e \in Executables, Untouched(e), FreeTail(e)
  PROVE  Local(e) /\ SealedNext(e)
  <1> DEFINE p == work[e]
             u == usage[e]
             q == [p EXCEPT !.text = u]
             freed == PagesOf(p.raw + PcSize(p) + RoundToPageSize(u), p.text - RoundToPageSize(u))
  <1>1. /\ call[e] = "munmap_tail" /\ Remap(freed, "none") /\ UNCHANGED compiled
        /\ work'[e] = q /\ call'[e] = "protect_pc"
    BY DEF FreeTail, Enter, PageInv, TypeInv
  <1>2. /\ p \in Program /\ u \in Nat /\ Aligned(p.raw) /\ Aligned(p.text)
        /\ RoundToPageSize(u) < p.text
    BY <1>1, TypesOf DEF PageInv, Cut
  <1>3. Held(p) = Held(q) \cup freed /\ Held(q) \cap freed = {}
    BY <1>2, TailSplits
  <1>4. q \in Program /\ q.raw = p.raw /\ q.pc = p.pc /\ q.text = u
    BY <1>2 DEF Program
  <1>5. Held(p) = HeldIn(Work(e)) /\ Held(p) \subseteq Pages
    BY <1>1, SectionsHeld DEF Mapped
  <1>6. Filled(memory, p, u, e)
    BY <1>1 DEF SealInv
  <1> HIDE DEF p, u, q, freed
  <1>7. Local(e)
    BY <1>1, <1>3, <1>5, RemapLocal DEF Mine
  <1>8. \A c \in Span(0, PageCount * page_size) :
           c \div page_size \in Held(q) => memory'[c] = memory[c]
    BY <1>1, <1>3 DEF Remap, PageInv, TypeInv
  <1>9. Filled(memory, q, u, e)
    BY <1>4, <1>6 DEF Filled, PcSize
  <1>10. RoundToPageSize(u) <= RoundToPageSize(q.text) /\ Aligned(q.raw) /\ Held(q) \subseteq Pages
    BY <1>2, <1>3, <1>4, <1>5, RoundingUp
  <1>11. Filled(memory', q, u, e)
    BY <1>2, <1>4, <1>8, <1>9, <1>10, FilledKept
  <1>12. compiled'[e] # NoProgram => Sealed(prot', memory', compiled'[e], e)
    BY <1>1, <1>7, SealKept
  <1> QED
    BY <1>1, <1>4, <1>7, <1>11, <1>12 DEF SealedNext

LEMMA ProtectPcSeals ==
  ASSUME PageInv, PageInv', SealInv, NEW e \in Executables, Untouched(e), ProtectPcSection(e)
  PROVE  Local(e) /\ SealedNext(e)
  <1>1. /\ call[e] = "protect_pc" /\ Protect(PcPages(work[e]), "r") /\ UNCHANGED <<memory, compiled>>
        /\ work'[e] = work[e] /\ call'[e] = "protect_text"
    BY DEF ProtectPcSection, Enter, PageInv, TypeInv
  <1>2. PcPages(work[e]) \subseteq HeldIn(Work(e)) /\ PcPages(work[e]) \subseteq Pages
    BY <1>1, SectionsHeld DEF Mapped
  <1>3. Local(e)
    BY <1>1, <1>2, ProtectLocal DEF Mine
  <1>4. \A g \in PcPages(work[e]) : prot'[g] = "r"
    BY <1>1, <1>2 DEF Protect
  <1>5. Filled(memory', work[e], work[e].text, e)
    BY <1>1 DEF SealInv
  <1>6. compiled'[e] # NoProgram => Sealed(prot', memory', compiled'[e], e)
    BY <1>1, <1>3, SealKept
  <1> QED
    BY <1>1, <1>3, <1>4, <1>5, <1>6 DEF SealedNext

LEMMA ProtectTextSeals ==
  ASSUME PageInv, PageInv', SealInv, NEW e \in Executables, Untouched(e), ProtectTextSection(e)
  PROVE  Local(e) /\ SealedNext(e)
  <1> DEFINE p == work[e]
  <1>1. /\ call[e] = "protect_text" /\ Protect(TextPages(p), "rx") /\ UNCHANGED memory
        /\ compiled'[e] = p /\ call'[e] \in {"none", "drop"}
    BY DEF ProtectTextSection, Enter, PageInv, TypeInv
  <1>2. /\ PcPages(p) \subseteq Pages /\ TextPages(p) \subseteq Pages
        /\ PcPages(p) \cap TextPages(p) = {} /\ TextPages(p) \subseteq HeldIn(Work(e))
    BY <1>1, SectionsHeld DEF Mapped
  <1>3. Filled(memory, p, p.text, e) /\ \A g \in PcPages(p) : prot[g] = "r"
    BY <1>1 DEF SealInv
  <1> HIDE DEF p
  <1>4. Local(e)
    BY <1>1, <1>2, ProtectLocal DEF Mine
  <1>5. /\ \A g \in PcPages(p) : prot'[g] = "r"
        /\ \A g \in TextPages(p) : prot'[g] = "rx"
    BY <1>1, <1>2, <1>3 DEF Protect
  <1>6. Sealed(prot', memory', p, e)
    BY <1>1, <1>3, <1>5 DEF Sealed
  <1> QED
    BY <1>1, <1>4, <1>6 DEF SealedNext

LEMMA ActsSeal ==
  ASSUME PageInv, PageInv', SealInv, NEW e \in Executables, Acts(e)
  PROVE  Local(e) /\ SealedNext(e)
  <1>1. Untouched(e)
    BY ActsAlone
  <1> USE DEF Enter
  <1>2. ASSUME NEW pc \in PcCounts, NEW code_size \in CodeSizes, JitCompile(e, pc, code_size)
        PROVE  Local(e) /\ SealedNext(e)
    <2>1. /\ UNCHANGED <<prot, memory>>
          /\ compiled'[e] = compiled[e] /\ call'[e] = "mmap"
      BY <1>2 DEF JitCompile, pages, PageInv, TypeInv
    <2>2. Local(e)
      BY <2>1 DEF Local
    <2> QED
      BY <1>1, <2>1, <2>2, SealNotGoingOn
  <1>3. CASE DropExecutable(e)
    <2>1. /\ UNCHANGED <<prot, memory>>
          /\ compiled'[e] = NoProgram /\ call'[e] = "drop"
      BY <1>3 DEF DropExecutable, pages, PageInv, TypeInv
    <2>2. Local(e)
      BY <2>1 DEF Local
    <2> QED
      BY <1>1, <2>1, <2>2, SealNotGoingOn
  <1>4. CASE AllocatePages(e)
    <2>1. /\ Remap(Held(work'[e]), "rw")
          /\ compiled'[e] = compiled[e] /\ call'[e] = "compile"
      BY <1>4 DEF AllocatePages, PageInv, TypeInv
    <2>2. Held(work'[e]) \subseteq Mine(e)
      BY <2>1, Holdings DEF Mine
    <2>3. Local(e)
      BY <2>1, <2>2, RemapLocal
    <2> QED
      BY <1>1, <2>1, <2>3, SealNotGoingOn
  <1>5. CASE ExhaustedTextSegment(e)
    <2>1. /\ UNCHANGED <<prot, memory>>
          /\ compiled'[e] = compiled[e] /\ call'[e] = "drop"
      BY <1>5 DEF ExhaustedTextSegment, pages, PageInv, TypeInv
    <2>2. Local(e)
      BY <2>1 DEF Local
    <2> QED
      BY <1>1, <2>1, <2>2, SealNotGoingOn
  <1>6. CASE Drop(e)
    <2>1. /\ call[e] = "drop" /\ Remap(Held(work[e]), "none")
          /\ compiled'[e] = compiled[e] /\ call'[e] = "none"
      BY <1>6 DEF Drop, PageInv, TypeInv
    <2>2. Held(work[e]) \subseteq Mine(e)
      BY <2>1, Holdings DEF Mine
    <2>3. Local(e)
      BY <2>1, <2>2, RemapLocal
    <2> QED
      BY <1>1, <2>1, <2>3, SealNotGoingOn
  <1>7. CASE LibcFails(e)
    <2>1. UNCHANGED <<prot, memory, compiled, work, usage, call>>
      BY <1>7 DEF LibcFails, pages
    <2>2. Local(e)
      BY <2>1 DEF Local
    <2> QED
      BY <2>1, <2>2 DEF SealInv, SealedNext
  <1>8. CASE LibcInvocationFailed(e)
    <2>1. /\ UNCHANGED <<prot, memory>>
          /\ compiled'[e] = compiled[e] /\ call'[e] \in {"none", "drop"}
      BY <1>8 DEF LibcInvocationFailed, pages, PageInv, TypeInv
    <2>2. Local(e)
      BY <2>1 DEF Local
    <2> QED
      BY <1>1, <2>1, <2>2, SealNotGoingOn
  <1> QED
    BY <1>1, <1>2, <1>3, <1>4, <1>5, <1>6, <1>7, <1>8, EmitSeals, FreeTailSeals, ProtectPcSeals,
       ProtectTextSeals DEF Acts, Step

LEMMA SealInvKept == PageInv /\ PageInv' /\ SealInv /\ [Next]_vars => SealInv'
  <1> SUFFICES ASSUME PageInv, PageInv', SealInv, [Next]_vars
               PROVE  SealInv'
    OBVIOUS
  <1>1. CASE UNCHANGED vars
    BY <1>1 DEF vars, pages, SealInv
  <1>2. CASE Next
    <2>1. PICK e \in Executables : Acts(e)
      BY <1>2 DEF Next, Acts
    <2>2. Untouched(e) /\ Local(e) /\ SealedNext(e)
      BY <2>1, ActsAlone, ActsSeal
    <2>3. \A f \in Executables : SealedNext(f)
      BY <2>2, SealedElsewhere
    <2> QED
      BY <2>3 DEF SealInv, SealedNext, Sealed, Filled, PcSize, RoundToPageSize, PcPages, TextPages,
         PagesOf
  <1> QED
    BY <1>1, <1>2

(* What an Executable offers for execution is sealed and its own, however  *)
(* the steps of other threads and the failures of libc fall: they reach    *)
(* none of its pages (jit.rs seal, drop).                                  *)
THEOREM CompiledAlwaysSealed == Spec => []CompiledSealed
  <1>1. Init => SealInv
    BY DEF Init, SealInv
  <1>2. SealInv => CompiledSealed
    BY DEF SealInv, Sealed, Filled, CompiledSealed
  <1> QED
    BY <1>1, <1>2, SealInvKept, PageInvariant, PTL DEF Spec

=============================================================================
