----------------------------- MODULE MCGoAware -----------------------------
(***************************************************************************)
(* GoAware on small binaries, linked from small programs the way the Go    *)
(* linker does it.                                                         *)
(*                                                                         *)
(* A program's symbols are sequences of items: a number, a pointer to a    *)
(* symbol, its offset from the types, the text or the rodata, the offset   *)
(* of a function's name, or the displacement of a reference.               *)
(***************************************************************************)
EXTENDS GoAware, TLC

CONSTANT link(_)   \* Link below, as Predict's calls are bound

Item(k, n, s) == <<[k |-> k, n |-> n, s |-> s]>>
Num(n) == Item("num", n, "")
Nums(ns) == FlattenSeq([i \in 1..Len(ns) |-> Num(ns[i])])
PtrTo(s) == Item("ptr", 0, s)
OffOf(s) == Item("types", 0, s)
TextOff(s) == Item("text", 0, s)
GcOff(s) == Item("rodata", 0, s)
NameOffOf(s) == Item("name", 0, s)

\* Instructions: a call, a short jump, and a load with a constant after its displacement.
Call(s) == Num(1) \o Item("wide", 0, s)
Jump(s) == Num(2) \o Item("short", 0, s)
Load(s, c) == Num(3) \o Item("wide", 1, s) \o Num(c)

MCDecode(c) ==
  LET none == [len |-> 0, pcrel |-> 0, off |-> 0]
      Is(len, w) == IF Len(c) < len THEN none ELSE [len |-> len, pcrel |-> w, off |-> 1]
  IN IF c = <<>> \/ Head(c) = 99 THEN none
     ELSE CASE Head(c) = 1 -> Is(2, 4)
            [] Head(c) = 2 -> Is(2, 1)
            [] Head(c) = 3 -> Is(3, 4)
            [] OTHER -> [len |-> 1, pcrel |-> 0, off |-> 0]
MCSpan(w) == IF w = 4 THEN 4096 ELSE 64

MCWindowHash(w) ==
  IF Len(w) = 2 THEN (w[1] + 3 * w[2]) % 3
  ELSE FoldLeft(LAMBDA a, c : (a * 31 + c) % 1009, 7, w)

(***************************************************************************)
(* The linker.                                                             *)
(***************************************************************************)
Base == 51200
Even(n) == n + (n % 2)
ItemSize(it) == IF it.k = "ptr" THEN 2 ELSE 1
SymSize(s) == FoldLeft(LAMBDA a, it : a + ItemSize(it), 0, s.items)

Lay(syms, at) ==
  FoldLeft(LAMBDA st, s : [end |-> Even(st.end + SymSize(s)), at |-> st.at @@ (s.id :> st.end)],
           [end |-> at, at |-> <<>>], syms)

Firsts(s) == LET ks == SelectSeq([i \in 1..Len(s) |-> i], LAMBDA i : \A j \in 1..(i - 1) : s[j] # s[i])
             IN [k \in 1..Len(ks) |-> s[ks[k]]]
OffsetIn(tabs, k, at) == FoldLeft(LAMBDA a, i : a + Len(tabs[i]), at, [i \in 1..(k - 1) |-> i])
IndexOf(s, x) == CHOOSE i \in 1..Len(s) : s[i] = x

Zstr(names) == [i \in 1..Len(names) |-> names[i] \o <<0>>]

\* runtime.findfunctab: per subbucket the first function that overlaps it.
Findfunc(fns) ==
  LET lo == fns[1].entry  span == fns[Len(fns)].end - lo
      n == CeilDiv(span, SubbucketSize)
      First(i) == Min({f \in 1..Len(fns) : fns[f].end > lo + i * SubbucketSize
                                             /\ fns[f].entry < lo + (i + 1) * SubbucketSize}) - 1
  IN FlattenSeq([i \in 1..n |->
       (IF (i - 1) % Subbuckets = 0 THEN <<First(i - 1)>> ELSE <<>>)
         \o <<First(i - 1) - First(((i - 1) \div Subbuckets) * Subbuckets)>>])

Link(p) ==
  LET text == Base + 4
      tx == Lay(p.text, text + 2)
      plt == tx.end + 1
      pl == Lay(p.plt, plt)
      rodata == Even(pl.end) + 2
      ro == Lay(p.rodata, rodata)
      types == ro.end + 2
      ty == Lay(p.links, types + 2)
      ot == Lay(p.others, ty.end)
      it == Lay(p.itabs, ot.end)
      nm == Lay(p.names, it.end)
      pclntab == nm.end
      n == Len(p.text)
      Entry(i) == tx.at[p.text[i].id]
      End(i) == IF i = n THEN tx.end ELSE Entry(i + 1)
      \* the pclntab
      fnames == Zstr(Firsts([i \in 1..n |-> p.text[i].name]))
      names == FlattenSeq(fnames)
      NameOf(i) == OffsetIn(fnames, IndexOf(fnames, p.text[i].name \o <<0>>), 0)
      files == Zstr(p.files)
      cutab == FlattenSeq([c \in 1..Len(p.units) |->
                 [k \in 1..Len(p.units[c]) |-> OffsetIn(files, p.units[c][k], 0)]])
      UnitOf(c) == OffsetIn(p.units, c, 0)
      InOrder(d) == IF Len(d) < 3 THEN d ELSE RemoveAt(d, 3) \o <<d[3]>>   \* the inline index last
      pcs == Firsts(SelectSeq(FlattenSeq([i \in 1..n |-> p.text[i].pcs \o InOrder(p.text[i].pcdata)]),
                              LAMBDA t : t # <<>>))
      PcOf(t) == IF t = <<>> THEN 0 ELSE OffsetIn(pcs, IndexOf(pcs, t), 1)
      fds == Firsts(SelectSeq(FlattenSeq([i \in 1..n |-> p.text[i].fds]), LAMBDA s : s # ""))
      ClassOf(c) == SelectSeq(fds, LAMBDA s : p.fd[s].class = c)
      fdo == FoldLeft(LAMBDA st, s :
                 LET a == IF p.fd[s].class = 8 THEN Even(st.end) ELSE st.end
                 IN [end |-> a + SymSize(p.fd[s]), at |-> st.at @@ (s :> a)],
               [end |-> 0, at |-> <<>>], ClassOf(8) \o ClassOf(4) \o ClassOf(1))
      RecLen(i) == FuncSize + Len(p.text[i].pcdata) + Len(p.text[i].fds)
      rec == FoldLeft(LAMBDA os, i : Append(os, Even(IF i = 1 THEN 2 * n + 1 ELSE os[i - 1] + RecLen(i - 1))),
                      <<>>, [i \in 1..n |-> i])
      Rec(i) == LET f == p.text[i] IN
        <<Entry(i) - text, NameOf(i), PcOf(f.pcs[1]), PcOf(f.pcs[2]), PcOf(f.pcs[3]), Len(f.pcdata),
          UnitOf(f.unit), Len(f.fds)>>
          \o [k \in 1..Len(f.pcdata) |-> PcOf(f.pcdata[k])]
          \o [k \in 1..Len(f.fds) |-> IF f.fds[k] = "" THEN Nil ELSE fdo.at[f.fds[k]]]
      functab == FoldLeft(LAMBDA t, i : PadTo(t, rec[i]) \o Rec(i),
                          FlattenSeq([i \in 1..n |-> <<Entry(i) - text, rec[i]>>]) \o <<End(n) - text>>,
                          [i \in 1..n |-> i])
      \* the other sections
      heads == [text |-> text, types |-> types, rodata |-> rodata, etypes |-> pclntab, plt |-> plt]
      fns == [i \in 1..n |-> [name |-> p.text[i].name, entry |-> Entry(i), end |-> End(i),
                              funcOff |-> rec[i], nameOff |-> NameOf(i)]]
      env0 == heads @@ tx.at @@ pl.at @@ ro.at @@ ty.at @@ ot.at @@ it.at @@ nm.at
      gofuncLen == fdo.end
      Padded(t) == PadTo(t, Even(Len(t)))
      tabs0 == <<Padded(names), Padded(cutab), Padded(FlattenSeq(files)),
                 Padded(<<0>> \o FlattenSeq(pcs)), Padded(functab)>>
      TabOff(k) == OffsetIn(tabs0, k, PcHeaderSize)
      gofunc == TabOff(6)
      ffun == Findfunc(fns)
      taboff == <<TabOff(1), TabOff(2), TabOff(3), TabOff(4), TabOff(5), gofunc, gofunc + gofuncLen>>
      pclnLen == gofunc + gofuncLen + Len(ffun)
      module == Even(pclntab + pclnLen)
      mo == Lay(p.module, module)
      da == Lay(p.data, mo.end)
      bs == Lay(p.bss, da.end)
      env == env0 @@ da.at @@ bs.at @@ [gofunc |-> pclntab + gofunc, ebss |-> bs.end]
               @@ [T1flds |-> env0["T1"] + 14, T2meths |-> env0["T2"] + 10]
      Cell(out, at, x) ==
        CASE x.k = "num" -> <<x.n>>
          [] x.k = "ptr" -> Ptr(env[x.s])
          [] x.k = "types" -> <<env[x.s] - types>>
          [] x.k = "text" -> <<env[x.s] - text>>
          [] x.k = "rodata" -> <<env[x.s] - rodata>>
          [] x.k = "name" -> <<NameOf(IndexOf([i \in 1..n |-> p.text[i].id], x.s))>>
          [] x.k = "wide" -> <<(env[x.s] - (at + Len(out) + 1 + x.n)) % MCSpan(4)>>
          [] x.k = "short" -> <<(env[x.s] - (at + Len(out) + 1 + x.n)) % MCSpan(1)>>
      Cells(s, at) == FoldLeft(LAMBDA out, x : out \o Cell(out, at, x), <<>>, s.items)
      Body(syms, pos, fill) ==
        FlattenSeq([i \in 1..Len(syms) |->
          LET c == Cells(syms[i], pos[syms[i].id]) IN IF Len(c) % 2 = 0 THEN c ELSE Append(c, fill)])
      gf == FoldLeft(LAMBDA t, s : PadTo(t, fdo.at[s]) \o Cells(p.fd[s], 0), <<>>,
                     ClassOf(8) \o ClassOf(4) \o ClassOf(1))
      pcdat == <<80, n, Len(p.files), taboff[1], taboff[2], taboff[3], taboff[4], taboff[5]>>
                 \o FlattenSeq(tabs0) \o gf \o ffun
      S0(name, addr, data, nobits, size) ==
        [name |-> name, addr |-> addr, off |-> addr - Base, size |-> size, nobits |-> nobits, data |-> data]
      Sc(name, addr, data) == S0(name, addr, data, FALSE, Len(data))
      order == <<Sc(".text", text, <<90, 91>> \o Body(p.text, tx.at, INT3) \o <<92>>),
                 Sc(".plt", plt, Body(p.plt, pl.at, INT3)),
                 Sc(".rodata", rodata, Body(p.rodata, ro.at, 0)),
                 Sc(".go.type", types, <<0, 0>> \o Body(p.links, ty.at, 0) \o Body(p.others, ot.at, 0)
                                         \o Body(p.itabs, it.at, 0) \o Body(p.names, nm.at, 0)),
                 Sc(".gopclntab", pclntab, pcdat),
                 Sc(".go.module", module, Body(p.module, mo.at, 0)),
                 Sc(".data", mo.end, Body(p.data, da.at, 0)),
                 S0(".bss", da.end, <<>>, TRUE, bs.end - da.end)>>
      FileOf == FoldLeft(LAMBDA f, s : PadTo(f, s.off) \o s.data, <<p.shnum, Len(p.text), 0, 0>>,
                         SubSeq(order, 1, 7)) \o <<0, 60, 61, 62>>
  IN [file |-> FileOf, order |-> order, funcs |-> fns,
      pcln |-> [addr |-> pclntab, len |-> pclnLen, nfiles |-> Len(p.files), taboff |-> taboff, data |-> pcdat],
      mod |-> [text |-> text, types |-> types, etypes |-> pclntab, typedesclen |-> ty.end - types,
               itaboffset |-> ot.end - types, itabsize |-> it.end - ot.end, rodata |-> rodata,
               gofunc |-> pclntab + gofunc, findfunctab |-> pclntab + gofunc + gofuncLen,
               epclntab |-> pclntab + pclnLen, minpc |-> fns[1].entry, maxpc |-> tx.end]]
(***************************************************************************)
(* The programs.  Name cell 40 stands for ".func"; 41 to 49 are numbers.   *)
(***************************************************************************)
MCNumbered == {40}
MCDigits == 41..49
Bss(id, n) == [id |-> id, items |-> Nums(Zeros(n))]
Sym(id, items) == [id |-> id, items |-> items]
Func(id, name, items, pcs, pcdata, fds, unit) ==
  [id |-> id, name |-> name, items |-> items, pcs |-> pcs, pcdata |-> pcdata, fds |-> fds, unit |-> unit]

SP1 == <<2, 3, 0>>  SP2 == <<4, 1, 2, 5, 0>>  PF == <<1, 6, 0>>  LN1 == <<5, 2, 1, 1, 0>>  LN2 == <<7, 4, 0>>

\* An assembly function, a function with a closure, the closure, a method and its wrapper.
Asm   == Func("asm", <<30, 31>>, Nums(<<10, 11>>) \o Load("vbss", 5) \o Num(12), <<SP1, PF, LN1>>, <<>>,
              <<"aargs">>, 1)
Main  == Func("main", <<32, 33>>, Num(13) \o Call("clo") \o Load("hello", 6) \o Jump("main") \o Call("got")
                \o Nums(<<14, 15>>),
              <<SP2, PF, LN2>>, <<LN1, <<>>, SP1>>, <<"margs", "mlocals", "mobjs", "mtree">>, 2)
Clo   == Func("clo", <<32, 33, 40, 41>>, Nums(<<16, 17>>) \o Load("vptr", 7) \o Load("wbss", 8) \o Num(18),
              <<SP1, PF, LN2>>, <<SP2>>, <<"margs", "clocals">>, 2)
Meth  == Func("meth", <<34>>, Num(19) \o Load("T1", 9) \o Call("asm") \o Nums(<<20, 21, 22>>),
              <<SP1, PF, LN1>>, <<>>, <<"margs">>, 2)
Wrap  == Func("wrap", <<35, 36>>, Num(23) \o Jump("meth") \o Nums(<<24, 25>>),
              <<SP2, PF, LN1>>, <<>>, <<"wargs", "", "", "", "", "", "", "winfo">>, 1)
Spare == Func("spare", <<37, 38>>, Nums(<<26, 27, 28, 29, 26>>), <<<<9, 1, 0>>, PF, LN1>>, <<>>, <<"sargs">>, 1)

FdTable ==
  [aargs |-> [class |-> 8, items |-> Nums(<<1, 0, 3, 0>>)],
   mobjs |-> [class |-> 8, items |-> Nums(<<1, 0, 70, 71, 72>>) \o GcOff("gcbits")],
   margs |-> [class |-> 4, items |-> Nums(<<2, 5, 6>>)],
   mlocals |-> [class |-> 4, items |-> Nums(<<3, 7, 8>>)],
   clocals |-> [class |-> 4, items |-> Nums(<<4, 9>>)],
   mtree |-> [class |-> 4, items |-> Num(11) \o NameOffOf("clo") \o Nums(<<12, 13>>)],
   wargs |-> [class |-> 4, items |-> Nums(<<5, 9, 9>>)],
   winfo |-> [class |-> 4, items |-> TextOff("meth")],
   sargs |-> [class |-> 4, items |-> Nums(<<6, 1, 2>>)]]

\* A struct type with a method, an interface, and a pointer type only the itab knows.
T1 == Sym("T1", Nums(<<1, KStruct>>) \o OffOf("nT1") \o OffOf("T3") \o PtrTo("npkg") \o PtrTo("T1flds")
            \o Nums(<<1, 0>>) \o OffOf("npkg") \o Nums(<<1, 8, 0>>)
            \o PtrTo("nfld") \o PtrTo("T2")
            \o OffOf("nmeth") \o OffOf("T2") \o TextOff("meth") \o TextOff("wrap"))
T2 == Sym("T2", Nums(<<0, KIface>>) \o OffOf("nT2") \o Num(0) \o PtrTo("npkg") \o PtrTo("T2meths") \o Nums(<<1, 0>>)
            \o OffOf("nmeth") \o Num(0))
T3 == Sym("T3", Nums(<<0, KPtr>>) \o OffOf("nT3") \o Num(0) \o PtrTo("T1"))
T5 == Sym("T5", Nums(<<0, KFunc>>) \o OffOf("nT5") \o Nums(<<0, 1, 0>>) \o PtrTo("T1"))
T4 == Sym("T4", Nums(<<0, KPtr>>) \o OffOf("nT4") \o OffOf("T3") \o PtrTo("T2"))
Itab == Sym("itab", PtrTo("T2") \o PtrTo("T4") \o Nums(<<66, 0>>) \o PtrTo("meth"))
NameSyms == <<Sym("npkg", Nums(<<0, 2, 50, 51>>)), Sym("nT1", Nums(<<0, 2, 52, 53>>)),
              Sym("nT2", Nums(<<0, 2, 54, 55>>)), Sym("nT3", Nums(<<0, 2, 56, 57>>)),
              Sym("nT4", Nums(<<0, 2, 58, 59>>)), Sym("nT5", Nums(<<0, 2, 60, 61>>)),
              Sym("nmeth", Nums(<<4, 2, 62, 63>>) \o OffOf("npkg")), Sym("nfld", Nums(<<0, 2, 64, 65>>))>>
BaseProg ==
  [text |-> <<Asm, Main, Clo, Spare, Meth, Wrap>>,
   plt |-> <<Sym("got", Call("vptr") \o Nums(<<30, 31>>))>>,
   rodata |-> <<Sym("unused", Nums(<<91, 92, 93, 94>>)), Sym("hello", Nums(<<101, 102, 103, 104, 105, 106>>)), Sym("world", Nums(<<111, 112, 113, 114>>)),
                Sym("gcbits", Nums(<<121, 122, 123, 124>>))>>,
   links |-> <<T1, T5, T2, T3>>, others |-> <<T4>>, itabs |-> <<Itab>>, names |-> NameSyms,
   module |-> <<Sym("mod", PtrTo("text") \o PtrTo("types") \o PtrTo("etypes") \o PtrTo("gofunc")
                             \o PtrTo("vptr") \o PtrTo("ebss"))>>,
   data |-> <<Sym("vstr", PtrTo("hello") \o Nums(<<6, 7>>)), Sym("vptr", PtrTo("meth") \o PtrTo("world")),
              Sym("vtyp", PtrTo("T1") \o PtrTo("wbss") \o Nums(<<8, 9, 10, 11>>))>>,
   bss |-> <<Bss("vbss", 2), Bss("wbss", 4)>>,
   fd |-> FdTable, files |-> <<<<73, 74>>, <<75>>>>, units |-> <<<<1>>, <<2, 1>>>>, shnum |-> 8]

Renamed(f, name) == [f EXCEPT !.name = name]
NewFunc == Func("fresh", <<39, 30>>, Num(41) \o Call("main") \o Nums(<<42, 43, 44>>), <<SP1, PF, <<9, 2, 0>>>>,
                <<>>, <<"sargs", "">>, 2)

Programs ==
  [base |-> BaseProg,
   \* the same program, moved
   reordered |-> [BaseProg EXCEPT !.text = <<Asm, Clo, Meth, Main, Wrap, Spare>>],
   deleted |-> [BaseProg EXCEPT !.text = <<Asm, Main, Clo, Meth, Wrap>>],
   variable |-> [BaseProg EXCEPT !.bss = <<Bss("vbss", 2), Bss("nbss", 2), Bss("wbss", 4)>>],
   strings |-> [BaseProg EXCEPT !.rodata = Tail(@)],
   fewer |-> [BaseProg EXCEPT !.links = <<T1, T2, T3>>, !.names = RemoveAt(@, 6)],
   shuffled |-> [BaseProg EXCEPT !.text = <<Asm, Clo, Wrap, Main, Meth>>, !.rodata = Tail(@),
                                 !.bss = <<Bss("vbss", 2), Bss("nbss", 2), Bss("wbss", 4)>>,
                                 !.links = <<T1, T2, T3>>, !.names = RemoveAt(@, 6)],
   \* changed
   inserted |-> [BaseProg EXCEPT !.text = <<Asm, NewFunc, Main, Clo, Spare, Meth, Wrap>>],
   renamed |-> [BaseProg EXCEPT !.text = <<Asm, Main, Renamed(Clo, <<32, 33, 40, 42>>), Renamed(Spare, <<39>>), Meth, Wrap>>],
   grown |-> [BaseProg EXCEPT !.text[2].items = @ \o Nums(<<14, 15, 16>>), !.text[2].pcdata = <<LN1, SP2, SP1>>,
                              !.data = <<Sym("vnew", Nums(<<12, 13, 14, 15>>))>> \o @]]

\* At and beyond the limits of the layout's reader: a longer name, a larger file.
LongNamed == [BaseProg EXCEPT !.text = Append(@, Renamed(NewFunc, [i \in 1..(MaxFuncName + 1) |-> 39]))]
OfSize(b, n) == [b EXCEPT !.file = @ \o Zeros(n - Len(@))]

\* Two strings that became one.
Merged == [BaseProg EXCEPT !.data[2].items = PtrTo("meth") \o PtrTo("hello")]

Stripped(b) == [b EXCEPT !.order = SelectSeq(@, LAMBDA s : s.name # ".gopclntab")]

Update(old, new, moved) == [old |-> old, new |-> new, moved |-> moved]
MCPairs ==
  LET bin == [base |-> link(Programs.base), reordered |-> link(Programs.reordered),
              deleted |-> link(Programs.deleted), variable |-> link(Programs.variable),
              strings |-> link(Programs.strings), fewer |-> link(Programs.fewer),
              shuffled |-> link(Programs.shuffled),
              inserted |-> link(Programs.inserted), renamed |-> link(Programs.renamed),
              grown |-> link(Programs.grown)]
      same == {"base", "reordered", "deleted", "variable", "strings", "fewer", "shuffled"}
  IN {Update(bin[n], bin[n], TRUE) : n \in DOMAIN bin} \cup {Update(bin.base, bin[n], TRUE) : n \in same}
       \cup {Update(bin[c[1]], bin[c[2]], FALSE) :
               c \in {c \in (DOMAIN bin) \X (DOMAIN bin) : c[1] # c[2] /\ ~(c[1] = "base" /\ c[2] \in same)}}
       \cup {Update(bin.base, b, FALSE) : b \in {link(LongNamed), OfSize(bin.base, MaxPatchSize),
                                               OfSize(bin.base, MaxPatchSize + 1)}}
       \cup {Update(bin.base, Stripped(bin.base), FALSE)}

MCMergedPairs == {Update(link(Programs.base), link(Merged), FALSE)}
NoMaps == {}

MCSectNames == <<".bss", ".data", ".go.module", ".go.type", ".gopclntab", ".plt", ".rodata", ".text">>

(***************************************************************************)
(* The content maps of ShardedMap: sections of four blocks, edited once.   *)
(***************************************************************************)
Edits(s) ==
  {s} \cup {InsertAt(s, k, v) : k \in 1..Len(s), v \in {0, 1}}
      \cup {RemoveAt(s, k) : k \in 1..Len(s)} \cup {[s EXCEPT ![k] = 1 - @] : k \in 1..Len(s)}
Olds == {s \in [1..8 -> {0, 1}] : s[1] = 0 /\ s[3] = 1}
MCMapJobs ==
  UNION {{[old |-> o, new |-> n, block |-> 2, tol |-> t, align |-> a] :
            n \in Edits(o), t \in {0, 1}, a \in {<<1, 1, 1, 1>>, <<1, 2, 1, 2>>}} : o \in Olds}
=============================================================================
