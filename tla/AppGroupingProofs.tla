------------------------- MODULE AppGroupingProofs -------------------------
(***************************************************************************)
(* Proofs about AppGrouping, for any namespaces, names, listings and       *)
(* configurations, and however much room append leaves in an array.        *)
(*                                                                         *)
(* The inductive invariant relates the slices of every vhost to what is    *)
(* listed for it (Faithful), carries the same over to what is stored, and  *)
(* says of the rendering data that it is the union of what is stored.      *)
(***************************************************************************)
EXTENDS AppGrouping, SequenceTheorems, FiniteSetTheorems, TLAPS

Host == (Namespaces \X Nat \X Nat) \cup {<<>>}
SlicesOf(mem) == {s \in [array : 1 .. Len(mem), len : Nat] : s.len <= Len(mem[s.array])}

TypeInv ==
    /\ config \in Configs
    /\ listing \in [Namespaces -> Seq(AppType)]
    /\ synced \subseteq Namespaces
    /\ IF ns = NoNamespace THEN synced = Namespaces ELSE ns \in Namespaces \ synced
    /\ \A n \in Namespaces \ (synced \cup {ns}) : listing[n] = <<>>
    /\ merged \subseteq Namespaces /\ (merged # {} => ns = NoNamespace)
    /\ arrays \in Seq(Seq(Host)) /\ DOMAIN stored = Namespaces

GoodApp(mem, app) ==
    /\ app.hosts \in SlicesOf(mem) /\ app.hosts.len > 0
    /\ \A g \in DOMAIN app.groups :
          app.groups[g] \in SlicesOf(mem) /\ app.groups[g].len > 0

SlicesInv == \A v \in DOMAIN apps : v \in Vhosts /\ GoodApp(arrays, apps[v])

\* What the slices of an app hold.
View(mem, app) ==
    [hosts  |-> Elements(mem, app.hosts),
     groups |-> [g \in DOMAIN app.groups |-> Elements(mem, app.groups[g])]]

\* An app has all the hosts of its vhost.  It has a group for each part of them,
\* with the hosts of that part as long as there are two apps, and with all of the
\* hosts if there is one app or no routing tag.
Holds(app, all, parts, count, n, tagged) ==
    /\ app.hosts \in Seq(Host) /\ app.hosts # <<>>
    /\ ToSet(app.hosts) = all /\ IsInjective(app.hosts)
    /\ DOMAIN app.groups = DOMAIN parts
    /\ \A g \in DOMAIN app.groups : app.groups[g] \in Seq(Host)
    /\ count <= 2 => \A g \in DOMAIN app.groups : ToSet(app.groups[g]) = parts[g]
    /\ count = 1 \/ n \notin tagged => \A g \in DOMAIN app.groups : app.groups[g] = app.hosts

Parts(n, v) ==
    [g \in {g \in Names : OfGroup(n, v, g) # {}} |-> HostsListed(n, OfGroup(n, v, g))]

Faithful(n, v, app) ==
    Holds(app, HostsListed(n, Of(n, v)), Parts(n, v), Cardinality(Of(n, v)),
          n, config.routingTag)

AppsInv ==
    \A n \in Namespaces : n = ns =>
        /\ DOMAIN apps = {v \in Vhosts : Of(n, v) # {}}
        /\ \A v \in DOMAIN apps : Faithful(n, v, View(arrays, apps[v]))

StoredInv ==
    \A n \in Namespaces :
        /\ n \notin synced => DOMAIN stored[n] = {}
        /\ n \in synced => DOMAIN stored[n] = {v \in Vhosts : Of(n, v) # {}}
        /\ \A v \in DOMAIN stored[n] : Faithful(n, v, stored[n][v])

\* The namespaces merged so far that serve a vhost, or one of its groups.
Sources(v) == merged \cap ServedBy(v)
GroupSources(v, g) == {n \in Sources(v) : g \in DOMAIN stored[n][v].groups}

MergedApp(v, app) ==
    /\ app = [hosts |-> app.hosts, groups |-> app.groups, tagged |-> app.tagged]
    /\ app.hosts \in Seq(Host)
    /\ ToSet(app.hosts) = UNION {ToSet(stored[n][v].hosts) : n \in Sources(v)}
    /\ DOMAIN app.groups = {g \in Names : GroupSources(v, g) # {}}
    /\ \A g \in DOMAIN app.groups :
          /\ app.groups[g] \in Seq(Host)
          /\ ToSet(app.groups[g]) = UNION {ToSet(stored[n][v].groups[g]) : n \in GroupSources(v, g)}
    /\ \E n \in Sources(v) : app.tagged = (n \in config.routingTag)

MergedInv ==
    /\ DOMAIN allApps = {v \in Vhosts : Sources(v) # {}}
    /\ \A v \in DOMAIN allApps : MergedApp(v, allApps[v])

GroupingInv == TypeInv /\ SlicesInv /\ AppsInv /\ StoredInv /\ MergedInv
----------------------------------------------------------------------------
(* Slices.                                                                 *)

\* What a slice holds is a sequence of the slice's length.
LEMMA ElementsOf ==
    ASSUME NEW S, NEW mem \in Seq(Seq(S)), NEW s \in SlicesOf(mem)
    PROVE  /\ Elements(mem, s) \in Seq(S) /\ Len(Elements(mem, s)) = s.len
           /\ \A i \in 1 .. s.len : Elements(mem, s)[i] = mem[s.array][i]
<1>1. /\ s.array \in 1 .. Len(mem) /\ s.len \in Nat /\ mem[s.array] \in Seq(S)
      /\ s.len <= Len(mem[s.array])
  BY ElementOfSeq DEF SlicesOf
<1>2. \A i \in 1 .. s.len : mem[s.array][i] \in S
  BY <1>1
<1>3. /\ SubSeq(mem[s.array], 1, s.len) \in Seq(S)
      /\ Len(SubSeq(mem[s.array], 1, s.len)) = IF 1 <= s.len THEN s.len - 1 + 1 ELSE 0
      /\ \A i \in 1 .. s.len - 1 + 1 :
            SubSeq(mem[s.array], 1, s.len)[i] = mem[s.array][1 + i - 1]
  BY <1>1, <1>2, SubSeqProperties
<1> QED
  BY <1>1, <1>3 DEF Elements

\* A slice holds the same in two memories that agree on its elements.
LEMMA ElementsKept ==
    ASSUME NEW S, NEW mem \in Seq(Seq(S)), NEW mem2 \in Seq(Seq(S)), NEW s \in SlicesOf(mem),
           s.array <= Len(mem2), s.len <= Len(mem2[s.array]),
           \A i \in 1 .. s.len : mem2[s.array][i] = mem[s.array][i]
    PROVE  s \in SlicesOf(mem2) /\ Elements(mem2, s) = Elements(mem, s)
<1>1. s \in SlicesOf(mem2)
  BY DEF SlicesOf
<1>2. /\ Elements(mem, s) \in Seq(S) /\ Len(Elements(mem, s)) = s.len
      /\ Elements(mem2, s) \in Seq(S) /\ Len(Elements(mem2, s)) = s.len
      /\ \A i \in 1 .. s.len : Elements(mem2, s)[i] = Elements(mem, s)[i]
  BY <1>1, ElementsOf
<1> QED
  BY <1>1, <1>2, SeqEqual

\* Slices hold the same when there are new arrays.
LEMMA NewArray ==
    ASSUME NEW S, NEW mem \in Seq(Seq(S)), NEW mem2 \in Seq(Seq(S)), Len(mem) <= Len(mem2),
           \A i \in 1 .. Len(mem) : mem2[i] = mem[i]
    PROVE  \A s \in SlicesOf(mem) : s \in SlicesOf(mem2) /\ Elements(mem2, s) = Elements(mem, s)
<1> TAKE s \in SlicesOf(mem)
<1>1. s.array \in 1 .. Len(mem) /\ s.len <= Len(mem[s.array])
  BY DEF SlicesOf
<1>2. /\ mem2[s.array] = mem[s.array] /\ s.array <= Len(mem2)
      /\ s.len <= Len(mem2[s.array])
      /\ \A i \in 1 .. s.len : mem2[s.array][i] = mem[s.array][i]
  BY <1>1
<1> QED
  BY <1>2, ElementsKept

\* append returns a slice with the new elements behind the old ones.  Slices of
\* other arrays keep what they hold, and so do those that end where the slice
\* that was appended to ends, or before.
Appended(S, mem, slice, more, r) ==
    /\ r.arrays \in Seq(Seq(S)) /\ Len(mem) <= Len(r.arrays)
    /\ r.slice \in SlicesOf(r.arrays) /\ r.slice.len = slice.len + Len(more)
    /\ Elements(r.arrays, r.slice) = Elements(mem, slice) \o more
    /\ \A s \in SlicesOf(mem) : s.array # slice.array \/ s.len <= slice.len =>
          s \in SlicesOf(r.arrays) /\ Elements(r.arrays, s) = Elements(mem, s)
    /\ IF r.slice.len <= Len(mem[slice.array])
       THEN r.slice.array = slice.array /\ Len(r.arrays[slice.array]) = Len(mem[slice.array])
       ELSE r.slice.array \notin 1 .. Len(mem) /\ r.arrays[slice.array] = mem[slice.array]

\* append does what Appended says.
LEMMA AppendToCorrect ==
    ASSUME NEW S, NEW mem \in Seq(Seq(S)), NEW slice \in SlicesOf(mem), NEW more \in Seq(S), NEW r
    PROVE  r = AppendTo(mem, slice, more) => Appended(S, mem, slice, more, r)
<1>0. HAVE r = AppendTo(mem, slice, more)
<1>a. PICK array : array = mem[slice.array]
  OBVIOUS
<1>b. PICK joined : joined = Elements(mem, slice) \o more
  OBVIOUS
<1>c. PICK len : len = slice.len + Len(more)
  OBVIOUS
<1>d. PICK rest : rest = SubSeq(array, len + 1, Len(array))
  OBVIOUS
<1>1. /\ slice.array \in 1 .. Len(mem) /\ slice.len \in Nat /\ array \in Seq(S)
      /\ slice.len <= Len(array)
      /\ len \in Nat /\ slice.len <= len /\ Len(array) \in Nat
  BY <1>a, <1>c, ElementOfSeq DEF SlicesOf
<1>2. /\ joined \in Seq(S) /\ Len(joined) = len
      /\ \A i \in 1 .. slice.len : joined[i] = array[i]
  <2>1. /\ Elements(mem, slice) \in Seq(S) /\ Len(Elements(mem, slice)) = slice.len
        /\ \A i \in 1 .. slice.len : Elements(mem, slice)[i] = array[i]
    BY <1>a, ElementsOf
  <2>2. /\ joined \in Seq(S) /\ Len(joined) = Len(Elements(mem, slice)) + Len(more)
        /\ \A i \in 1 .. Len(Elements(mem, slice)) + Len(more) : joined[i] =
              IF i <= Len(Elements(mem, slice)) THEN Elements(mem, slice)[i]
              ELSE more[i - Len(Elements(mem, slice))]
    BY <1>b, <2>1, ConcatProperties
  <2> QED
    BY <1>1, <1>c, <2>1, <2>2
<1>3. CASE len <= Len(array)
  <2>1. rest \in Seq(S) /\ Len(rest) = Len(array) - len
    <3>1. \A i \in len + 1 .. Len(array) : array[i] \in S
      BY <1>1
    <3>2. /\ rest \in Seq(S)
          /\ Len(rest) = IF len + 1 <= Len(array) THEN Len(array) - (len + 1) + 1 ELSE 0
      BY <1>1, <1>d, <3>1, SubSeqProperties
    <3> QED
      BY <1>1, <1>3, <3>2
  <2>a. PICK full : full = joined \o rest
    OBVIOUS
  <2>2. /\ full \in Seq(S) /\ Len(full) = Len(array)
        /\ \A i \in 1 .. len : full[i] = joined[i]
    <3>1. /\ full \in Seq(S) /\ Len(full) = Len(joined) + Len(rest)
          /\ \A i \in 1 .. Len(joined) + Len(rest) :
                full[i] = IF i <= Len(joined) THEN joined[i] ELSE rest[i - Len(joined)]
      BY <1>2, <2>1, <2>a, ConcatProperties
    <3>2. Len(full) = Len(array)
      BY <1>1, <1>2, <2>1, <3>1
    <3>3. ASSUME NEW i \in 1 .. len
          PROVE  full[i] = joined[i]
      <4>1. i \in 1 .. Len(joined) + Len(rest) /\ i <= Len(joined)
        BY <1>1, <1>2, <1>3, <2>1
      <4> QED
        BY <3>1, <4>1
    <3> QED
      BY <3>1, <3>2, <3>3
  <2>3. r.arrays = [mem EXCEPT ![slice.array] = full] /\ r.slice = [slice EXCEPT !.len = len]
    BY <1>0, <1>a, <1>b, <1>c, <1>d, <1>3, <2>a DEF AppendTo
  <2>4. /\ r.arrays \in Seq(Seq(S)) /\ Len(r.arrays) = Len(mem) /\ r.arrays[slice.array] = full
        /\ \A i \in 1 .. Len(mem) : i # slice.array => r.arrays[i] = mem[i]
    BY <1>1, <2>2, <2>3, ExceptSeq
  <2>5. /\ r.slice.array = slice.array /\ r.slice.len = len
        /\ r.slice \in [array : 1 .. Len(mem), len : Nat]
    BY <1>1, <2>3 DEF SlicesOf
  <2>6. r.slice \in SlicesOf(r.arrays)
    BY <1>3, <2>2, <2>4, <2>5 DEF SlicesOf
  <2>7. Elements(r.arrays, r.slice) = joined
    <3>1. /\ Elements(r.arrays, r.slice) \in Seq(S) /\ Len(Elements(r.arrays, r.slice)) = len
          /\ \A i \in 1 .. len : Elements(r.arrays, r.slice)[i] = full[i]
      BY <2>4, <2>5, <2>6, ElementsOf
    <3> QED
      BY <1>2, <2>2, <3>1, SeqEqual
  <2>8. ASSUME NEW s \in SlicesOf(mem), s.array # slice.array \/ s.len <= slice.len
        PROVE  s \in SlicesOf(r.arrays) /\ Elements(r.arrays, s) = Elements(mem, s)
    <3>1. /\ s.array \in 1 .. Len(mem) /\ s.len \in Nat /\ s.len <= Len(mem[s.array])
      BY DEF SlicesOf
    <3>2. /\ s.array <= Len(r.arrays) /\ s.len <= Len(r.arrays[s.array])
          /\ \A i \in 1 .. s.len : r.arrays[s.array][i] = mem[s.array][i]
      <4>1. CASE s.array # slice.array
        BY <2>4, <3>1, <4>1
      <4>2. CASE s.array = slice.array /\ s.len <= slice.len
        <5>1. ASSUME NEW i \in 1 .. s.len
              PROVE  full[i] = array[i]
          <6>1. i \in 1 .. slice.len /\ i \in 1 .. len
            BY <1>1, <3>1, <4>2
          <6> QED
            BY <1>2, <2>2, <6>1
        <5> QED
          BY <1>a, <2>2, <2>4, <3>1, <4>2, <5>1
      <4> QED
        BY <2>8, <4>1, <4>2
    <3> QED
      BY <2>4, <3>2, ElementsKept
  <2>9. Len(mem) <= Len(r.arrays)
    BY <2>4, LenProperties
  <2> QED
    BY <1>3, <1>a, <1>b, <1>c, <2>2, <2>4, <2>5, <2>6, <2>7, <2>8, <2>9 DEF Appended
<1>4. CASE ~(len <= Len(array))
  <2>1. r.arrays = Append(mem, joined) /\ r.slice = [array |-> Len(mem) + 1, len |-> len]
    BY <1>0, <1>a, <1>b, <1>c, <1>4 DEF AppendTo
  <2>2. /\ r.arrays \in Seq(Seq(S)) /\ Len(r.arrays) = Len(mem) + 1
        /\ r.arrays[Len(mem) + 1] = joined
        /\ \A i \in 1 .. Len(mem) : r.arrays[i] = mem[i]
    BY <1>2, <2>1
  <2>3. /\ r.slice.array = Len(mem) + 1 /\ r.slice.len = len
        /\ r.slice \in [array : 1 .. Len(r.arrays), len : Nat]
    BY <1>1, <2>1, <2>2
  <2>4. \A s \in SlicesOf(mem) : /\ s \in SlicesOf(r.arrays)
                                 /\ Elements(r.arrays, s) = Elements(mem, s)
    <3>1. Len(mem) <= Len(r.arrays)
      BY <2>2
    <3> QED
      BY <2>2, <3>1, NewArray
  <2>5. r.slice \in SlicesOf(r.arrays)
    BY <1>1, <1>2, <2>2, <2>3 DEF SlicesOf
  <2>6. Elements(r.arrays, r.slice) = joined
    <3>1. /\ Elements(r.arrays, r.slice) \in Seq(S) /\ Len(Elements(r.arrays, r.slice)) = len
          /\ \A i \in 1 .. len : Elements(r.arrays, r.slice)[i] = joined[i]
      BY <2>2, <2>3, <2>5, ElementsOf
    <3> QED
      BY <1>2, <3>1, SeqEqual
  <2> QED
    <3>1. r.slice.array \notin 1 .. Len(mem) /\ r.arrays[slice.array] = mem[slice.array]
      <4>1. Len(mem) \in Nat
        BY LenProperties
      <4>2. r.slice.array \notin 1 .. Len(mem)
        <5>1. Len(mem) + 1 \notin 1 .. Len(mem)
          BY <4>1
        <5> QED
          BY <2>3, <5>1
      <4>3. r.arrays[slice.array] = mem[slice.array]
        BY <1>1, <2>2
      <4> QED
        BY <4>2, <4>3
    <3>2. ~(r.slice.len <= Len(mem[slice.array]))
      BY <1>4, <1>a, <2>3
    <3>3. Len(mem) <= Len(r.arrays)
      BY <2>2, LenProperties
    <3> QED
      BY <1>b, <1>c, <2>2, <2>3, <2>4, <2>5, <2>6, <3>1, <3>2, <3>3 DEF Appended
<1> QED
  BY <1>1, <1>3, <1>4

\* What appending the hosts of a vhost to those of another app of it leaves.
Prepended(S, mem, hosts, old, inApp) ==
    /\ inApp.arrays \in Seq(Seq(S)) /\ inApp.slice \in SlicesOf(inApp.arrays)
    /\ inApp.slice.len >= hosts.len
    /\ Elements(inApp.arrays, inApp.slice) = Elements(mem, hosts) \o Elements(mem, old)
    /\ \A s \in SlicesOf(mem) : s.array # hosts.array =>
          s \in SlicesOf(inApp.arrays) /\ Elements(inApp.arrays, s) = Elements(mem, s)

\* An app of a vhost that opens a group: the group keeps the app's own hosts,
\* whatever is appended to them for the vhost.
LEMMA NewGroup ==
    ASSUME NEW S, NEW mem \in Seq(Seq(S)), NEW hosts \in SlicesOf(mem),
           NEW oldHosts \in SlicesOf(mem), NEW inApp
    PROVE  inApp = AppendTo(mem, hosts, Elements(mem, oldHosts)) =>
           /\ Prepended(S, mem, hosts, oldHosts, inApp)
           /\ hosts \in SlicesOf(inApp.arrays)
           /\ Elements(inApp.arrays, hosts) = Elements(mem, hosts)
<1>0. HAVE inApp = AppendTo(mem, hosts, Elements(mem, oldHosts))
<1>a. PICK more : more = Elements(mem, oldHosts)
  OBVIOUS
<1>1. more \in Seq(S) /\ Len(more) \in Nat /\ hosts.len \in Nat
  BY <1>a, ElementsOf, LenProperties DEF SlicesOf
<1>2. inApp = AppendTo(mem, hosts, more)
  BY <1>0, <1>a
<1>3. /\ inApp.arrays \in Seq(Seq(S)) /\ Len(mem) <= Len(inApp.arrays)
      /\ inApp.slice \in SlicesOf(inApp.arrays) /\ inApp.slice.len = hosts.len + Len(more)
      /\ Elements(inApp.arrays, inApp.slice) = Elements(mem, hosts) \o more
      /\ \A s \in SlicesOf(mem) : s.array # hosts.array \/ s.len <= hosts.len =>
            s \in SlicesOf(inApp.arrays) /\ Elements(inApp.arrays, s) = Elements(mem, s)
  <2>1. Appended(S, mem, hosts, more, inApp)
    BY <1>1, <1>2, AppendToCorrect
  <2> QED
    BY <2>1 DEF Appended
<1>4. hosts \in SlicesOf(inApp.arrays) /\ Elements(inApp.arrays, hosts) = Elements(mem, hosts)
  BY <1>1, <1>3
<1>5. inApp.slice.len >= hosts.len
  BY <1>1, <1>3
<1> QED
  BY <1>3, <1>4, <1>5, <1>a DEF Prepended

\* What appending them to those of a group before leaves.
Joined(S, mem, hosts, oldHosts, oldGroup, inGroup, inApp) ==
    /\ Prepended(S, mem, hosts, oldHosts, inApp)
    /\ inGroup.slice \in SlicesOf(inApp.arrays) /\ inGroup.slice.len >= hosts.len
    /\ Elements(mem, oldGroup) = Elements(mem, oldHosts) =>
          Elements(inApp.arrays, inGroup.slice) = Elements(mem, hosts) \o Elements(mem, oldHosts)

\* Another app of a group: what is appended for the vhost may overwrite what was
\* appended for the group.  If both are the same, the group has all of it.
LEMMA JoinGroup ==
    ASSUME NEW S, NEW mem \in Seq(Seq(S)), NEW hosts \in SlicesOf(mem),
           NEW oldHosts \in SlicesOf(mem), NEW oldGroup \in SlicesOf(mem),
           hosts.array # oldHosts.array,
           NEW inGroup, NEW inApp
    PROVE  inGroup = AppendTo(mem, hosts, Elements(mem, oldGroup))
           /\ inApp = AppendTo(inGroup.arrays, hosts, Elements(inGroup.arrays, oldHosts)) =>
           Joined(S, mem, hosts, oldHosts, oldGroup, inGroup, inApp)
<1>0. HAVE inGroup = AppendTo(mem, hosts, Elements(mem, oldGroup))
           /\ inApp = AppendTo(inGroup.arrays, hosts, Elements(inGroup.arrays, oldHosts))
<1>a. PICK more : more = Elements(mem, oldGroup)
  OBVIOUS
<1>b. PICK more2 : more2 = Elements(mem, oldHosts)
  OBVIOUS
<1>c. PICK mem2 : mem2 = inGroup.arrays
  OBVIOUS
<1>1. /\ more \in Seq(S) /\ Len(more) \in Nat /\ more2 \in Seq(S) /\ Len(more2) \in Nat
      /\ hosts.len \in Nat /\ hosts.array \in 1 .. Len(mem) /\ hosts.len <= Len(mem[hosts.array])
  BY <1>a, <1>b, ElementsOf, LenProperties DEF SlicesOf
<1>2. inGroup = AppendTo(mem, hosts, more)
  BY <1>0, <1>a
<1>3. /\ mem2 \in Seq(Seq(S)) /\ Len(mem) <= Len(mem2)
      /\ inGroup.slice \in SlicesOf(mem2) /\ inGroup.slice.len = hosts.len + Len(more)
      /\ Elements(mem2, inGroup.slice) = Elements(mem, hosts) \o more
      /\ \A s \in SlicesOf(mem) : s.array # hosts.array \/ s.len <= hosts.len =>
            s \in SlicesOf(mem2) /\ Elements(mem2, s) = Elements(mem, s)
      /\ IF inGroup.slice.len <= Len(mem[hosts.array])
         THEN inGroup.slice.array = hosts.array /\ Len(mem2[hosts.array]) = Len(mem[hosts.array])
         ELSE inGroup.slice.array \notin 1 .. Len(mem) /\ mem2[hosts.array] = mem[hosts.array]
  <2>1. Appended(S, mem, hosts, more, inGroup)
    BY <1>1, <1>2, AppendToCorrect
  <2> QED
    BY <1>c, <2>1 DEF Appended
<1>4. /\ hosts \in SlicesOf(mem2) /\ Elements(mem2, hosts) = Elements(mem, hosts)
      /\ oldHosts \in SlicesOf(mem2) /\ Elements(mem2, oldHosts) = more2
  BY <1>1, <1>3, <1>b
<1>5. inApp = AppendTo(mem2, hosts, more2)
  BY <1>0, <1>4, <1>c
<1>6. /\ inApp.arrays \in Seq(Seq(S)) /\ Len(mem2) <= Len(inApp.arrays)
      /\ inApp.slice \in SlicesOf(inApp.arrays) /\ inApp.slice.len = hosts.len + Len(more2)
      /\ Elements(inApp.arrays, inApp.slice) = Elements(mem2, hosts) \o more2
      /\ \A s \in SlicesOf(mem2) : s.array # hosts.array \/ s.len <= hosts.len =>
            s \in SlicesOf(inApp.arrays) /\ Elements(inApp.arrays, s) = Elements(mem2, s)
      /\ IF inApp.slice.len <= Len(mem2[hosts.array])
         THEN inApp.slice.array = hosts.array
              /\ Len(inApp.arrays[hosts.array]) = Len(mem2[hosts.array])
         ELSE inApp.slice.array \notin 1 .. Len(mem2) /\ inApp.arrays[hosts.array] = mem2[hosts.array]
  <2>1. Appended(S, mem2, hosts, more2, inApp)
    BY <1>1, <1>3, <1>4, <1>5, AppendToCorrect
  <2> QED
    BY <2>1 DEF Appended
<1>7. inApp.slice.len >= hosts.len /\ inGroup.slice.len >= hosts.len
  <2>1. inApp.slice.len = hosts.len + Len(more2) /\ inGroup.slice.len = hosts.len + Len(more)
    BY <1>3, <1>6
  <2> QED
    BY <1>1, <2>1
<1>8. ASSUME NEW s \in SlicesOf(mem), s.array # hosts.array
      PROVE  s \in SlicesOf(inApp.arrays) /\ Elements(inApp.arrays, s) = Elements(mem, s)
  BY <1>3, <1>6, <1>8
<1>9. inGroup.slice \in SlicesOf(inApp.arrays)
  <2>1. CASE inGroup.slice.array # hosts.array
    BY <1>3, <1>6, <2>1
  <2>2. CASE inGroup.slice.array = hosts.array
    <3>1. Len(inApp.arrays[hosts.array]) = Len(mem2[hosts.array])
      BY <1>6
    <3>2. /\ inGroup.slice \in [array : 1 .. Len(mem2), len : Nat]
          /\ inGroup.slice.len <= Len(mem2[hosts.array])
      BY <1>3, <2>2 DEF SlicesOf
    <3>3. inGroup.slice \in [array : 1 .. Len(inApp.arrays), len : Nat]
      <4>1. Len(mem2) \in Nat /\ Len(inApp.arrays) \in Nat
        BY <1>3, <1>6, LenProperties
      <4>2. 1 .. Len(mem2) \subseteq 1 .. Len(inApp.arrays)
        BY <1>6, <4>1
      <4> QED
        BY <3>2, <4>2
    <3> QED
      BY <2>2, <3>1, <3>2, <3>3 DEF SlicesOf
  <2> QED
    BY <2>1, <2>2
<1>10. ASSUME more = more2
       PROVE  Elements(inApp.arrays, inGroup.slice) = Elements(mem, hosts) \o more2
  <2>1. CASE inGroup.slice.array # hosts.array
    BY <1>3, <1>6, <1>10, <2>1
  <2>2. CASE inGroup.slice.array = hosts.array
    <3>1. /\ inGroup.slice.len <= Len(mem[hosts.array])
          /\ Len(mem2[hosts.array]) = Len(mem[hosts.array])
      BY <1>1, <1>3, <2>2
    <3>2. inApp.slice.array = hosts.array /\ inApp.slice.len = inGroup.slice.len
      BY <1>3, <1>6, <1>10, <3>1
    <3>3. Elements(inApp.arrays, inGroup.slice) = Elements(inApp.arrays, inApp.slice)
      BY <2>2, <3>2 DEF Elements
    <3> QED
      BY <1>4, <1>6, <3>3
  <2> QED
    BY <2>1, <2>2
<1> QED
  BY <1>4, <1>6, <1>7, <1>8, <1>9, <1>10, <1>a, <1>b DEF Joined, Prepended
----------------------------------------------------------------------------
(* Lists of hosts.                                                         *)

\* Two lists in a row have the elements of both.
LEMMA ToSetConcat ==
    ASSUME NEW S, NEW a \in Seq(S), NEW b \in Seq(S)
    PROVE  ToSet(a \o b) = ToSet(a) \cup ToSet(b)
<1>a. PICK c : c = a \o b
  OBVIOUS
<1>1. /\ DOMAIN a = 1 .. Len(a) /\ DOMAIN b = 1 .. Len(b) /\ Len(a) \in Nat /\ Len(b) \in Nat
  BY LenProperties
<1>2. /\ c \in Seq(S) /\ Len(c) = Len(a) + Len(b)
      /\ \A i \in 1 .. Len(a) + Len(b) : c[i] = IF i <= Len(a) THEN a[i] ELSE b[i - Len(a)]
  BY <1>a, ConcatProperties
<1>3. DOMAIN c = 1 .. Len(a) + Len(b)
  BY <1>2, LenProperties
<1>4. ASSUME NEW i \in DOMAIN c
      PROVE  c[i] \in ToSet(a) \cup ToSet(b)
  <2>1. CASE i <= Len(a)
    <3>1. i \in DOMAIN a /\ c[i] = a[i]
      BY <1>1, <1>2, <1>3, <2>1
    <3> QED
      BY <3>1 DEF ToSet
  <2>2. CASE ~(i <= Len(a))
    <3>1. i - Len(a) \in DOMAIN b /\ c[i] = b[i - Len(a)]
      BY <1>1, <1>2, <1>3, <2>2
    <3> QED
      BY <3>1 DEF ToSet
  <2> QED
    BY <2>1, <2>2
<1>5. ASSUME NEW i \in DOMAIN a
      PROVE  a[i] \in ToSet(c)
  <2>1. i \in DOMAIN c /\ c[i] = a[i]
    BY <1>1, <1>2, <1>3
  <2> QED
    BY <2>1 DEF ToSet
<1>6. ASSUME NEW i \in DOMAIN b
      PROVE  b[i] \in ToSet(c)
  <2>1. i + Len(a) \in DOMAIN c /\ ~(i + Len(a) <= Len(a)) /\ i + Len(a) - Len(a) = i
    BY <1>1, <1>3
  <2>2. c[i + Len(a)] = b[i]
    BY <1>2, <1>3, <2>1
  <2> QED
    BY <2>1, <2>2 DEF ToSet
<1>7. ToSet(c) = ToSet(a) \cup ToSet(b)
  BY <1>4, <1>5, <1>6 DEF ToSet
<1> QED
  BY <1>7, <1>a

\* Two lists in a row have no element twice if neither has, and if they have none
\* in common.
LEMMA InjectiveConcat ==
    ASSUME NEW S, NEW a \in Seq(S), NEW b \in Seq(S), IsInjective(a), IsInjective(b),
           ToSet(a) \cap ToSet(b) = {}
    PROVE  IsInjective(a \o b)
<1>a. PICK c : c = a \o b
  OBVIOUS
<1>1. /\ DOMAIN a = 1 .. Len(a) /\ DOMAIN b = 1 .. Len(b) /\ Len(a) \in Nat /\ Len(b) \in Nat
  BY LenProperties
<1>2. /\ c \in Seq(S) /\ Len(c) = Len(a) + Len(b)
      /\ \A i \in 1 .. Len(a) + Len(b) : c[i] = IF i <= Len(a) THEN a[i] ELSE b[i - Len(a)]
  BY <1>a, ConcatProperties
<1>3. DOMAIN c = 1 .. Len(a) + Len(b)
  BY <1>2, LenProperties
<1>4. \A i \in DOMAIN c : i <= Len(a) => i \in DOMAIN a /\ c[i] = a[i] /\ c[i] \in ToSet(a)
  <2> TAKE i \in DOMAIN c
  <2> SUFFICES ASSUME i <= Len(a) PROVE i \in DOMAIN a /\ c[i] = a[i] /\ c[i] \in ToSet(a)
    OBVIOUS
  <2>1. i \in DOMAIN a /\ c[i] = a[i]
    BY <1>1, <1>2, <1>3
  <2> QED
    BY <2>1 DEF ToSet
<1>5. \A i \in DOMAIN c : ~(i <= Len(a)) =>
        i - Len(a) \in DOMAIN b /\ c[i] = b[i - Len(a)] /\ c[i] \in ToSet(b)
  <2> TAKE i \in DOMAIN c
  <2> SUFFICES ASSUME ~(i <= Len(a))
               PROVE  i - Len(a) \in DOMAIN b /\ c[i] = b[i - Len(a)] /\ c[i] \in ToSet(b)
    OBVIOUS
  <2>1. i - Len(a) \in DOMAIN b /\ c[i] = b[i - Len(a)]
    BY <1>1, <1>2, <1>3
  <2> QED
    BY <2>1 DEF ToSet
<1>6. ASSUME NEW i \in DOMAIN c, NEW j \in DOMAIN c, c[i] = c[j]
      PROVE  i = j
  <2>1. CASE i <= Len(a) /\ j <= Len(a)
    BY <1>4, <1>6, <2>1 DEF IsInjective
  <2>2. CASE ~(i <= Len(a)) /\ ~(j <= Len(a))
    <3>1. i - Len(a) = j - Len(a)
      BY <1>5, <1>6, <2>2 DEF IsInjective
    <3> QED
      BY <1>1, <1>3, <3>1
  <2>3. CASE i <= Len(a) /\ ~(j <= Len(a))
    BY <1>4, <1>5, <1>6, <2>3
  <2>4. CASE ~(i <= Len(a)) /\ j <= Len(a)
    BY <1>4, <1>5, <1>6, <2>4
  <2> QED
    BY <2>1, <2>2, <2>3, <2>4
<1> QED
  BY <1>6, <1>a DEF IsInjective

TasksAt(n, k, size) == {<<n, k, i>> : i \in 1 .. size}
TaskList(n, k, size) == [i \in 1 .. size |-> <<n, k, i>>]

\* The tasks of an app are different hosts.
LEMMA TasksOf ==
    ASSUME NEW n \in Namespaces, NEW k \in Nat, NEW size \in Nat, NEW t
    PROVE  t = TaskList(n, k, size) =>
           /\ t \in Seq(Host) /\ Len(t) = size /\ IsInjective(t)
           /\ ToSet(t) = TasksAt(n, k, size)
<1>0. HAVE t = TaskList(n, k, size)
<1>1. DOMAIN t = 1 .. size /\ \A i \in 1 .. size : t[i] = <<n, k, i>>
  BY <1>0 DEF TaskList
<1>2. \A i \in 1 .. size : <<n, k, i>> \in Host
  BY DEF Host
<1>3. t \in Seq(Host) /\ Len(t) = size
  BY <1>0, <1>2 DEF TaskList
<1>4. ToSet(t) = TasksAt(n, k, size)
  BY <1>1 DEF ToSet, TasksAt
<1>5. ASSUME NEW i \in 1 .. size, NEW j \in 1 .. size, t[i] = t[j]
      PROVE  i = j
  <2>1. <<n, k, i>> = <<n, k, j>>
    BY <1>1, <1>5
  <2> QED
    BY <2>1
<1>6. IsInjective(t)
  BY <1>1, <1>5 DEF IsInjective
<1> QED
  BY <1>3, <1>4, <1>6

\* The array of a list starts with the list.
LEMMA NewListOf ==
    ASSUME NEW t \in Seq(Host), Capacity(Len(t)) \in Nat, Capacity(Len(t)) >= Len(t), NEW l
    PROVE  l = NewList(t) =>
           /\ l \in Seq(Host) /\ Len(t) <= Len(l) /\ \A i \in 1 .. Len(t) : l[i] = t[i]
<1>0. HAVE l = NewList(t)
<1>a. PICK rest : rest = [i \in 1 .. Capacity(Len(t)) - Len(t) |-> <<>>]
  OBVIOUS
<1>1. Len(t) \in Nat /\ Capacity(Len(t)) - Len(t) \in Nat
  BY LenProperties
<1>2. rest \in Seq(Host) /\ Len(rest) \in Nat
  <2>1. <<>> \in Host
    BY DEF Host
  <2> QED
    BY <1>1, <1>a, <2>1
<1>3. /\ l \in Seq(Host) /\ Len(l) = Len(t) + Len(rest)
      /\ \A i \in 1 .. Len(t) + Len(rest) : l[i] = IF i <= Len(t) THEN t[i] ELSE rest[i - Len(t)]
  <2>1. l = t \o rest
    BY <1>0, <1>a DEF NewList
  <2> QED
    BY <1>2, <2>1, ConcatProperties
<1>4. Len(t) <= Len(l)
  BY <1>1, <1>2, <1>3
<1>5. ASSUME NEW i \in 1 .. Len(t)
      PROVE  l[i] = t[i]
  <2>1. i \in 1 .. Len(t) + Len(rest) /\ i <= Len(t)
    BY <1>1, <1>2
  <2> QED
    BY <1>3, <2>1
<1> QED
  BY <1>3, <1>4, <1>5

\* Reading an app adds an array of its own, with a slice that holds its tasks.
ReadInto(mem, t, mem2, hosts) ==
    /\ mem2 \in Seq(Seq(Host)) /\ hosts \in SlicesOf(mem2) /\ hosts.len = Len(t)
    /\ Elements(mem2, hosts) = t
    /\ \A s \in SlicesOf(mem) :
          /\ s \in SlicesOf(mem2) /\ s.array # hosts.array
          /\ Elements(mem2, s) = Elements(mem, s)

\* Reading does that.
LEMMA ReadApp ==
    ASSUME NEW mem \in Seq(Seq(Host)), NEW t \in Seq(Host),
           Capacity(Len(t)) \in Nat, Capacity(Len(t)) >= Len(t), NEW mem2, NEW hosts
    PROVE  mem2 = Append(mem, NewList(t)) /\ hosts = [array |-> Len(mem2), len |-> Len(t)] =>
           ReadInto(mem, t, mem2, hosts)
<1>0. HAVE mem2 = Append(mem, NewList(t)) /\ hosts = [array |-> Len(mem2), len |-> Len(t)]
<1>a. PICK l : l = NewList(t)
  OBVIOUS
<1>1. l \in Seq(Host) /\ Len(t) <= Len(l) /\ \A i \in 1 .. Len(t) : l[i] = t[i]
  BY <1>a, NewListOf
<1>2. /\ mem2 \in Seq(Seq(Host)) /\ Len(mem2) = Len(mem) + 1 /\ mem2[Len(mem) + 1] = l
      /\ \A i \in 1 .. Len(mem) : mem2[i] = mem[i]
  <2>1. mem2 = Append(mem, l)
    BY <1>0, <1>a
  <2> QED
    BY <1>1, <2>1
<1>3. Len(mem) \in Nat /\ Len(t) \in Nat /\ Len(l) \in Nat
  BY <1>1, LenProperties
<1>4. /\ hosts.array = Len(mem) + 1 /\ hosts.len = Len(t) /\ hosts \in SlicesOf(mem2)
  BY <1>0, <1>1, <1>2, <1>3 DEF SlicesOf
<1>5. Elements(mem2, hosts) = t
  <2>1. /\ Elements(mem2, hosts) \in Seq(Host) /\ Len(Elements(mem2, hosts)) = Len(t)
        /\ \A i \in 1 .. Len(t) : Elements(mem2, hosts)[i] = l[i]
    <3>1. /\ Elements(mem2, hosts) \in Seq(Host) /\ Len(Elements(mem2, hosts)) = hosts.len
          /\ \A i \in 1 .. hosts.len : Elements(mem2, hosts)[i] = mem2[hosts.array][i]
      BY <1>2, <1>4, ElementsOf, Zenon
    <3> QED
      BY <1>2, <1>4, <3>1
  <2> QED
    BY <1>1, <2>1, SeqEqual
<1>6. \A s \in SlicesOf(mem) : s \in SlicesOf(mem2) /\ Elements(mem2, s) = Elements(mem, s)
  <2>1. /\ mem2 \in Seq(Seq(Host)) /\ Len(mem) <= Len(mem2)
        /\ \A i \in 1 .. Len(mem) : mem2[i] = mem[i]
    BY <1>2, <1>3
  <2> QED
    BY <2>1, NewArray, Zenon
<1>7. \A s \in SlicesOf(mem) : s.array # hosts.array
  BY <1>3, <1>4 DEF SlicesOf
<1> QED
  BY <1>2, <1>4, <1>5, <1>6, <1>7 DEF ReadInto
----------------------------------------------------------------------------
(* One turn of the loop, in terms of what the slices hold.                 *)

\* What the code means to do with the hosts t of another app of a vhost.  Nothing
\* is said of a group that is joined and had not all of the vhost's hosts.
MergedWith(old, new, t, group) ==
    /\ new.hosts = t \o old.hosts
    /\ DOMAIN new.groups = DOMAIN old.groups \cup {group}
    /\ \A g \in DOMAIN old.groups \ {group} : new.groups[g] = old.groups[g]
    /\ group \notin DOMAIN old.groups => new.groups[group] = t
    /\ group \in DOMAIN old.groups =>
          /\ new.groups[group] \in Seq(Host)
          /\ old.groups[group] = old.hosts => new.groups[group] = new.hosts

\* The hosts of an app are one more part, or are added to one.
PartsGrow(parts, parts2, group, tasks) ==
    /\ DOMAIN parts2 = DOMAIN parts \cup {group}
    /\ \A g \in DOMAIN parts \ {group} : parts2[g] = parts[g]
    /\ parts2[group] = IF group \in DOMAIN parts THEN parts[group] \cup tasks ELSE tasks

\* The first app of a vhost.
LEMMA FirstHolds ==
    ASSUME NEW t \in Seq(Host), t # <<>>, IsInjective(t), NEW group, NEW n, NEW tagged, NEW app,
           app.hosts = t, DOMAIN app.groups = {group}, app.groups[group] = t,
           NEW parts, DOMAIN parts = {group}, parts[group] = ToSet(t)
    PROVE  Holds(app, ToSet(t), parts, 1, n, tagged)
BY DEF Holds

\* Another one.
LEMMA MergedHolds ==
    ASSUME NEW old, NEW new, NEW t \in Seq(Host), NEW group, MergedWith(old, new, t, group),
           NEW all, NEW parts, NEW count \in Nat, NEW n, NEW tagged,
           Holds(old, all, parts, count, n, tagged),
           IsInjective(t), t # <<>>, ToSet(t) \cap all = {}, count > 0,
           NEW parts2, PartsGrow(parts, parts2, group, ToSet(t)),
           n \notin tagged => DOMAIN parts = {group}
    PROVE  Holds(new, all \cup ToSet(t), parts2, count + 1, n, tagged)
<1>1. /\ old.hosts \in Seq(Host) /\ old.hosts # <<>> /\ ToSet(old.hosts) = all
      /\ IsInjective(old.hosts) /\ DOMAIN old.groups = DOMAIN parts
      /\ \A g \in DOMAIN old.groups : old.groups[g] \in Seq(Host)
  BY DEF Holds
<1>2. new.hosts = t \o old.hosts
  BY DEF MergedWith
<1>3. new.hosts \in Seq(Host) /\ new.hosts # <<>>
  BY <1>1, <1>2, ConcatProperties, ConcatEqualIffEmpty
<1>4. ToSet(new.hosts) = all \cup ToSet(t)
  BY <1>1, <1>2, ToSetConcat
<1>5. IsInjective(new.hosts)
  BY <1>1, <1>2, InjectiveConcat
<1>6. DOMAIN new.groups = DOMAIN parts2
  BY <1>1 DEF MergedWith, PartsGrow
<1>7. ASSUME NEW g \in DOMAIN new.groups
      PROVE  new.groups[g] \in Seq(Host)
  BY <1>1, <1>7 DEF MergedWith
<1>8. ASSUME count + 1 <= 2, NEW g \in DOMAIN new.groups
      PROVE  ToSet(new.groups[g]) = parts2[g]
  <2>1. /\ \A h \in DOMAIN old.groups : ToSet(old.groups[h]) = parts[h]
        /\ \A h \in DOMAIN old.groups : old.groups[h] = old.hosts
    <3>1. count = 1
      BY <1>8
    <3> QED
      BY <3>1 DEF Holds
  <2>2. CASE g # group
    BY <1>1, <2>1, <2>2 DEF MergedWith, PartsGrow
  <2>3. CASE g = group /\ group \notin DOMAIN old.groups
    BY <1>1, <2>3 DEF MergedWith, PartsGrow
  <2>4. CASE g = group /\ group \in DOMAIN old.groups
    <3>1. new.groups[g] = new.hosts /\ parts[group] = all
      BY <1>1, <2>1, <2>4 DEF MergedWith
    <3> QED
      BY <1>1, <1>4, <2>4, <3>1 DEF PartsGrow
  <2> QED
    BY <1>8, <2>2, <2>3, <2>4
<1>9. ASSUME count + 1 = 1 \/ n \notin tagged, NEW g \in DOMAIN new.groups
      PROVE  new.groups[g] = new.hosts
  <2>1. n \notin tagged
    BY <1>9
  <2>2. g = group /\ group \in DOMAIN old.groups /\ old.groups[group] = old.hosts
    BY <1>1, <1>6, <1>9, <2>1 DEF Holds, PartsGrow
  <2> QED
    BY <2>2 DEF MergedWith
<1> QED
  BY <1>3, <1>4, <1>5, <1>6, <1>7, <1>8, <1>9 DEF Holds

\* An app whose slices are kept holds what it held.
LEMMA AppKept ==
    ASSUME NEW mem, NEW mem2, NEW app, GoodApp(mem, app),
           \A s \in SlicesOf(mem) : s \in SlicesOf(mem2) /\ Elements(mem2, s) = Elements(mem, s)
    PROVE  GoodApp(mem2, app) /\ View(mem2, app) = View(mem, app)
<1>1. GoodApp(mem2, app)
  BY DEF GoodApp
<1>2. Elements(mem2, app.hosts) = Elements(mem, app.hosts)
  BY DEF GoodApp
<1>3. \A g \in DOMAIN app.groups : Elements(mem2, app.groups[g]) = Elements(mem, app.groups[g])
  BY DEF GoodApp
<1> QED
  BY <1>1, <1>2, <1>3 DEF View

\* MergeVhost does what MergedWith says and leaves all other slices as they are.
VhostMerged(vhost, t, group) ==
    /\ arrays' \in Seq(Seq(Host))
    /\ \A s \in SlicesOf(arrays) :
          s \in SlicesOf(arrays') /\ Elements(arrays', s) = Elements(arrays, s)
    /\ DOMAIN apps' = DOMAIN apps
    /\ \A v \in DOMAIN apps \ {vhost} : apps'[v] = apps[v]
    /\ GoodApp(arrays', apps'[vhost])
    /\ MergedWith(View(arrays, apps[vhost]), View(arrays', apps'[vhost]), t, group)

\* It does.
LEMMA MergeVhostCorrect ==
    ASSUME arrays \in Seq(Seq(Host)), NEW vhost \in DOMAIN apps, GoodApp(arrays, apps[vhost]),
           NEW group, NEW t \in Seq(Host), NEW mem \in Seq(Seq(Host)), NEW hosts \in SlicesOf(mem),
           hosts.len > 0, Elements(mem, hosts) = t,
           \A s \in SlicesOf(arrays) : /\ s \in SlicesOf(mem) /\ s.array # hosts.array
                                       /\ Elements(mem, s) = Elements(arrays, s),
           MergeVhost(vhost, group, mem, hosts)
    PROVE  VhostMerged(vhost, t, group)
<1> DEFINE old == apps[vhost]
           inGroup0 == IF group \in DOMAIN old.groups
                       THEN AppendTo(mem, hosts, Elements(mem, old.groups[group]))
                       ELSE [arrays |-> mem, slice |-> hosts]
           inApp0 == AppendTo(inGroup0.arrays, hosts, Elements(inGroup0.arrays, old.hosts))
<1>a. PICK inGroup : inGroup = inGroup0
  OBVIOUS
<1>b. PICK inApp : inApp = inApp0
  OBVIOUS
<1>1. /\ arrays' = inApp.arrays
      /\ apps' = [apps EXCEPT ![vhost] =
            [hosts  |-> inApp.slice,
             groups |-> [g \in DOMAIN old.groups \cup {group} |->
                           IF g = group THEN inGroup.slice ELSE old.groups[g]]]]
  BY <1>a, <1>b DEF MergeVhost
<1>2. inApp = AppendTo(inGroup.arrays, hosts, Elements(inGroup.arrays, old.hosts))
  BY <1>a, <1>b
<1>3. /\ old.hosts \in SlicesOf(arrays) /\ old.hosts.len > 0
      /\ \A g \in DOMAIN old.groups : old.groups[g] \in SlicesOf(arrays) /\ old.groups[g].len > 0
  BY DEF GoodApp
<1>4. /\ old.hosts \in SlicesOf(mem) /\ hosts.array # old.hosts.array
      /\ Elements(mem, old.hosts) = Elements(arrays, old.hosts)
  BY <1>3
<1>5. /\ inApp.arrays \in Seq(Seq(Host)) /\ inApp.slice \in SlicesOf(inApp.arrays)
      /\ inApp.slice.len >= hosts.len
      /\ Elements(inApp.arrays, inApp.slice) = t \o Elements(mem, old.hosts)
      /\ inGroup.slice \in SlicesOf(inApp.arrays) /\ inGroup.slice.len >= hosts.len
      /\ \A s \in SlicesOf(mem) : s.array # hosts.array =>
            s \in SlicesOf(inApp.arrays) /\ Elements(inApp.arrays, s) = Elements(mem, s)
      /\ group \notin DOMAIN old.groups => Elements(inApp.arrays, inGroup.slice) = t
      /\ group \in DOMAIN old.groups
         /\ Elements(mem, old.groups[group]) = Elements(mem, old.hosts) =>
               Elements(inApp.arrays, inGroup.slice) = t \o Elements(mem, old.hosts)
  <2>1. CASE group \in DOMAIN old.groups
    <3>1. inGroup = AppendTo(mem, hosts, Elements(mem, old.groups[group]))
      BY <1>a, <2>1
    <3>2. old.groups[group] \in SlicesOf(mem)
      BY <1>3, <2>1
    <3> HIDE DEF old, inGroup0, inApp0
    <3>3. Joined(Host, mem, hosts, old.hosts, old.groups[group], inGroup, inApp)
      BY <1>2, <1>4, <3>1, <3>2, JoinGroup
    <3> QED
      BY <2>1, <3>3 DEF Joined, Prepended
  <2>2. CASE group \notin DOMAIN old.groups
    <3>1. inGroup.arrays = mem /\ inGroup.slice = hosts
      BY <1>a, <2>2
    <3>2. inApp = AppendTo(mem, hosts, Elements(mem, old.hosts))
      BY <1>2, <3>1
    <3>3. hosts.len >= hosts.len
      BY DEF SlicesOf
    <3> HIDE DEF old, inGroup0, inApp0
    <3>4. /\ Prepended(Host, mem, hosts, old.hosts, inApp)
          /\ hosts \in SlicesOf(inApp.arrays)
          /\ Elements(inApp.arrays, hosts) = Elements(mem, hosts)
      BY <1>4, <3>2, NewGroup
    <3> QED
      BY <2>2, <3>1, <3>3, <3>4 DEF Prepended
  <2> QED
    BY <2>1, <2>2
<1> HIDE DEF inGroup0, inApp0
<1>6. \A s \in SlicesOf(arrays) : s \in SlicesOf(arrays') /\ Elements(arrays', s) = Elements(arrays, s)
  BY <1>1, <1>5
<1>7. /\ DOMAIN apps' = DOMAIN apps /\ \A v \in DOMAIN apps \ {vhost} : apps'[v] = apps[v]
      /\ apps'[vhost].hosts = inApp.slice
      /\ DOMAIN apps'[vhost].groups = DOMAIN old.groups \cup {group}
      /\ apps'[vhost].groups[group] = inGroup.slice
      /\ \A g \in DOMAIN old.groups \ {group} : apps'[vhost].groups[g] = old.groups[g]
  BY <1>1
<1>8. GoodApp(arrays', apps'[vhost])
  <2>1. apps'[vhost].hosts \in SlicesOf(arrays') /\ apps'[vhost].hosts.len > 0
    <3>1. inApp.slice.len \in Nat /\ hosts.len \in Nat
      BY <1>5 DEF SlicesOf
    <3> QED
      BY <1>1, <1>5, <1>7, <3>1
  <2>2. inGroup.slice \in SlicesOf(arrays') /\ inGroup.slice.len > 0
    <3>1. inGroup.slice.len \in Nat /\ hosts.len \in Nat
      BY <1>5 DEF SlicesOf
    <3> QED
      BY <1>1, <1>5, <3>1
  <2>3. \A g \in DOMAIN apps'[vhost].groups :
           apps'[vhost].groups[g] \in SlicesOf(arrays') /\ apps'[vhost].groups[g].len > 0
    BY <1>3, <1>6, <1>7, <2>2
  <2> QED
    BY <2>1, <2>3 DEF GoodApp
<1>9. MergedWith(View(arrays, apps[vhost]), View(arrays', apps'[vhost]), t, group)
  <2>a. PICK before : before = View(arrays, apps[vhost])
    OBVIOUS
  <2>b. PICK after : after = View(arrays', apps'[vhost])
    OBVIOUS
  <2>1. /\ before.hosts = Elements(arrays, old.hosts) /\ DOMAIN before.groups = DOMAIN old.groups
        /\ \A g \in DOMAIN old.groups : before.groups[g] = Elements(arrays, old.groups[g])
    BY <2>a DEF View
  <2>2. /\ after.hosts = Elements(inApp.arrays, inApp.slice)
        /\ DOMAIN after.groups = DOMAIN old.groups \cup {group}
        /\ after.groups[group] = Elements(inApp.arrays, inGroup.slice)
        /\ \A g \in DOMAIN old.groups \ {group} : after.groups[g] = Elements(arrays', old.groups[g])
    BY <1>1, <1>7, <2>b DEF View
  <2>3. after.hosts = t \o before.hosts
    BY <1>4, <1>5, <2>1, <2>2
  <2>4. ASSUME NEW g \in DOMAIN before.groups \ {group}
        PROVE  after.groups[g] = before.groups[g]
    BY <1>3, <1>6, <2>1, <2>2
  <2>5. ASSUME group \notin DOMAIN before.groups
        PROVE  after.groups[group] = t
    BY <1>5, <2>1, <2>2, <2>5
  <2>6. after.groups[group] \in Seq(Host)
    BY <1>5, <2>2, ElementsOf
  <2>7. ASSUME group \in DOMAIN before.groups, before.groups[group] = before.hosts
        PROVE  after.groups[group] = after.hosts
    <3>1. Elements(mem, old.groups[group]) = Elements(mem, old.hosts)
      BY <1>3, <1>4, <2>1, <2>7
    <3> QED
      BY <1>5, <2>1, <2>2, <2>7, <3>1
  <2>8. MergedWith(before, after, t, group)
    BY <2>1, <2>2, <2>3, <2>4, <2>5, <2>6, <2>7 DEF MergedWith
  <2> QED
    BY <2>8, <2>a, <2>b
<1> QED
  BY <1>1, <1>5, <1>6, <1>7, <1>8, <1>9 DEF VhostMerged
----------------------------------------------------------------------------
(* What is listed.                                                         *)

\* The apps of a vhost are among those listed, and each is in one group.
LEMMA OfFacts ==
    ASSUME TypeInv, NEW n \in Namespaces, NEW v
    PROVE  /\ listing[n] \in Seq(AppType) /\ Len(listing[n]) \in Nat
           /\ DOMAIN listing[n] = 1 .. Len(listing[n])
           /\ Of(n, v) \subseteq 1 .. Len(listing[n]) /\ IsFiniteSet(Of(n, v))
           /\ Cardinality(Of(n, v)) \in Nat /\ (Of(n, v) # {} => Cardinality(Of(n, v)) > 0)
           /\ \A g : OfGroup(n, v, g) \subseteq Of(n, v)
<1>1. /\ listing[n] \in Seq(AppType) /\ Len(listing[n]) \in Nat
      /\ DOMAIN listing[n] = 1 .. Len(listing[n])
  BY LenProperties DEF TypeInv
<1>2. Of(n, v) \subseteq 1 .. Len(listing[n]) /\ \A g : OfGroup(n, v, g) \subseteq Of(n, v)
  BY <1>1 DEF Of, OfGroup
<1>3. IsFiniteSet(Of(n, v)) /\ Cardinality(Of(n, v)) \in Nat
  <2>1. IsFiniteSet(1 .. Len(listing[n]))
    <3>1. \A k \in Nat : k \in Int /\ 1 \in Int
      OBVIOUS
    <3>2. \A k \in Nat : IsFiniteSet(1 .. k)
      BY <3>1, FS_Interval
    <3> QED
      BY <1>1, <3>2, Zenon
  <2>2. IsFiniteSet(Of(n, v))
    BY <1>2, <2>1, FS_Subset
  <2> QED
    BY <2>2, FS_CardinalityType
<1>4. Of(n, v) # {} => Cardinality(Of(n, v)) > 0
  BY <1>3, FS_EmptySet
<1> QED
  BY <1>1, <1>2, <1>3, <1>4

\* An app is in the group GroupName gives it.
LEMMA GroupOf ==
    ASSUME NEW n, NEW v, NEW g
    PROVE  OfGroup(n, v, g) = {k \in Of(n, v) : GroupName(n, listing[n][k]) = g}
BY DEF OfGroup, Of, GroupName

\* Names of vhosts and of groups are lower case.
LEMMA NamesLower ==
    ASSUME TypeInv, NEW n \in Namespaces, NEW app \in AppType
    PROVE  Lower[app.vhost] \in Vhosts /\ GroupName(n, app) \in Names
<1>1. app.vhost \in Names /\ app.tag \in Names \cup {NoTag}
  BY DEF AppType
<1>2. Lower[app.vhost] \in Names /\ Lower[app.vhost] \in Vhosts
  BY <1>1, LowerAssumption DEF Vhosts
<1>3. app.tag # NoTag => Lower[app.tag] \in Names
  BY <1>1, LowerAssumption
<1> QED
  BY <1>2, <1>3 DEF GroupName

\* A vhost without apps has no groups; the hosts of a set of apps are of those apps.
LEMMA HostsOf ==
    ASSUME NEW n, NEW ks, NEW k, k \notin ks, NEW i
    PROVE  <<n, k, i>> \notin HostsListed(n, ks)
BY DEF HostsListed

\* What is listed for a namespace stays while others are synced.
LEMMA OthersKept ==
    ASSUME NEW n, listing'[n] = listing[n], config' = config
    PROVE  /\ \A v : Of(n, v)' = Of(n, v)
           /\ \A v, g : OfGroup(n, v, g)' = OfGroup(n, v, g)
           /\ \A ks : HostsListed(n, ks)' = HostsListed(n, ks)
           /\ \A v, app : Faithful(n, v, app)' <=> Faithful(n, v, app)
<1>1. \A v : Of(n, v)' = Of(n, v)
  BY DEF Of, Counts, Admitted
<1>2. \A v, g : OfGroup(n, v, g)' = OfGroup(n, v, g)
  BY <1>1 DEF OfGroup
<1>3. \A ks : HostsListed(n, ks)' = HostsListed(n, ks)
  BY DEF HostsListed
<1>4. ASSUME NEW v, NEW app
      PROVE  Faithful(n, v, app)' <=> Faithful(n, v, app)
  <2>1. Parts(n, v)' = Parts(n, v)
    BY <1>2, <1>3 DEF Parts
  <2> QED
    BY <1>1, <1>3, <2>1 DEF Faithful
<1> QED
  BY <1>1, <1>2, <1>3, <1>4

\* The k-th app of a listing, once it has been read: if it counts, it is one more
\* of its vhost and of its group.
ListedNext(n, app, k) ==
    /\ k \in Nat /\ listing'[n][k] = app
    /\ \A v : k \notin Of(n, v)
    /\ \A v : Of(n, v)' = IF Counts(n, app) /\ v = Lower[app.vhost]
                          THEN Of(n, v) \cup {k} ELSE Of(n, v)
    /\ \A v, g : OfGroup(n, v, g)' =
          IF Counts(n, app) /\ v = Lower[app.vhost] /\ g = GroupName(n, app)
          THEN OfGroup(n, v, g) \cup {k} ELSE OfGroup(n, v, g)
    /\ \A ks \in SUBSET (1 .. Len(listing[n])) :
          /\ HostsListed(n, ks)' = HostsListed(n, ks)
          /\ HostsListed(n, ks \cup {k})' =
                HostsListed(n, ks) \cup {<<n, k, i>> : i \in 1 .. app.size}

\* Reading an app of a listing.
Reads(n, app) ==
    app \in AppType /\ listing'[n] = Append(listing[n], app) /\ config' = config

\* It does what ListedNext says.
LEMMA NextListed ==
    ASSUME TypeInv, NEW n \in Namespaces, NEW app, Reads(n, app)
    PROVE  ListedNext(n, app, Len(listing[n]) + 1)
<1>k. PICK k : k = Len(listing[n]) + 1
  OBVIOUS
<1>r. app \in AppType /\ listing'[n] = Append(listing[n], app) /\ config' = config
  BY DEF Reads
<1>a. PICK old : old = listing[n]
  OBVIOUS
<1>1. old \in Seq(AppType) /\ Len(old) \in Nat /\ DOMAIN old = 1 .. Len(old)
  BY <1>a, LenProperties DEF TypeInv
<1>2. /\ DOMAIN listing'[n] = 1 .. k /\ listing'[n][k] = app /\ k \in Nat
      /\ \A j \in 1 .. Len(old) : listing'[n][j] = old[j]
  <2>1. listing'[n] = Append(old, app) /\ k = Len(old) + 1
    BY <1>a, <1>k, <1>r
  <2> QED
    BY <1>1, <1>r, <2>1, AppendProperties
<1>3. 1 .. k = (1 .. Len(old)) \cup {k} /\ k \notin 1 .. Len(old)
  BY <1>1, <1>a, <1>k
<1>4. ASSUME NEW v
      PROVE  /\ k \notin Of(n, v)
             /\ Of(n, v)' = IF Counts(n, app) /\ v = Lower[app.vhost]
                            THEN Of(n, v) \cup {k} ELSE Of(n, v)
  <2>1. Of(n, v) = {j \in 1 .. Len(old) : Counts(n, old[j]) /\ Lower[old[j].vhost] = v}
    BY <1>1, <1>a DEF Of
  <2>2. Of(n, v)' = {j \in 1 .. k : Counts(n, listing'[n][j]) /\ Lower[listing'[n][j].vhost] = v}
    BY <1>2, <1>r DEF Of, Counts, Admitted
  <2> QED
    BY <1>2, <1>3, <2>1, <2>2
<1>5. ASSUME NEW v, NEW g
      PROVE  OfGroup(n, v, g)' =
                IF Counts(n, app) /\ v = Lower[app.vhost] /\ g = GroupName(n, app)
                THEN OfGroup(n, v, g) \cup {k} ELSE OfGroup(n, v, g)
  <2>1. OfGroup(n, v, g) = {j \in Of(n, v) : GroupName(n, old[j]) = g}
    BY <1>a, GroupOf
  <2>2. OfGroup(n, v, g)' = {j \in Of(n, v)' : GroupName(n, listing'[n][j]) = g}
    BY <1>r DEF OfGroup, Of, GroupName
  <2>3. Of(n, v) \subseteq 1 .. Len(old)
    BY <1>1, <1>a DEF Of
  <2>4. \A j \in Of(n, v) : GroupName(n, listing'[n][j]) = GroupName(n, old[j])
    BY <1>2, <2>3
  <2>5. CASE Counts(n, app) /\ v = Lower[app.vhost]
    <3>1. Of(n, v)' = Of(n, v) \cup {k}
      BY <1>4, <2>5
    <3>2. CASE g = GroupName(n, app)
      <4>1. GroupName(n, listing'[n][k]) = g
        BY <1>2, <3>2
      <4>2. OfGroup(n, v, g)' = {j \in Of(n, v) : GroupName(n, listing'[n][j]) = g} \cup {k}
        BY <2>2, <3>1, <4>1
      <4> QED
        BY <2>1, <2>4, <2>5, <3>2, <4>2
    <3>3. CASE g # GroupName(n, app)
      <4>1. GroupName(n, listing'[n][k]) # g
        BY <1>2, <3>3
      <4>2. OfGroup(n, v, g)' = {j \in Of(n, v) : GroupName(n, listing'[n][j]) = g}
        BY <2>2, <3>1, <4>1
      <4> QED
        BY <2>1, <2>4, <3>3, <4>2
    <3> QED
      BY <3>2, <3>3
  <2>6. CASE ~(Counts(n, app) /\ v = Lower[app.vhost])
    <3>1. Of(n, v)' = Of(n, v)
      BY <1>4, <2>6
    <3> QED
      BY <2>1, <2>2, <2>4, <2>6, <3>1
  <2> QED
    BY <2>5, <2>6
<1>6. ASSUME NEW ks \in SUBSET (1 .. Len(listing[n]))
      PROVE  /\ HostsListed(n, ks)' = HostsListed(n, ks)
             /\ HostsListed(n, ks \cup {k})' =
                   HostsListed(n, ks) \cup {<<n, k, i>> : i \in 1 .. app.size}
  <2>1. \A j \in ks : listing'[n][j].size = listing[n][j].size
    BY <1>2, <1>a
  <2>2. HostsListed(n, ks)' = HostsListed(n, ks)
    BY <2>1 DEF HostsListed
  <2>3. HostsListed(n, ks \cup {k})' = HostsListed(n, ks)' \cup {<<n, k, i>> : i \in 1 .. app.size}
    <3> DEFINE Tasks2(j) == {<<n, j, i>> : i \in 1 .. listing'[n][j].size}
    <3>1. /\ HostsListed(n, ks)' = UNION {Tasks2(j) : j \in ks}
          /\ HostsListed(n, ks \cup {k})' = UNION {Tasks2(j) : j \in ks \cup {k}}
      BY DEF HostsListed
    <3>2. Tasks2(k) = {<<n, k, i>> : i \in 1 .. app.size}
      BY <1>2
    <3> HIDE DEF Tasks2
    <3>3. ASSUME NEW x
          PROVE  x \in UNION {Tasks2(j) : j \in ks \cup {k}} <=>
                    x \in UNION {Tasks2(j) : j \in ks} \/ x \in Tasks2(k)
      <4>1. x \in UNION {Tasks2(j) : j \in ks \cup {k}} <=> \E j \in ks \cup {k} : x \in Tasks2(j)
        OBVIOUS
      <4>2. x \in UNION {Tasks2(j) : j \in ks} <=> \E j \in ks : x \in Tasks2(j)
        OBVIOUS
      <4>3. (\E j \in ks \cup {k} : x \in Tasks2(j)) <=> (\E j \in ks : x \in Tasks2(j)) \/ x \in Tasks2(k)
        OBVIOUS
      <4> QED
        BY <4>1, <4>2, <4>3
    <3> QED
      BY <3>1, <3>2, <3>3
  <2> QED
    BY <2>2, <2>3
<1> QED
  <2>1. ListedNext(n, app, k)
    BY <1>2, <1>4, <1>5, <1>6 DEF ListedNext
  <2> QED
    BY <2>1, <1>k

\* An app that does not count, or is of another vhost, changes nothing for a vhost.
LEMMA FaithfulKept ==
    ASSUME TypeInv, NEW n \in Namespaces, NEW app, Reads(n, app),
           NEW v, ~(Counts(n, app) /\ v = Lower[app.vhost]), NEW a
    PROVE  Faithful(n, v, a)' <=> Faithful(n, v, a)
<1>1. /\ Of(n, v)' = Of(n, v) /\ \A g : OfGroup(n, v, g)' = OfGroup(n, v, g)
      /\ \A ks \in SUBSET (1 .. Len(listing[n])) : HostsListed(n, ks)' = HostsListed(n, ks)
      /\ config' = config
  BY NextListed DEF ListedNext, Reads
<1>2. Of(n, v) \subseteq 1 .. Len(listing[n]) /\ \A g : OfGroup(n, v, g) \subseteq Of(n, v)
  BY OfFacts
<1>3. HostsListed(n, Of(n, v))' = HostsListed(n, Of(n, v))
  BY <1>1, <1>2 DEF HostsListed
<1>4. \A g : HostsListed(n, OfGroup(n, v, g))' = HostsListed(n, OfGroup(n, v, g))
  <2> TAKE g
  <2>1. OfGroup(n, v, g) \in SUBSET (1 .. Len(listing[n])) /\ OfGroup(n, v, g)' = OfGroup(n, v, g)
    BY <1>1, <1>2
  <2> QED
    BY <1>1, <2>1 DEF HostsListed
<1>5. Parts(n, v)' = Parts(n, v)
  BY <1>1, <1>4 DEF Parts
<1> QED
  BY <1>1, <1>3, <1>5 DEF Faithful

\* An app that counts, for its vhost: the hosts, their number and their parts.
OneMore(n, v, group, tasks) ==
    /\ HostsListed(n, Of(n, v))' = HostsListed(n, Of(n, v)) \cup tasks
    /\ tasks \cap HostsListed(n, Of(n, v)) = {}
    /\ Cardinality(Of(n, v))' = Cardinality(Of(n, v)) + 1
    /\ PartsGrow(Parts(n, v), Parts(n, v)', group, tasks)
    /\ n \notin config.routingTag /\ Of(n, v) # {} => DOMAIN Parts(n, v) = {group}

\* It does what OneMore says.
LEMMA NextOfVhost ==
    ASSUME TypeInv, NEW n \in Namespaces, NEW app, Reads(n, app), Counts(n, app)
    PROVE  OneMore(n, Lower[app.vhost], GroupName(n, app),
                   TasksAt(n, Len(listing[n]) + 1, app.size))
<1>a. PICK v : v = Lower[app.vhost]
  OBVIOUS
<1>b. PICK group : group = GroupName(n, app)
  OBVIOUS
<1>c. PICK k : k = Len(listing[n]) + 1
  OBVIOUS
<1>d. PICK tasks : tasks = TasksAt(n, k, app.size)
  OBVIOUS
<1>1. /\ k \notin Of(n, v) /\ Of(n, v)' = Of(n, v) \cup {k}
      /\ \A g : OfGroup(n, v, g)' =
            IF g = group THEN OfGroup(n, v, g) \cup {k} ELSE OfGroup(n, v, g)
      /\ \A ks \in SUBSET (1 .. Len(listing[n])) :
            /\ HostsListed(n, ks)' = HostsListed(n, ks)
            /\ HostsListed(n, ks \cup {k})' = HostsListed(n, ks) \cup tasks
  <2>1. ListedNext(n, app, k)
    BY <1>c, NextListed
  <2>2. tasks = {<<n, k, i>> : i \in 1 .. app.size}
    BY <1>d DEF TasksAt
  <2> QED
    BY <1>a, <1>b, <2>1, <2>2 DEF ListedNext
<1>2. /\ Of(n, v) \subseteq 1 .. Len(listing[n]) /\ IsFiniteSet(Of(n, v))
      /\ \A g : OfGroup(n, v, g) \subseteq Of(n, v)
  BY OfFacts
<1>3. group \in Names /\ v \in Names
  BY <1>a, <1>b, NamesLower, LowerAssumption DEF Vhosts, AppType, Reads
<1>4. HostsListed(n, Of(n, v))' = HostsListed(n, Of(n, v)) \cup tasks
  <2>a. PICK ks : ks = Of(n, v)
    OBVIOUS
  <2>1. HostsListed(n, ks \cup {k})' = HostsListed(n, ks) \cup tasks
    BY <1>1, <1>2, <2>a
  <2>2. HostsListed(n, Of(n, v))' = HostsListed(n, ks \cup {k})'
    BY <1>1, <2>a DEF HostsListed
  <2> QED
    BY <2>1, <2>2, <2>a
<1>5. tasks \cap HostsListed(n, Of(n, v)) = {}
  BY <1>1, <1>d, HostsOf DEF TasksAt
<1>6. Cardinality(Of(n, v))' = Cardinality(Of(n, v)) + 1
  <2>1. Cardinality(Of(n, v) \cup {k}) = Cardinality(Of(n, v)) + 1
    BY <1>1, <1>2, FS_AddElement
  <2> QED
    BY <1>1, <2>1
<1>7. DOMAIN Parts(n, v)' = DOMAIN Parts(n, v) \cup {group}
  BY <1>1, <1>3 DEF Parts
<1>8. ASSUME NEW g \in DOMAIN Parts(n, v) \ {group}
      PROVE  Parts(n, v)'[g] = Parts(n, v)[g]
  <2>1. /\ Parts(n, v)'[g] = HostsListed(n, OfGroup(n, v, g))'
        /\ Parts(n, v)[g] = HostsListed(n, OfGroup(n, v, g))
    BY <1>7 DEF Parts
  <2>2. /\ OfGroup(n, v, g)' = OfGroup(n, v, g)
        /\ OfGroup(n, v, g) \in SUBSET (1 .. Len(listing[n]))
    BY <1>1, <1>2
  <2> QED
    BY <1>1, <2>1, <2>2
<1>9. Parts(n, v)'[group] = IF group \in DOMAIN Parts(n, v)
                           THEN Parts(n, v)[group] \cup tasks ELSE tasks
  <2>1. Parts(n, v)'[group] = HostsListed(n, OfGroup(n, v, group))'
    BY <1>7 DEF Parts
  <2>2. /\ OfGroup(n, v, group)' = OfGroup(n, v, group) \cup {k}
        /\ OfGroup(n, v, group) \in SUBSET (1 .. Len(listing[n]))
    BY <1>1, <1>2
  <2>3. Parts(n, v)'[group] = HostsListed(n, OfGroup(n, v, group)) \cup tasks
    BY <1>1, <2>1, <2>2
  <2>4. CASE group \in DOMAIN Parts(n, v)
    BY <2>3, <2>4 DEF Parts
  <2>5. CASE group \notin DOMAIN Parts(n, v)
    <3>1. OfGroup(n, v, group) = {}
      BY <1>3, <2>5 DEF Parts
    <3> QED
      BY <2>3, <2>5, <3>1 DEF HostsListed
  <2> QED
    BY <2>4, <2>5
<1>10. ASSUME n \notin config.routingTag, Of(n, v) # {}
       PROVE  DOMAIN Parts(n, v) = {group}
  <2>1. group = v
    BY <1>10, <1>a, <1>b DEF GroupName
  <2>2. \A g : OfGroup(n, v, g) = IF g = v THEN Of(n, v) ELSE {}
    BY <1>10 DEF OfGroup
  <2> QED
    BY <1>3, <1>10, <2>1, <2>2 DEF Parts
<1> QED
  <2>1. PartsGrow(Parts(n, v), Parts(n, v)', group, tasks)
    BY <1>7, <1>8, <1>9 DEF PartsGrow
  <2>2. OneMore(n, v, group, tasks)
    BY <1>4, <1>5, <1>6, <1>10, <2>1 DEF OneMore
  <2> QED
    BY <1>a, <1>b, <1>c, <1>d, <2>2

\* The first app of a vhost.
LEMMA FaithfulFirst ==
    ASSUME TypeInv, NEW n \in Namespaces, NEW app, Reads(n, app), Counts(n, app),
           NEW v, v = Lower[app.vhost], Of(n, v) = {}, NEW group, group = GroupName(n, app),
           NEW t \in Seq(Host), t # <<>>, IsInjective(t),
           ToSet(t) = TasksAt(n, Len(listing[n]) + 1, app.size),
           NEW new, new.hosts = t, DOMAIN new.groups = {group}, new.groups[group] = t
    PROVE  Faithful(n, v, new)'
<1>1. /\ HostsListed(n, Of(n, v))' = HostsListed(n, Of(n, v)) \cup ToSet(t)
      /\ Cardinality(Of(n, v))' = Cardinality(Of(n, v)) + 1
      /\ DOMAIN Parts(n, v)' = DOMAIN Parts(n, v) \cup {group}
      /\ Parts(n, v)'[group] = IF group \in DOMAIN Parts(n, v)
                               THEN Parts(n, v)[group] \cup ToSet(t) ELSE ToSet(t)
  <2>1. OneMore(n, v, group, ToSet(t))
    <3>1. OneMore(n, Lower[app.vhost], GroupName(n, app), TasksAt(n, Len(listing[n]) + 1, app.size))
      BY NextOfVhost
    <3> QED
      BY <3>1
  <2> QED
    BY <2>1 DEF OneMore, PartsGrow
<1>2. DOMAIN Parts(n, v) = {} /\ HostsListed(n, Of(n, v)) = {}
  BY DEF Parts, OfGroup, HostsListed
<1>3. Cardinality(Of(n, v)) = 0
  BY FS_EmptySet
<1>4. /\ HostsListed(n, Of(n, v))' = ToSet(t) /\ Cardinality(Of(n, v))' = 1
      /\ DOMAIN Parts(n, v)' = {group} /\ Parts(n, v)'[group] = ToSet(t)
  BY <1>1, <1>2, <1>3
<1>5. Holds(new, ToSet(t), Parts(n, v)', 1, n, config'.routingTag)
  BY <1>4, FirstHolds
<1> QED
  BY <1>4, <1>5 DEF Faithful, Reads

\* Another one.
LEMMA FaithfulMerged ==
    ASSUME TypeInv, NEW n \in Namespaces, NEW app, Reads(n, app), Counts(n, app),
           NEW v, v = Lower[app.vhost], Of(n, v) # {}, NEW group, group = GroupName(n, app),
           NEW t \in Seq(Host), t # <<>>, IsInjective(t),
           ToSet(t) = TasksAt(n, Len(listing[n]) + 1, app.size),
           NEW old, Faithful(n, v, old), NEW new, MergedWith(old, new, t, group)
    PROVE  Faithful(n, v, new)'
<1>a. PICK parts : parts = Parts(n, v)
  OBVIOUS
<1>b. PICK parts2 : parts2 = Parts(n, v)'
  OBVIOUS
<1>c. PICK all : all = HostsListed(n, Of(n, v))
  OBVIOUS
<1>d. PICK count : count = Cardinality(Of(n, v))
  OBVIOUS
<1>e. PICK tagged : tagged = config.routingTag
  OBVIOUS
<1>1. /\ HostsListed(n, Of(n, v))' = all \cup ToSet(t) /\ ToSet(t) \cap all = {}
      /\ Cardinality(Of(n, v))' = count + 1
      /\ PartsGrow(parts, parts2, group, ToSet(t))
      /\ n \notin tagged => DOMAIN parts = {group}
  <2>1. OneMore(n, v, group, ToSet(t))
    <3>1. OneMore(n, Lower[app.vhost], GroupName(n, app), TasksAt(n, Len(listing[n]) + 1, app.size))
      BY NextOfVhost
    <3> QED
      BY <3>1
  <2> QED
    BY <1>a, <1>b, <1>c, <1>d, <1>e, <2>1 DEF OneMore
<1>2. count \in Nat /\ count > 0
  BY <1>d, <1>e, OfFacts
<1>3. Holds(old, all, parts, count, n, tagged)
  BY <1>a, <1>c, <1>d, <1>e DEF Faithful
<1>4. Holds(new, all \cup ToSet(t), parts2, count + 1, n, tagged)
  <2>1. /\ ToSet(t) \cap all = {} /\ count > 0 /\ PartsGrow(parts, parts2, group, ToSet(t))
        /\ n \notin tagged => DOMAIN parts = {group}
    BY <1>1, <1>2
  <2> QED
    BY <1>2, <1>3, <2>1, MergedHolds
<1>5. Holds(new, HostsListed(n, Of(n, v))', Parts(n, v)', Cardinality(Of(n, v))', n, config'.routingTag)
  BY <1>1, <1>4, <1>b, <1>e DEF Reads
<1> QED
  BY <1>5 DEF Faithful
----------------------------------------------------------------------------
(* The invariant.                                                          *)

\* What the next invariants are preserved by: what apps holds is faithful to what
\* is listed after a turn of the loop.
AppsFaithful(n) ==
    /\ DOMAIN apps' = {v \in Vhosts : Of(n, v)' # {}}
    /\ \A v \in DOMAIN apps' : GoodApp(arrays', apps'[v])
    /\ \A v \in DOMAIN apps' : \A a : a = View(arrays', apps'[v]) => Faithful(n, v, a)'

\* An app that is passed over.
LEMMA PassedOver ==
    ASSUME TypeInv, SlicesInv, AppsInv, NEW n \in Namespaces, n = ns, NEW app, Reads(n, app),
           ~Counts(n, app), UNCHANGED <<arrays, apps>>
    PROVE  AppsFaithful(n)
<1>1. \A v : Of(n, v)' = Of(n, v)
  BY NextListed DEF ListedNext
<1>2. \A v, a : Faithful(n, v, a)' <=> Faithful(n, v, a)
  BY FaithfulKept
<1>3. DOMAIN apps' = {v \in Vhosts : Of(n, v)' # {}}
  BY <1>1 DEF AppsInv
<1>4. \A v \in DOMAIN apps' : GoodApp(arrays', apps'[v])
  BY DEF SlicesInv
<1>5. ASSUME NEW v \in DOMAIN apps', NEW a, a = View(arrays', apps'[v])
      PROVE  Faithful(n, v, a)'
  <2>1. a = View(arrays, apps[v]) /\ v \in DOMAIN apps
    BY <1>5
  <2>2. Faithful(n, v, a)
    BY <2>1 DEF AppsInv
  <2> QED
    BY <1>2, <2>2
<1> QED
  BY <1>3, <1>4, <1>5 DEF AppsFaithful

\* What a turn of the loop does to the other vhosts: nothing.
LEMMA OtherVhosts ==
    ASSUME TypeInv, SlicesInv, AppsInv, NEW n \in Namespaces, n = ns, NEW app, Reads(n, app),
           NEW v \in DOMAIN apps, v # Lower[app.vhost], v \in DOMAIN apps', apps'[v] = apps[v],
           \A s \in SlicesOf(arrays) :
              s \in SlicesOf(arrays') /\ Elements(arrays', s) = Elements(arrays, s)
    PROVE  /\ GoodApp(arrays', apps'[v])
           /\ \A a : a = View(arrays', apps'[v]) => Faithful(n, v, a)'
<1>1. GoodApp(arrays, apps[v]) /\ Faithful(n, v, View(arrays, apps[v]))
  BY DEF SlicesInv, AppsInv
<1>2. GoodApp(arrays', apps'[v]) /\ View(arrays', apps'[v]) = View(arrays, apps[v])
  BY <1>1, AppKept
<1>3. ASSUME NEW a, a = View(arrays', apps'[v])
      PROVE  Faithful(n, v, a)'
  <2>1. Faithful(n, v, a)
    BY <1>1, <1>2, <1>3
  <2> QED
    BY <2>1, FaithfulKept
<1> QED
  BY <1>2, <1>3

\* The first app of a vhost.
LEMMA Added ==
    ASSUME TypeInv, SlicesInv, AppsInv, NEW n \in Namespaces, n = ns, NEW app, Reads(n, app),
           Counts(n, app), Lower[app.vhost] \notin DOMAIN apps,
           NEW t \in Seq(Host), t # <<>>, IsInjective(t),
           ToSet(t) = TasksAt(n, Len(listing[n]) + 1, app.size),
           NEW mem \in Seq(Seq(Host)), NEW hosts \in SlicesOf(mem), hosts.len > 0,
           Elements(mem, hosts) = t,
           \A s \in SlicesOf(arrays) : /\ s \in SlicesOf(mem) /\ s.array # hosts.array
                                       /\ Elements(mem, s) = Elements(arrays, s),
           AddVhost(Lower[app.vhost], GroupName(n, app), mem, hosts)
    PROVE  arrays' \in Seq(Seq(Host)) /\ AppsFaithful(n)
<1>a. PICK vhost : vhost = Lower[app.vhost]
  OBVIOUS
<1>b. PICK group : group = GroupName(n, app)
  OBVIOUS
<1>1. /\ arrays' = mem /\ DOMAIN apps' = DOMAIN apps \cup {vhost}
      /\ apps'[vhost] = [hosts |-> hosts, groups |-> [g \in {group} |-> hosts]]
      /\ \A v \in DOMAIN apps \ {vhost} : apps'[v] = apps[v]
  BY <1>a, <1>b DEF AddVhost
<1>2. vhost \in Vhosts
  BY <1>a, NamesLower DEF Reads
<1>3. DOMAIN apps' = {v \in Vhosts : Of(n, v)' # {}}
  <2>1. \A v : Of(n, v)' = IF v = vhost THEN Of(n, v) \cup {Len(listing[n]) + 1} ELSE Of(n, v)
    BY <1>a, NextListed DEF ListedNext
  <2> QED
    BY <1>1, <1>2, <2>1 DEF AppsInv
<1>4. Of(n, vhost) = {}
  BY <1>2, <1>a DEF AppsInv
<1>5. GoodApp(arrays', apps'[vhost])
  BY <1>1 DEF GoodApp
<1>6. ASSUME NEW a, a = View(arrays', apps'[vhost])
      PROVE  Faithful(n, vhost, a)'
  <2>1. a.hosts = t /\ DOMAIN a.groups = {group} /\ a.groups[group] = t
    BY <1>1, <1>6 DEF View
  <2> QED
    BY <1>4, <1>a, <1>b, <2>1, FaithfulFirst
<1>7. ASSUME NEW v \in DOMAIN apps', v # vhost
      PROVE  /\ GoodApp(arrays', apps'[v])
             /\ \A a : a = View(arrays', apps'[v]) => Faithful(n, v, a)'
  BY <1>1, <1>7, <1>a, OtherVhosts
<1> QED
  BY <1>1, <1>3, <1>5, <1>6, <1>7 DEF AppsFaithful

\* Another one.
LEMMA Merged ==
    ASSUME TypeInv, SlicesInv, AppsInv, NEW n \in Namespaces, n = ns, NEW app, Reads(n, app),
           Counts(n, app), Lower[app.vhost] \in DOMAIN apps,
           NEW t \in Seq(Host), t # <<>>, IsInjective(t),
           ToSet(t) = TasksAt(n, Len(listing[n]) + 1, app.size),
           NEW mem \in Seq(Seq(Host)), NEW hosts \in SlicesOf(mem), hosts.len > 0,
           Elements(mem, hosts) = t,
           \A s \in SlicesOf(arrays) : /\ s \in SlicesOf(mem) /\ s.array # hosts.array
                                       /\ Elements(mem, s) = Elements(arrays, s),
           MergeVhost(Lower[app.vhost], GroupName(n, app), mem, hosts)
    PROVE  arrays' \in Seq(Seq(Host)) /\ AppsFaithful(n)
<1>a. PICK vhost : vhost = Lower[app.vhost]
  OBVIOUS
<1>b. PICK group : group = GroupName(n, app)
  OBVIOUS
<1>c. PICK old : old = View(arrays, apps[vhost])
  OBVIOUS
<1>1. /\ arrays \in Seq(Seq(Host)) /\ GoodApp(arrays, apps[vhost]) /\ vhost \in DOMAIN apps
      /\ vhost \in Vhosts /\ Faithful(n, vhost, old) /\ Of(n, vhost) # {}
  BY <1>a, <1>c DEF TypeInv, SlicesInv, AppsInv
<1>2. /\ arrays' \in Seq(Seq(Host))
      /\ \A s \in SlicesOf(arrays) :
            s \in SlicesOf(arrays') /\ Elements(arrays', s) = Elements(arrays, s)
      /\ DOMAIN apps' = DOMAIN apps
      /\ \A v \in DOMAIN apps \ {vhost} : apps'[v] = apps[v]
      /\ GoodApp(arrays', apps'[vhost])
      /\ MergedWith(View(arrays, apps[vhost]), View(arrays', apps'[vhost]), t, group)
  <2>1. VhostMerged(vhost, t, group)
    BY <1>1, <1>a, <1>b, MergeVhostCorrect
  <2> QED
    BY <2>1 DEF VhostMerged
<1>3. DOMAIN apps' = {v \in Vhosts : Of(n, v)' # {}}
  <2>1. \A v : Of(n, v)' = IF v = vhost THEN Of(n, v) \cup {Len(listing[n]) + 1} ELSE Of(n, v)
    BY <1>a, NextListed DEF ListedNext
  <2> QED
    BY <1>1, <1>2, <2>1 DEF AppsInv
<1>4. ASSUME NEW a, a = View(arrays', apps'[vhost])
      PROVE  Faithful(n, vhost, a)'
  <2>1. MergedWith(old, a, t, group)
    BY <1>2, <1>4, <1>c
  <2> QED
    BY <1>1, <1>a, <1>b, <2>1, FaithfulMerged
<1>5. ASSUME NEW v \in DOMAIN apps', v # vhost
      PROVE  /\ GoodApp(arrays', apps'[v])
             /\ \A a : a = View(arrays', apps'[v]) => Faithful(n, v, a)'
  BY <1>2, <1>5, <1>a, OtherVhosts
<1> QED
  BY <1>2, <1>3, <1>4, <1>5 DEF AppsFaithful

\* A turn of the loop.
LEMMA SyncAppInv ==
    ASSUME GroupingInv, ns # NoNamespace, NEW app \in Listed[ns], SyncApp(app)
    PROVE  GroupingInv'
<1>a. PICK n : n = ns
  OBVIOUS
<1>b. PICK k : k = Len(listing[n]) + 1
  OBVIOUS
<1>1. /\ TypeInv /\ SlicesInv /\ AppsInv /\ StoredInv /\ MergedInv
      /\ n \in Namespaces /\ n \notin synced /\ arrays \in Seq(Seq(Host)) /\ merged = {}
  BY <1>a DEF GroupingInv, TypeInv
<1>2. /\ app \in AppType /\ app.size \in Nat
      /\ Capacity(app.size) \in Nat /\ Capacity(app.size) >= app.size
  BY <1>1, <1>a, ConfigAssumption DEF AppType
<1>3. /\ listing[n] \in Seq(AppType) /\ Len(listing[n]) \in Nat /\ k \in Nat
  BY <1>1, <1>b, LenProperties DEF TypeInv
<1>4. /\ listing' = [listing EXCEPT ![n] = Append(listing[n], app)]
      /\ listing'[n] = Append(listing[n], app)
      /\ \A m \in Namespaces \ {n} : listing'[m] = listing[m]
      /\ UNCHANGED <<config, synced, ns, stored, merged, allApps>>
  BY <1>1, <1>a DEF SyncApp, TypeInv
<1>5. Len(listing'[n]) = k /\ listing'[n][k] = app
  BY <1>2, <1>3, <1>4, <1>b, AppendProperties
<1>6. Reads(n, app)
  BY <1>2, <1>4 DEF Reads
<1>c. PICK t : t = TaskList(n, k, app.size)
  OBVIOUS
<1>7. /\ t \in Seq(Host) /\ Len(t) = app.size /\ IsInjective(t)
      /\ ToSet(t) = TasksAt(n, k, app.size)
  BY <1>1, <1>2, <1>3, <1>c, TasksOf
<1>d. PICK mem : mem = Append(arrays, NewList(t))
  OBVIOUS
<1>e. PICK hosts : hosts = [array |-> Len(mem), len |-> app.size]
  OBVIOUS
<1>8. IF app.size > 0 /\ Admitted(n, Lower[app.vhost])
      THEN IF Lower[app.vhost] \in DOMAIN apps
           THEN MergeVhost(Lower[app.vhost], GroupName(n, app), mem, hosts)
           ELSE AddVhost(Lower[app.vhost], GroupName(n, app), mem, hosts)
      ELSE UNCHANGED <<arrays, apps>>
  <2>1. Tasks(n, Len(listing'[n])) = t
    BY <1>5, <1>c DEF Tasks, TaskList
  <2> QED
    BY <1>a, <1>d, <1>e, <2>1 DEF SyncApp
<1>9. /\ mem \in Seq(Seq(Host)) /\ hosts \in SlicesOf(mem) /\ hosts.len = app.size
      /\ Elements(mem, hosts) = t
      /\ \A s \in SlicesOf(arrays) : /\ s \in SlicesOf(mem) /\ s.array # hosts.array
                                     /\ Elements(mem, s) = Elements(arrays, s)
  <2>1. /\ mem = Append(arrays, NewList(t)) /\ hosts = [array |-> Len(mem), len |-> Len(t)]
        /\ Capacity(Len(t)) \in Nat /\ Capacity(Len(t)) >= Len(t)
    BY <1>2, <1>7, <1>d, <1>e
  <2>2. ReadInto(arrays, t, mem, hosts)
    BY <1>1, <1>7, <2>1, ReadApp
  <2> QED
    BY <1>7, <2>2 DEF ReadInto
<1>10. arrays' \in Seq(Seq(Host)) /\ AppsFaithful(n)
  <2>1. CASE ~Counts(n, app)
    <3>1. UNCHANGED <<arrays, apps>>
      BY <1>8, <2>1 DEF Counts
    <3> QED
      BY <1>1, <1>6, <1>a, <2>1, <3>1, PassedOver
  <2>2. CASE Counts(n, app)
    <3>1. hosts.len > 0 /\ t # <<>> /\ ToSet(t) = TasksAt(n, Len(listing[n]) + 1, app.size)
      BY <1>7, <1>9, <1>b, <2>2, EmptySeq DEF Counts
    <3>2. CASE Lower[app.vhost] \in DOMAIN apps
      <4>1. MergeVhost(Lower[app.vhost], GroupName(n, app), mem, hosts)
        BY <1>8, <2>2, <3>2 DEF Counts
      <4> QED
        BY <1>1, <1>6, <1>7, <1>9, <1>a, <2>2, <3>1, <3>2, <4>1, Merged
    <3>3. CASE Lower[app.vhost] \notin DOMAIN apps
      <4>1. AddVhost(Lower[app.vhost], GroupName(n, app), mem, hosts)
        BY <1>8, <2>2, <3>3 DEF Counts
      <4> QED
        BY <1>1, <1>6, <1>7, <1>9, <1>a, <2>2, <3>1, <3>3, <4>1, Added
    <3> QED
      BY <3>2, <3>3
  <2> QED
    BY <2>1, <2>2
<1>11. TypeInv'
  <2>1. listing' \in [Namespaces -> Seq(AppType)]
    <3>1. Append(listing[n], app) \in Seq(AppType)
      BY <1>2, <1>3
    <3> QED
      BY <1>1, <1>4, <3>1 DEF TypeInv
  <2>2. \A m \in Namespaces \ (synced \cup {n}) : listing'[m] = <<>>
    BY <1>1, <1>4, <1>a DEF TypeInv
  <2> QED
    BY <1>1, <1>4, <1>10, <1>a, <2>1, <2>2 DEF TypeInv
<1>12. SlicesInv'
  BY <1>10 DEF SlicesInv, AppsFaithful
<1>13. AppsInv'
  BY <1>4, <1>10, <1>a DEF AppsInv, AppsFaithful
<1>14. StoredInv'
  <2>1. ASSUME NEW m \in Namespaces
        PROVE  /\ m \notin synced' => DOMAIN stored'[m] = {}
               /\ m \in synced' => DOMAIN stored'[m] = {v \in Vhosts : Of(m, v)' # {}}
               /\ \A v \in DOMAIN stored'[m] : \A a : a = stored'[m][v] => Faithful(m, v, a)'
    <3>1. CASE m \in synced
      <4>1. listing'[m] = listing[m] /\ config' = config
        BY <1>1, <1>4, <3>1
      <4>2. (\A v : Of(m, v)' = Of(m, v)) /\ \A v, a : Faithful(m, v, a)' <=> Faithful(m, v, a)
        BY <4>1, OthersKept
      <4> QED
        BY <1>1, <1>4, <3>1, <4>2 DEF StoredInv
    <3>2. CASE m \notin synced
      BY <1>1, <1>4, <3>2 DEF StoredInv
    <3> QED
      BY <3>1, <3>2
  <2> QED
    BY <2>1 DEF StoredInv
<1>15. MergedInv'
  <2>1. DOMAIN allApps = {} /\ merged' = {} /\ allApps' = allApps
    BY <1>1, <1>4 DEF MergedInv, Sources
  <2> QED
    BY <2>1 DEF MergedInv, Sources
<1> QED
  BY <1>11, <1>12, <1>13, <1>14, <1>15 DEF GroupingInv

\* The apps of a namespace are stored, and the next one begins.
LEMMA StoreInv ==
    ASSUME GroupingInv, Store
    PROVE  GroupingInv'
<1>a. PICK n : n = ns
  OBVIOUS
<1>1. /\ TypeInv /\ SlicesInv /\ AppsInv /\ StoredInv /\ MergedInv
      /\ n \in Namespaces /\ n \notin synced /\ merged = {}
  BY <1>a DEF GroupingInv, TypeInv, Store
<1>2. /\ stored' = [stored EXCEPT ![n] = [v \in DOMAIN apps |-> View(arrays, apps[v])]]
      /\ synced' = synced \cup {n} /\ ns' = NextOf(Namespaces \ synced')
      /\ arrays' = <<>> /\ apps' = NoApps
      /\ UNCHANGED <<config, listing, merged, allApps>>
  BY <1>a DEF Store, View
<1>3. IF ns' = NoNamespace THEN synced' = Namespaces ELSE ns' \in Namespaces \ synced'
  <2>1. synced' \subseteq Namespaces
    BY <1>1, <1>2 DEF TypeInv
  <2> QED
    BY <1>2, <2>1, NamesAssumption DEF NextOf
<1>4. \A m \in Namespaces \ synced' : listing'[m] = <<>>
  BY <1>1, <1>2, <1>a DEF TypeInv
<1>5. TypeInv'
  <2>1. <<>> \in Seq(Seq(Host))
    OBVIOUS
  <2> QED
    BY <1>1, <1>2, <1>3, <1>4, <2>1 DEF TypeInv
<1>6. DOMAIN apps' = {}
  BY <1>2 DEF NoApps
<1>7. SlicesInv'
  BY <1>6 DEF SlicesInv
<1>8. AppsInv'
  <2>1. ASSUME NEW m \in Namespaces, m = ns', NEW v
        PROVE  Of(m, v)' = {}
    <3>1. listing'[m] = <<>>
      BY <1>3, <1>4, <2>1, NamesAssumption
    <3> QED
      BY <3>1 DEF Of
  <2> QED
    BY <1>6, <2>1 DEF AppsInv
<1>9. StoredInv'
  <2>1. ASSUME NEW m \in Namespaces
        PROVE  /\ m \notin synced' => DOMAIN stored'[m] = {}
               /\ m \in synced' => DOMAIN stored'[m] = {v \in Vhosts : Of(m, v)' # {}}
               /\ \A v \in DOMAIN stored'[m] : \A a : a = stored'[m][v] => Faithful(m, v, a)'
    <3>1. (\A v : Of(m, v)' = Of(m, v)) /\ \A v, a : Faithful(m, v, a)' <=> Faithful(m, v, a)
      BY <1>2, OthersKept
    <3>2. CASE m = n
      <4>1. stored'[m] = [v \in DOMAIN apps |-> View(arrays, apps[v])]
        BY <1>1, <1>2, <3>2 DEF TypeInv
      <4> QED
        BY <1>1, <1>2, <1>a, <3>1, <3>2, <4>1 DEF AppsInv
    <3>3. CASE m # n
      <4>1. stored'[m] = stored[m]
        BY <1>1, <1>2, <3>3 DEF TypeInv
      <4> QED
        BY <1>1, <1>2, <3>1, <3>3, <4>1 DEF StoredInv
    <3> QED
      BY <3>2, <3>3
  <2> QED
    BY <2>1 DEF StoredInv
<1>10. MergedInv'
  <2>1. DOMAIN allApps = {} /\ merged' = {} /\ allApps' = allApps
    BY <1>1, <1>2 DEF MergedInv, Sources
  <2> QED
    BY <2>1 DEF MergedInv, Sources
<1> QED
  BY <1>5, <1>7, <1>8, <1>9, <1>10 DEF GroupingInv

\* The hosts that the namespaces merged so far have for a vhost or for a group.
SourceHosts(v) == UNION {ToSet(stored[n][v].hosts) : n \in Sources(v)}
SourceGroup(v, g) == UNION {ToSet(stored[n][v].groups[g]) : n \in GroupSources(v, g)}

\* What one more namespace adds to them.
OneMoreSource(n, v) ==
    /\ Sources(v)' = IF v \in DOMAIN stored[n] THEN Sources(v) \cup {n} ELSE Sources(v)
    /\ SourceHosts(v)' = IF v \in DOMAIN stored[n]
                         THEN SourceHosts(v) \cup ToSet(stored[n][v].hosts) ELSE SourceHosts(v)
    /\ \A g : IF v \in DOMAIN stored[n] /\ g \in DOMAIN stored[n][v].groups
              THEN /\ GroupSources(v, g)' # {}
                   /\ SourceGroup(v, g)' = SourceGroup(v, g) \cup ToSet(stored[n][v].groups[g])
              ELSE /\ GroupSources(v, g)' = GroupSources(v, g)
                   /\ SourceGroup(v, g)' = SourceGroup(v, g)

\* It adds what OneMoreSource says.
LEMMA SourceAdded ==
    ASSUME TypeInv, NEW n \in Namespaces, merged' = merged \cup {n}, stored' = stored, NEW v
    PROVE  OneMoreSource(n, v)
<1>1. Sources(v)' = IF v \in DOMAIN stored[n] THEN Sources(v) \cup {n} ELSE Sources(v)
  BY DEF Sources, ServedBy, TypeInv
<1>2. SourceHosts(v)' = IF v \in DOMAIN stored[n]
                        THEN SourceHosts(v) \cup ToSet(stored[n][v].hosts) ELSE SourceHosts(v)
  <2> DEFINE hostsOf(m) == ToSet(stored[m][v].hosts)
  <2>1. /\ SourceHosts(v) = UNION {hostsOf(m) : m \in Sources(v)}
        /\ SourceHosts(v)' = UNION {hostsOf(m) : m \in Sources(v)'}
    BY DEF SourceHosts
  <2>2. hostsOf(n) = ToSet(stored[n][v].hosts)
    OBVIOUS
  <2> HIDE DEF hostsOf
  <2>3. ASSUME NEW x
        PROVE  x \in UNION {hostsOf(m) : m \in Sources(v) \cup {n}} <=>
                  x \in UNION {hostsOf(m) : m \in Sources(v)} \/ x \in hostsOf(n)
    <3>1. /\ x \in UNION {hostsOf(m) : m \in Sources(v) \cup {n}} <=>
                \E m \in Sources(v) \cup {n} : x \in hostsOf(m)
          /\ x \in UNION {hostsOf(m) : m \in Sources(v)} <=> \E m \in Sources(v) : x \in hostsOf(m)
      OBVIOUS
    <3> QED
      BY <3>1
  <2>4. UNION {hostsOf(m) : m \in Sources(v) \cup {n}} =
           (UNION {hostsOf(m) : m \in Sources(v)}) \cup hostsOf(n)
    BY <2>3
  <2> QED
    BY <1>1, <2>1, <2>2, <2>4
<1>3. ASSUME NEW g
      PROVE  IF v \in DOMAIN stored[n] /\ g \in DOMAIN stored[n][v].groups
             THEN /\ GroupSources(v, g)' # {}
                  /\ SourceGroup(v, g)' = SourceGroup(v, g) \cup ToSet(stored[n][v].groups[g])
             ELSE /\ GroupSources(v, g)' = GroupSources(v, g)
                  /\ SourceGroup(v, g)' = SourceGroup(v, g)
  <2>1. GroupSources(v, g)' = IF v \in DOMAIN stored[n] /\ g \in DOMAIN stored[n][v].groups
                              THEN GroupSources(v, g) \cup {n} ELSE GroupSources(v, g)
    BY <1>1 DEF GroupSources
  <2> DEFINE hostsOf(m) == ToSet(stored[m][v].groups[g])
  <2>2. /\ SourceGroup(v, g) = UNION {hostsOf(m) : m \in GroupSources(v, g)}
        /\ SourceGroup(v, g)' = UNION {hostsOf(m) : m \in GroupSources(v, g)'}
    BY DEF SourceGroup
  <2>3. hostsOf(n) = ToSet(stored[n][v].groups[g])
    OBVIOUS
  <2> HIDE DEF hostsOf
  <2>4. ASSUME NEW x
        PROVE  x \in UNION {hostsOf(m) : m \in GroupSources(v, g) \cup {n}} <=>
                  x \in UNION {hostsOf(m) : m \in GroupSources(v, g)} \/ x \in hostsOf(n)
    <3>1. /\ x \in UNION {hostsOf(m) : m \in GroupSources(v, g) \cup {n}} <=>
                \E m \in GroupSources(v, g) \cup {n} : x \in hostsOf(m)
          /\ x \in UNION {hostsOf(m) : m \in GroupSources(v, g)} <=>
                \E m \in GroupSources(v, g) : x \in hostsOf(m)
      OBVIOUS
    <3> QED
      BY <3>1
  <2>5. UNION {hostsOf(m) : m \in GroupSources(v, g) \cup {n}} =
           (UNION {hostsOf(m) : m \in GroupSources(v, g)}) \cup hostsOf(n)
    BY <2>4
  <2> QED
    BY <2>1, <2>2, <2>3, <2>5
<1> QED
  BY <1>1, <1>2, <1>3 DEF OneMoreSource

\* What is stored is sequences of hosts, in groups that have a name.
LEMMA StoredHosts ==
    ASSUME StoredInv, NEW n \in Namespaces, NEW v \in DOMAIN stored[n]
    PROVE  /\ stored[n][v].hosts \in Seq(Host) /\ stored[n][v].hosts # <<>>
           /\ DOMAIN stored[n][v].groups = {g \in Names : OfGroup(n, v, g) # {}}
           /\ \A g \in DOMAIN stored[n][v].groups : stored[n][v].groups[g] \in Seq(Host)
           /\ v \in Vhosts
<1>1. Faithful(n, v, stored[n][v]) /\ v \in Vhosts
  BY DEF StoredInv
<1> QED
  BY <1>1 DEF Faithful, Holds, Parts

\* MergedApp in terms of SourceHosts and SourceGroup.
LEMMA MergedAppIs ==
    ASSUME NEW v, NEW app
    PROVE  MergedApp(v, app) <=>
              /\ app = [hosts |-> app.hosts, groups |-> app.groups, tagged |-> app.tagged]
              /\ app.hosts \in Seq(Host) /\ ToSet(app.hosts) = SourceHosts(v)
              /\ DOMAIN app.groups = {g \in Names : GroupSources(v, g) # {}}
              /\ \A g \in DOMAIN app.groups : /\ app.groups[g] \in Seq(Host)
                                              /\ ToSet(app.groups[g]) = SourceGroup(v, g)
              /\ \E n \in Sources(v) : app.tagged = (n \in config.routingTag)
BY DEF MergedApp, SourceHosts, SourceGroup

\* A namespace that does not serve the vhost changes nothing for it.
LEMMA MergeUntouched ==
    ASSUME TypeInv, NEW n \in Namespaces, merged' = merged \cup {n},
           UNCHANGED <<stored, config>>, NEW v, v \notin DOMAIN stored[n], NEW a
    PROVE  MergedApp(v, a)' <=> MergedApp(v, a)
<1>1. /\ Sources(v)' = Sources(v) /\ SourceHosts(v)' = SourceHosts(v)
      /\ \A g : GroupSources(v, g)' = GroupSources(v, g) /\ SourceGroup(v, g)' = SourceGroup(v, g)
  BY SourceAdded DEF OneMoreSource
<1>2. MergedApp(v, a)' <=>
              /\ a = [hosts |-> a.hosts, groups |-> a.groups, tagged |-> a.tagged]
              /\ a.hosts \in Seq(Host) /\ ToSet(a.hosts) = SourceHosts(v)'
              /\ DOMAIN a.groups = {g \in Names : GroupSources(v, g)' # {}}
              /\ \A g \in DOMAIN a.groups : /\ a.groups[g] \in Seq(Host)
                                            /\ ToSet(a.groups[g]) = SourceGroup(v, g)'
              /\ \E m \in Sources(v)' : a.tagged = (m \in config'.routingTag)
  BY DEF MergedApp, SourceHosts, SourceGroup
<1> QED
  BY <1>1, <1>2, MergedAppIs

\* The first namespace that serves a vhost.
LEMMA MergeFirst ==
    ASSUME TypeInv, StoredInv, NEW n \in Namespaces, merged' = merged \cup {n},
           UNCHANGED <<stored, config>>, NEW v \in DOMAIN stored[n], Sources(v) = {}, NEW a,
           a = [hosts |-> stored[n][v].hosts, groups |-> stored[n][v].groups,
                tagged |-> n \in config.routingTag]
    PROVE  MergedApp(v, a)'
<1>1. /\ Sources(v)' = {n} /\ SourceHosts(v)' = SourceHosts(v) \cup ToSet(stored[n][v].hosts)
      /\ \A g : IF g \in DOMAIN stored[n][v].groups
                THEN /\ GroupSources(v, g)' # {}
                     /\ SourceGroup(v, g)' = SourceGroup(v, g) \cup ToSet(stored[n][v].groups[g])
                ELSE GroupSources(v, g)' = GroupSources(v, g)
  BY SourceAdded DEF OneMoreSource
<1>2. SourceHosts(v) = {} /\ \A g : GroupSources(v, g) = {} /\ SourceGroup(v, g) = {}
  BY DEF SourceHosts, GroupSources, SourceGroup
<1>3. /\ a.hosts = stored[n][v].hosts /\ a.groups = stored[n][v].groups
      /\ a.tagged = (n \in config.routingTag)
      /\ a = [hosts |-> a.hosts, groups |-> a.groups, tagged |-> a.tagged]
  OBVIOUS
<1>4. /\ a.hosts \in Seq(Host) /\ DOMAIN a.groups \subseteq Names
      /\ \A g \in DOMAIN a.groups : a.groups[g] \in Seq(Host)
  BY <1>3, StoredHosts
<1>5. ToSet(a.hosts) = SourceHosts(v)'
  BY <1>1, <1>2, <1>3
<1>6. DOMAIN a.groups = {g \in Names : GroupSources(v, g)' # {}}
  BY <1>1, <1>2, <1>3, <1>4
<1>7. \A g \in DOMAIN a.groups : ToSet(a.groups[g]) = SourceGroup(v, g)'
  BY <1>1, <1>2, <1>3
<1>8. \E m \in Sources(v)' : a.tagged = (m \in config'.routingTag)
  BY <1>1, <1>3
<1> QED
  BY <1>3, <1>4, <1>5, <1>6, <1>7, <1>8 DEF MergedApp, SourceHosts, SourceGroup

\* Another namespace that serves it.
LEMMA MergeAnother ==
    ASSUME TypeInv, StoredInv, NEW n \in Namespaces, merged' = merged \cup {n},
           UNCHANGED <<stored, config>>, NEW v \in DOMAIN stored[n],
           NEW old, MergedApp(v, old), NEW a
    PROVE  a = [old EXCEPT !.hosts = @ \o stored[n][v].hosts,
                           !.groups = MergeGroups(@, stored[n][v].groups)] => MergedApp(v, a)'
<1>0. HAVE a = [old EXCEPT !.hosts = @ \o stored[n][v].hosts,
                           !.groups = MergeGroups(@, stored[n][v].groups)]
<1>a. PICK hosts : hosts = stored[n][v].hosts
  OBVIOUS
<1>b. PICK groups : groups = stored[n][v].groups
  OBVIOUS
<1>1. /\ Sources(v)' = Sources(v) \cup {n} /\ SourceHosts(v)' = SourceHosts(v) \cup ToSet(hosts)
      /\ \A g : IF g \in DOMAIN groups
                THEN /\ GroupSources(v, g)' # {}
                     /\ SourceGroup(v, g)' = SourceGroup(v, g) \cup ToSet(groups[g])
                ELSE /\ GroupSources(v, g)' = GroupSources(v, g)
                     /\ SourceGroup(v, g)' = SourceGroup(v, g)
  BY <1>a, <1>b, SourceAdded DEF OneMoreSource
<1>2. /\ old = [hosts |-> old.hosts, groups |-> old.groups, tagged |-> old.tagged]
      /\ old.hosts \in Seq(Host) /\ ToSet(old.hosts) = SourceHosts(v)
      /\ DOMAIN old.groups = {g \in Names : GroupSources(v, g) # {}}
      /\ \A g \in DOMAIN old.groups : /\ old.groups[g] \in Seq(Host)
                                      /\ ToSet(old.groups[g]) = SourceGroup(v, g)
      /\ \E m \in Sources(v) : old.tagged = (m \in config.routingTag)
  BY MergedAppIs
<1>3. /\ hosts \in Seq(Host) /\ DOMAIN groups \subseteq Names
      /\ \A g \in DOMAIN groups : groups[g] \in Seq(Host)
  BY <1>a, <1>b, StoredHosts
<1>4. /\ a.hosts = old.hosts \o hosts /\ a.tagged = old.tagged
      /\ a.groups = MergeGroups(old.groups, groups)
      /\ a = [hosts |-> a.hosts, groups |-> a.groups, tagged |-> a.tagged]
  <2>a. PICK joined : joined = old.hosts \o hosts
    OBVIOUS
  <2>b. PICK inGroups : inGroups = MergeGroups(old.groups, groups)
    OBVIOUS
  <2>1. a = [old EXCEPT !.hosts = joined, !.groups = inGroups]
    BY <1>0, <1>a, <1>b, <2>a, <2>b
  <2>2. a = [hosts |-> joined, groups |-> inGroups, tagged |-> old.tagged]
    <3>a. PICK h, gs, b : h = old.hosts /\ gs = old.groups /\ b = old.tagged
      OBVIOUS
    <3>1. old = [hosts |-> h, groups |-> gs, tagged |-> b]
      BY <1>2, <3>a
    <3> QED
      BY <2>1, <3>1, <3>a
  <2>3. a.hosts = joined /\ a.groups = inGroups /\ a.tagged = old.tagged
    BY <2>2
  <2>4. a = [hosts |-> a.hosts, groups |-> a.groups, tagged |-> a.tagged]
    BY <2>2, <2>3
  <2> QED
    BY <2>3, <2>4, <2>a, <2>b
<1>5. a.hosts \in Seq(Host) /\ ToSet(a.hosts) = SourceHosts(v)'
  <2>1. a.hosts \in Seq(Host)
    BY <1>2, <1>3, <1>4, ConcatProperties
  <2>2. ToSet(a.hosts) = ToSet(old.hosts) \cup ToSet(hosts)
    BY <1>2, <1>3, <1>4, ToSetConcat
  <2> QED
    BY <1>1, <1>2, <2>1, <2>2
<1>6. DOMAIN a.groups = DOMAIN old.groups \cup DOMAIN groups
  BY <1>4 DEF MergeGroups
<1>7. DOMAIN a.groups = {g \in Names : GroupSources(v, g)' # {}}
  BY <1>1, <1>2, <1>3, <1>6
<1>8. ASSUME NEW g \in DOMAIN a.groups
      PROVE  a.groups[g] \in Seq(Host) /\ ToSet(a.groups[g]) = SourceGroup(v, g)'
  <2>a. PICK front : front = Or(old.groups, g, <<>>)
    OBVIOUS
  <2>b. PICK back : back = Or(groups, g, <<>>)
    OBVIOUS
  <2>1. a.groups[g] = front \o back
    BY <1>4, <1>6, <2>a, <2>b DEF MergeGroups
  <2>2. front \in Seq(Host) /\ ToSet(front) = SourceGroup(v, g)
    <3>1. CASE g \in DOMAIN old.groups
      BY <1>2, <2>a, <3>1 DEF Or
    <3>2. CASE g \notin DOMAIN old.groups
      <4>1. SourceGroup(v, g) = {}
        BY <1>2, <1>3, <1>6, <3>2 DEF SourceGroup
      <4>2. ToSet(<<>>) = {}
        BY DEF ToSet
      <4> QED
        BY <2>a, <3>2, <4>1, <4>2 DEF Or
    <3> QED
      BY <3>1, <3>2
  <2>3. back \in Seq(Host) /\ SourceGroup(v, g)' = SourceGroup(v, g) \cup ToSet(back)
    <3>1. CASE g \in DOMAIN groups
      BY <1>1, <1>3, <2>b, <3>1 DEF Or
    <3>2. CASE g \notin DOMAIN groups
      <4>1. ToSet(<<>>) = {}
        BY DEF ToSet
      <4> QED
        BY <1>1, <2>b, <3>2, <4>1 DEF Or
    <3> QED
      BY <3>1, <3>2
  <2> QED
    <3>1. a.groups[g] \in Seq(Host)
      BY <2>1, <2>2, <2>3, ConcatProperties
    <3>2. ToSet(a.groups[g]) = ToSet(front) \cup ToSet(back)
      BY <2>1, <2>2, <2>3, ToSetConcat
    <3> QED
      BY <2>2, <2>3, <3>1, <3>2
<1>9. \E m \in Sources(v)' : a.tagged = (m \in config'.routingTag)
  BY <1>1, <1>2, <1>4
<1> QED
  BY <1>4, <1>5, <1>7, <1>8, <1>9 DEF MergedApp, SourceHosts, SourceGroup

\* One more namespace is merged into the rendering data.
LEMMA MergeInv ==
    ASSUME GroupingInv, NEW n \in Namespaces, MergeNamespace(n)
    PROVE  GroupingInv'
<1>1. /\ TypeInv /\ SlicesInv /\ AppsInv /\ StoredInv /\ MergedInv
      /\ ns = NoNamespace /\ merged' = merged \cup {n}
      /\ UNCHANGED <<config, listing, synced, ns, arrays, apps, stored>>
      /\ DOMAIN allApps' = DOMAIN allApps \cup DOMAIN stored[n]
  BY DEF GroupingInv, MergeNamespace
<1>2. TypeInv'
  BY <1>1 DEF TypeInv
<1>3. SlicesInv'
  BY <1>1 DEF SlicesInv
<1>4. AppsInv'
  BY <1>1, NamesAssumption DEF AppsInv
<1>5. StoredInv'
  <2>1. ASSUME NEW m \in Namespaces
        PROVE  /\ m \notin synced' => DOMAIN stored'[m] = {}
               /\ m \in synced' => DOMAIN stored'[m] = {v \in Vhosts : Of(m, v)' # {}}
               /\ \A v \in DOMAIN stored'[m] : \A a : a = stored'[m][v] => Faithful(m, v, a)'
    <3>1. (\A v : Of(m, v)' = Of(m, v)) /\ \A v, a : Faithful(m, v, a)' <=> Faithful(m, v, a)
      BY <1>1, OthersKept
    <3> QED
      BY <1>1, <3>1 DEF StoredInv
  <2> QED
    BY <2>1 DEF StoredInv
<1>6. DOMAIN allApps' = {v \in Vhosts : Sources(v)' # {}}
  <2>1. \A v : Sources(v)' = IF v \in DOMAIN stored[n] THEN Sources(v) \cup {n} ELSE Sources(v)
    BY <1>1, SourceAdded DEF OneMoreSource
  <2>2. DOMAIN stored[n] \subseteq Vhosts
    BY <1>1, StoredHosts
  <2> QED
    BY <1>1, <2>1, <2>2 DEF MergedInv
<1>7. ASSUME NEW v \in DOMAIN allApps', NEW a, a = allApps'[v]
      PROVE  MergedApp(v, a)'
  <2>1. CASE v \notin DOMAIN stored[n]
    <3>1. v \in DOMAIN allApps /\ a = allApps[v]
      BY <1>1, <1>7, <2>1 DEF MergeNamespace
    <3>2. MergedApp(v, a)
      BY <1>1, <3>1 DEF MergedInv
    <3> QED
      BY <1>1, <2>1, <3>2, MergeUntouched
  <2>2. CASE v \in DOMAIN stored[n] /\ v \notin DOMAIN allApps
    <3>1. a = [hosts |-> stored[n][v].hosts, groups |-> stored[n][v].groups,
               tagged |-> n \in config.routingTag]
      BY <1>7, <2>2 DEF MergeNamespace
    <3>2. Sources(v) = {}
      BY <1>1, <2>2, StoredHosts DEF MergedInv
    <3> QED
      BY <1>1, <2>2, <3>1, <3>2, MergeFirst
  <2>3. CASE v \in DOMAIN stored[n] /\ v \in DOMAIN allApps
    <3>a. PICK old : old = allApps[v]
      OBVIOUS
    <3>1. a = [old EXCEPT !.hosts = @ \o stored[n][v].hosts,
                          !.groups = MergeGroups(@, stored[n][v].groups)]
      BY <1>7, <2>3, <3>a DEF MergeNamespace
    <3>2. MergedApp(v, old)
      BY <1>1, <2>3, <3>a DEF MergedInv
    <3> QED
      BY <1>1, <2>3, <3>1, <3>2, MergeAnother
  <2> QED
    BY <2>1, <2>2, <2>3
<1>8. MergedInv'
  BY <1>6, <1>7 DEF MergedInv
<1> QED
  BY <1>2, <1>3, <1>4, <1>5, <1>8 DEF GroupingInv

\* No step breaks the invariant.
LEMMA InvariantHolds ==
    Spec => []GroupingInv
<1>1. Init => GroupingInv
  <2> HAVE Init
  <2>1. TypeInv
    <3>1. <<>> \in Seq(Seq(Host)) /\ <<>> \in Seq(AppType)
      OBVIOUS
    <3>2. IF ns = NoNamespace THEN synced = Namespaces ELSE ns \in Namespaces \ synced
      BY NamesAssumption DEF Init, NextOf
    <3> QED
      BY <3>1, <3>2 DEF Init, TypeInv
  <2>2. SlicesInv
    BY DEF Init, SlicesInv, NoApps
  <2>3. AppsInv
    <3>1. \A n \in Namespaces : \A v : Of(n, v) = {}
      BY DEF Init, Of
    <3> QED
      BY <3>1 DEF Init, AppsInv, NoApps
  <2>4. StoredInv
    BY DEF Init, StoredInv, NoApps
  <2>5. MergedInv
    BY DEF Init, MergedInv, Sources, NoApps
  <2> QED
    BY <2>1, <2>2, <2>3, <2>4, <2>5 DEF GroupingInv
<1>2. GroupingInv /\ [Next]_vars => GroupingInv'
  <2> SUFFICES ASSUME GroupingInv, [Next]_vars
               PROVE  GroupingInv'
    OBVIOUS
  <2>1. CASE ns # NoNamespace /\ \E app \in Listed[ns] : SyncApp(app)
    BY <2>1, SyncAppInv
  <2>2. CASE Store
    BY <2>2, StoreInv
  <2>3. CASE \E n \in Namespaces : MergeNamespace(n)
    BY <2>3, MergeInv
  <2>4. CASE UNCHANGED vars
    <3>1. TypeInv' /\ SlicesInv'
      BY <2>4 DEF GroupingInv, TypeInv, SlicesInv, vars
    <3>2. AppsInv' /\ StoredInv'
      <4>1. \A n : (\A v : Of(n, v)' = Of(n, v)) /\ \A v, a : Faithful(n, v, a)' <=> Faithful(n, v, a)
        BY <2>4, OthersKept DEF vars
      <4>2. /\ AppsInv /\ StoredInv /\ UNCHANGED <<synced, ns, stored, apps>>
            /\ \A v : \A a : a = View(arrays', apps'[v]) => a = View(arrays, apps[v])
        BY <2>4 DEF GroupingInv, vars
      <4>3. ASSUME NEW n \in Namespaces, n = ns'
            PROVE  /\ DOMAIN apps' = {v \in Vhosts : Of(n, v)' # {}}
                   /\ \A v \in DOMAIN apps' : \A a : a = View(arrays', apps'[v]) => Faithful(n, v, a)'
        BY <4>1, <4>2, <4>3 DEF AppsInv
      <4>4. ASSUME NEW n \in Namespaces
            PROVE  /\ n \notin synced' => DOMAIN stored'[n] = {}
                   /\ n \in synced' => DOMAIN stored'[n] = {v \in Vhosts : Of(n, v)' # {}}
                   /\ \A v \in DOMAIN stored'[n] : \A a : a = stored'[n][v] => Faithful(n, v, a)'
        BY <4>1, <4>2 DEF StoredInv
      <4> QED
        BY <4>3, <4>4 DEF AppsInv, StoredInv
    <3>3. MergedInv'
      <4>1. /\ \A v : Sources(v)' = Sources(v) /\ SourceHosts(v)' = SourceHosts(v)
            /\ \A v, g : /\ GroupSources(v, g)' = GroupSources(v, g)
                          /\ SourceGroup(v, g)' = SourceGroup(v, g)
        BY <2>4 DEF Sources, ServedBy, SourceHosts, GroupSources, SourceGroup, vars
      <4>2. ASSUME NEW v, NEW a, MergedApp(v, a)
            PROVE  MergedApp(v, a)'
        <5>1. MergedApp(v, a)' <=>
                 /\ a = [hosts |-> a.hosts, groups |-> a.groups, tagged |-> a.tagged]
                 /\ a.hosts \in Seq(Host) /\ ToSet(a.hosts) = SourceHosts(v)'
                 /\ DOMAIN a.groups = {g \in Names : GroupSources(v, g)' # {}}
                 /\ \A g \in DOMAIN a.groups : /\ a.groups[g] \in Seq(Host)
                                               /\ ToSet(a.groups[g]) = SourceGroup(v, g)'
                 /\ \E m \in Sources(v)' : a.tagged = (m \in config'.routingTag)
          BY DEF MergedApp, SourceHosts, SourceGroup
        <5>2. config' = config
          BY <2>4 DEF vars
        <5> QED
          BY <4>1, <4>2, <5>1, <5>2, MergedAppIs
      <4>3. MergedInv /\ allApps' = allApps
        BY <2>4 DEF GroupingInv, vars
      <4>4. ASSUME NEW v \in DOMAIN allApps', NEW a, a = allApps'[v]
            PROVE  MergedApp(v, a)'
        BY <4>2, <4>3, <4>4 DEF MergedInv
      <4> QED
        BY <4>1, <4>3, <4>4 DEF MergedInv
    <3> QED
      BY <3>1, <3>2, <3>3 DEF GroupingInv
  <2> QED
    BY <2>1, <2>2, <2>3, <2>4 DEF Next
<1> QED
  BY <1>1, <1>2, PTL DEF Spec
----------------------------------------------------------------------------
(* What the invariant says.                                                *)

\* Each app that counts for a vhost is in one of its groups.
LEMMA InSomeGroup ==
    ASSUME TypeInv, NEW n \in Namespaces, NEW v, NEW k \in Of(n, v)
    PROVE  \E g \in Names : k \in OfGroup(n, v, g)
<1>1. listing[n][k] \in AppType
  <2>1. listing[n] \in Seq(AppType) /\ k \in 1 .. Len(listing[n])
    BY OfFacts
  <2> QED
    BY <2>1, ElementOfSeq
<1>2. GroupName(n, listing[n][k]) \in Names
  BY <1>1, NamesLower
<1> QED
  BY <1>2, GroupOf

\* So a vhost has groups when it has apps.
LEMMA SomeGroup ==
    ASSUME TypeInv, NEW n \in Namespaces, NEW v
    PROVE  Of(n, v) # {} <=> \E g \in Names : OfGroup(n, v, g) # {}
BY InSomeGroup, OfFacts

\* What is stored of a vhost, in the words of the properties.
LEMMA StoredAre ==
    ASSUME TypeInv, StoredInv, NEW n \in Namespaces, NEW v \in DOMAIN stored[n]
    PROVE  /\ stored[n][v].hosts # <<>>
           /\ ToSet(stored[n][v].hosts) = HostsListed(n, Of(n, v))
           /\ DOMAIN stored[n][v].groups = {g \in Names : OfGroup(n, v, g) # {}}
           /\ DOMAIN stored[n][v].groups # {}
           /\ Cardinality(Of(n, v)) <= 2 => \A g \in DOMAIN stored[n][v].groups :
                 ToSet(stored[n][v].groups[g]) = HostsListed(n, OfGroup(n, v, g))
           /\ n \notin config.routingTag => \A g \in DOMAIN stored[n][v].groups :
                 stored[n][v].groups[g] = stored[n][v].hosts
<1>1. Of(n, v) # {} /\ Faithful(n, v, stored[n][v])
  BY DEF StoredInv
<1>2. DOMAIN Parts(n, v) = {g \in Names : OfGroup(n, v, g) # {}}
  BY DEF Parts
<1>3. \A g \in DOMAIN Parts(n, v) : Parts(n, v)[g] = HostsListed(n, OfGroup(n, v, g))
  BY DEF Parts
<1>4. DOMAIN Parts(n, v) # {}
  BY <1>1, <1>2, SomeGroup
<1> QED
  BY <1>1, <1>2, <1>3, <1>4 DEF Faithful, Holds

\* Slices lie within their arrays, and what is stored is not empty.
LEMMA TypesSound == GroupingInv => TypeOK
<1> SUFFICES ASSUME GroupingInv
             PROVE  TypeOK
  OBVIOUS
<1>1. TypeInv /\ SlicesInv /\ StoredInv
  BY DEF GroupingInv
<1>2. SlicesOK
  <2>1. ASSUME NEW s \in SlicesOf(arrays), s.len > 0
        PROVE  s.array \in DOMAIN arrays /\ s.len \in 1 .. Len(arrays[s.array])
    <3>1. s.array \in 1 .. Len(arrays) /\ s.len \in Nat /\ s.len <= Len(arrays[s.array])
      BY DEF SlicesOf
    <3>2. DOMAIN arrays = 1 .. Len(arrays) /\ Len(arrays[s.array]) \in Nat
      BY <1>1, <3>1, LenProperties, ElementOfSeq DEF TypeInv
    <3> QED
      BY <2>1, <3>1, <3>2
  <2>2. ASSUME NEW v \in DOMAIN apps, NEW s \in {apps[v].hosts} \cup Range(apps[v].groups)
        PROVE  s \in SlicesOf(arrays) /\ s.len > 0
    BY <1>1 DEF SlicesInv, GoodApp, Range
  <2> QED
    BY <2>1, <2>2 DEF SlicesOK
<1>3. \A n \in Namespaces : \A v \in DOMAIN stored[n] :
         stored[n][v].hosts # <<>> /\ DOMAIN stored[n][v].groups # {}
  BY <1>1, StoredAre
<1> QED
  BY <1>1, <1>2, <1>3 DEF TypeOK, TypeInv

\* The apps that are being read.
LEMMA AppsAre ==
    ASSUME GroupingInv, ns # NoNamespace, NEW v \in DOMAIN apps
    PROVE  /\ Elements(arrays, apps[v].hosts) = View(arrays, apps[v]).hosts
           /\ DOMAIN apps[v].groups = DOMAIN View(arrays, apps[v]).groups
           /\ \A g \in DOMAIN apps[v].groups :
                 Elements(arrays, apps[v].groups[g]) = View(arrays, apps[v]).groups[g]
           /\ ns \in Namespaces /\ Faithful(ns, v, View(arrays, apps[v]))
BY DEF GroupingInv, TypeInv, AppsInv, View

\* Each app holds the hosts of its vhost.
LEMMA AppsSound == GroupingInv => AppHostsComplete
<1> SUFFICES ASSUME GroupingInv, ns # NoNamespace, NEW v \in Vhosts
             PROVE  LET hosts == IF v \in DOMAIN apps THEN Elements(arrays, apps[v].hosts) ELSE <<>>
                    IN  ToSet(hosts) = HostsListed(ns, Of(ns, v)) /\ IsInjective(hosts)
  BY DEF AppHostsComplete
<1>1. CASE v \in DOMAIN apps
  <2>1. /\ ToSet(View(arrays, apps[v]).hosts) = HostsListed(ns, Of(ns, v))
        /\ IsInjective(View(arrays, apps[v]).hosts)
    BY <1>1, AppsAre DEF Faithful, Holds
  <2> QED
    BY <1>1, <2>1, AppsAre
<1>2. CASE v \notin DOMAIN apps
  <2>1. Of(ns, v) = {}
    BY <1>2 DEF GroupingInv, TypeInv, AppsInv
  <2>2. HostsListed(ns, Of(ns, v)) = {}
    BY <2>1 DEF HostsListed
  <2>3. ToSet(<<>>) = {} /\ IsInjective(<<>>)
    BY DEF ToSet, IsInjective
  <2> QED
    BY <1>2, <2>2, <2>3
<1> QED
  BY <1>1, <1>2

\* Each group of a vhost with two apps holds the hosts with its tag.
LEMMA GroupsSound == GroupingInv => FewAppsGrouped
<1> SUFFICES ASSUME GroupingInv, ns # NoNamespace, NEW v \in DOMAIN apps,
                    Cardinality(Of(ns, v)) <= 2, NEW g \in DOMAIN apps[v].groups
             PROVE  ToSet(Elements(arrays, apps[v].groups[g])) = HostsListed(ns, OfGroup(ns, v, g))
  BY DEF FewAppsGrouped
<1>1. /\ g \in DOMAIN Parts(ns, v)
      /\ ToSet(View(arrays, apps[v]).groups[g]) = Parts(ns, v)[g]
  BY AppsAre DEF Faithful, Holds
<1>2. Parts(ns, v)[g] = HostsListed(ns, OfGroup(ns, v, g))
  BY <1>1 DEF Parts
<1> QED
  BY <1>1, <1>2, AppsAre

\* When all namespaces are merged: who serves a vhost, and each of its groups.
LEMMA AllSources ==
    ASSUME GroupingInv, Rendered, NEW v \in Vhosts
    PROVE  /\ Sources(v) = {n \in Namespaces : Of(n, v) # {}}
           /\ \A n \in Sources(v) : n \in Namespaces /\ v \in DOMAIN stored[n]
           /\ Sources(v) = ServedBy(v)
           /\ \A g \in Names : GroupSources(v, g) = {n \in Namespaces : OfGroup(n, v, g) # {}}
<1>1. /\ TypeInv /\ StoredInv /\ merged = Namespaces
      /\ \A n \in Namespaces : n \in synced
  BY DEF GroupingInv, Rendered, TypeInv
<1>2. \A n \in Namespaces : DOMAIN stored[n] = {w \in Vhosts : Of(n, w) # {}}
  BY <1>1 DEF StoredInv
<1>3. Sources(v) = ServedBy(v) /\ ServedBy(v) = {n \in Namespaces : Of(n, v) # {}}
  BY <1>1, <1>2 DEF Sources, ServedBy
<1>4. ASSUME NEW g \in Names
      PROVE  GroupSources(v, g) = {n \in Namespaces : OfGroup(n, v, g) # {}}
  <2>1. \A n \in Namespaces : OfGroup(n, v, g) # {} => Of(n, v) # {}
    BY <1>1, SomeGroup
  <2>2. \A n \in Sources(v) : g \in DOMAIN stored[n][v].groups <=> OfGroup(n, v, g) # {}
    BY <1>1, <1>2, <1>3, StoredAre
  <2> QED
    BY <1>3, <2>1, <2>2 DEF GroupSources
<1> QED
  BY <1>2, <1>3, <1>4

\* The rendering data is complete.
LEMMA RenderingSound == GroupingInv => RenderingComplete
<1> SUFFICES ASSUME GroupingInv, Rendered, NEW v \in Vhosts
             PROVE  LET groups == {g \in Names : \E n \in Namespaces : OfGroup(n, v, g) # {}}
                    IN  /\ v \in DOMAIN allApps <=> groups # {}
                        /\ groups # {} =>
                              /\ DOMAIN allApps[v].groups = groups
                              /\ ToSet(allApps[v].hosts) =
                                    UNION {HostsListed(n, Of(n, v)) : n \in Namespaces}
                              /\ \A n \in Namespaces : Cardinality(Of(n, v)) <= 2 =>
                                    HostsListed(n, Of(n, v)) \subseteq
                                        UNION {ToSet(allApps[v].groups[g]) : g \in groups}
  BY DEF RenderingComplete
<1> DEFINE groups == {g \in Names : \E n \in Namespaces : OfGroup(n, v, g) # {}}
<1>1. TypeInv /\ StoredInv /\ MergedInv
  BY DEF GroupingInv
<1>2. v \in DOMAIN allApps <=> groups # {}
  <2>1. groups # {} <=> \E n \in Namespaces : Of(n, v) # {}
    BY <1>1, SomeGroup
  <2> QED
    BY <1>1, <2>1, AllSources DEF MergedInv
<1>3. ASSUME groups # {}
      PROVE  /\ DOMAIN allApps[v].groups = groups
             /\ ToSet(allApps[v].hosts) = SourceHosts(v)
             /\ \A g \in groups : ToSet(allApps[v].groups[g]) = SourceGroup(v, g)
  <2>1. MergedApp(v, allApps[v])
    BY <1>1, <1>2, <1>3 DEF MergedInv
  <2>2. groups = {g \in Names : GroupSources(v, g) # {}}
    BY AllSources
  <2> QED
    BY <2>1, <2>2, MergedAppIs
<1>4. SourceHosts(v) = UNION {HostsListed(n, Of(n, v)) : n \in Namespaces}
  <2>1. \A n \in Sources(v) : ToSet(stored[n][v].hosts) = HostsListed(n, Of(n, v))
    BY <1>1, AllSources, StoredAre
  <2>2. \A n \in Namespaces : n \notin Sources(v) => HostsListed(n, Of(n, v)) = {}
    BY AllSources DEF HostsListed
  <2>3. Sources(v) \subseteq Namespaces
    BY AllSources
  <2>4. ASSUME NEW x
        PROVE  x \in SourceHosts(v) <=> \E n \in Namespaces : x \in HostsListed(n, Of(n, v))
    <3>1. x \in SourceHosts(v) <=> \E n \in Sources(v) : x \in ToSet(stored[n][v].hosts)
      BY DEF SourceHosts
    <3> QED
      BY <2>1, <2>2, <2>3, <3>1
  <2>5. ASSUME NEW x
        PROVE  x \in UNION {HostsListed(n, Of(n, v)) : n \in Namespaces} <=>
                  \E n \in Namespaces : x \in HostsListed(n, Of(n, v))
    OBVIOUS
  <2> QED
    BY <2>4, <2>5
<1>5. ASSUME NEW n \in Namespaces, Cardinality(Of(n, v)) <= 2, NEW x \in HostsListed(n, Of(n, v))
      PROVE  \E g \in groups : x \in SourceGroup(v, g)
  <2>1. PICK k \in Of(n, v) : x \in {<<n, k, i>> : i \in 1 .. listing[n][k].size}
    BY <1>5 DEF HostsListed
  <2>2. PICK g \in Names : k \in OfGroup(n, v, g)
    BY <1>1, InSomeGroup
  <2>3. g \in groups /\ n \in GroupSources(v, g)
    BY <2>2, AllSources
  <2>4. x \in HostsListed(n, OfGroup(n, v, g))
    BY <2>1, <2>2 DEF HostsListed
  <2>5. n \in Sources(v) /\ g \in DOMAIN stored[n][v].groups
    BY <2>3 DEF GroupSources
  <2>6. ToSet(stored[n][v].groups[g]) = HostsListed(n, OfGroup(n, v, g))
    BY <1>1, <1>5, <2>5, AllSources, StoredAre
  <2>7. x \in SourceGroup(v, g)
    BY <2>3, <2>4, <2>6 DEF SourceGroup
  <2> QED
    BY <2>3, <2>7
<1>6. ASSUME groups # {}, NEW n \in Namespaces, Cardinality(Of(n, v)) <= 2
      PROVE  HostsListed(n, Of(n, v)) \subseteq UNION {ToSet(allApps[v].groups[g]) : g \in groups}
  <2>1. ASSUME NEW x \in HostsListed(n, Of(n, v))
        PROVE  \E g \in groups : x \in ToSet(allApps[v].groups[g])
    BY <1>3, <1>5, <1>6
  <2> HIDE DEF groups
  <2> QED
    BY <2>1
<1> QED
  BY <1>2, <1>3, <1>4, <1>6

\* The backends have a name of their own for each group, or one for the vhost.
LEMMA NamesSound == GroupingInv => BackendNamesStable
<1> SUFFICES ASSUME GroupingInv, Rendered, NEW v \in DOMAIN allApps
             PROVE  /\ ServedBy(v) \subseteq config.routingTag =>
                          \A g \in DOMAIN allApps[v].groups :
                              /\ <<v, g>> \in BackendNames
                              /\ BackendHosts(v, <<v, g>>) = ToSet(allApps[v].groups[g])
                    /\ ServedBy(v) \cap config.routingTag = {} =>
                          <<v>> \in BackendNames /\ BackendHosts(v, <<v>>) = ToSet(allApps[v].hosts)
  BY DEF BackendNamesStable
<1>1. TypeInv /\ StoredInv /\ v \in Vhosts /\ Sources(v) # {} /\ MergedApp(v, allApps[v])
  BY DEF GroupingInv, MergedInv
<1>2. /\ ToSet(allApps[v].hosts) = SourceHosts(v)
      /\ DOMAIN allApps[v].groups = {g \in Names : GroupSources(v, g) # {}}
      /\ \A g \in DOMAIN allApps[v].groups : ToSet(allApps[v].groups[g]) = SourceGroup(v, g)
      /\ \E n \in Sources(v) : allApps[v].tagged = (n \in config.routingTag)
  BY <1>1, MergedAppIs
<1>3. Sources(v) = ServedBy(v)
  BY <1>1, AllSources
<1>4. ASSUME ServedBy(v) \subseteq config.routingTag, NEW g \in DOMAIN allApps[v].groups
      PROVE  /\ <<v, g>> \in BackendNames
             /\ BackendHosts(v, <<v, g>>) = ToSet(allApps[v].groups[g])
  <2>1. allApps[v].tagged = TRUE
    BY <1>2, <1>3, <1>4
  <2>2. \A h : BackendName(v, h) = <<v, h>>
    BY <2>1 DEF BackendName
  <2>3. <<v, g>> \in BackendNames
    BY <1>4, <2>2 DEF BackendNames
  <2>4. {h \in DOMAIN allApps[v].groups : BackendName(v, h) = <<v, g>>} = {g}
    BY <1>4, <2>2
  <2>5. BackendHosts(v, <<v, g>>) = UNION {ToSet(allApps[v].groups[h]) : h \in {g}}
    BY <2>4 DEF BackendHosts
  <2> QED
    BY <2>3, <2>5
<1>5. ASSUME ServedBy(v) \cap config.routingTag = {}
      PROVE  <<v>> \in BackendNames /\ BackendHosts(v, <<v>>) = ToSet(allApps[v].hosts)
  <2>1. ~allApps[v].tagged
    <3>1. PICK n \in Sources(v) : allApps[v].tagged = (n \in config.routingTag)
      BY <1>2
    <3>2. n \notin config.routingTag
      BY <1>3, <1>5, <3>1
    <3> QED
      BY <3>1, <3>2
  <2>2. \A h : BackendName(v, h) = <<v>>
    BY <2>1 DEF BackendName
  <2>3. \A n \in Sources(v) :
           /\ DOMAIN stored[n][v].groups # {} /\ DOMAIN stored[n][v].groups \subseteq Names
           /\ \A g \in DOMAIN stored[n][v].groups : stored[n][v].groups[g] = stored[n][v].hosts
    BY <1>1, <1>3, <1>5, AllSources, StoredAre
  <2>4. DOMAIN allApps[v].groups # {}
    BY <1>1, <1>2, <2>3 DEF GroupSources
  <2>5. <<v>> \in BackendNames
    BY <2>2, <2>4 DEF BackendNames
  <2>6. BackendHosts(v, <<v>>) = UNION {ToSet(allApps[v].groups[g]) : g \in DOMAIN allApps[v].groups}
    <3>1. {h \in DOMAIN allApps[v].groups : BackendName(v, h) = <<v>>} = DOMAIN allApps[v].groups
      BY <2>2
    <3> QED
      BY <3>1 DEF BackendHosts
  <2>7. ASSUME NEW x
        PROVE  (\E g \in DOMAIN allApps[v].groups : x \in SourceGroup(v, g)) <=> x \in SourceHosts(v)
    <3>1. x \in SourceHosts(v) <=> \E n \in Sources(v) : x \in ToSet(stored[n][v].hosts)
      BY DEF SourceHosts
    <3>2. \A g : x \in SourceGroup(v, g) <=>
             \E n \in Sources(v) : /\ g \in DOMAIN stored[n][v].groups
                                   /\ x \in ToSet(stored[n][v].groups[g])
      BY DEF SourceGroup, GroupSources
    <3>3. \A n \in Sources(v) : \A g \in DOMAIN stored[n][v].groups : g \in DOMAIN allApps[v].groups
      BY <1>2, <2>3 DEF GroupSources
    <3> QED
      BY <2>3, <3>1, <3>2, <3>3
  <2>8. \A x : x \in BackendHosts(v, <<v>>) <=>
                  \E g \in DOMAIN allApps[v].groups : x \in SourceGroup(v, g)
    BY <1>2, <2>6
  <2>9. \A x : x \in BackendHosts(v, <<v>>) <=> x \in SourceHosts(v)
    BY <2>7, <2>8
  <2>10. BackendHosts(v, <<v>>) = SourceHosts(v)
    BY <2>9
  <2> QED
    BY <1>2, <2>5, <2>10
<1> QED
  BY <1>4, <1>5
----------------------------------------------------------------------------
(* The properties.                                                         *)

\* However much room append leaves and whatever is listed, the slices of
\* syncAppsAndVhosts lie within their arrays, and no app that is stored is empty.
THEOREM TypeCorrect == Spec => []TypeOK
  BY InvariantHolds, TypesSound, PTL

\* The slices of an app and of its groups share arrays, and still the app has every
\* host listed for its vhost once and no other (drove.go, the append calls of
\* syncAppsAndVhosts), however many apps there are and in whatever order.
THEOREM AppHostsCorrect == Spec => []AppHostsComplete
  BY InvariantHolds, AppsSound, PTL

\* As long as a listing has at most two apps of a vhost, each of its groups has
\* exactly the hosts of the apps with its tag.
THEOREM GroupsCorrect == Spec => []FewAppsGrouped
  BY InvariantHolds, GroupsSound, PTL

\* In whatever order createRenderingData meets the namespaces, it renders every
\* host and every group of each of them.
THEOREM RenderingCorrect == Spec => []RenderingComplete
  BY InvariantHolds, RenderingSound, PTL

\* The backends' names and hosts do not depend on that order, as long as all
\* namespaces that serve a vhost have a routing tag, or none has.
THEOREM NamesCorrect == Spec => []BackendNamesStable
  BY InvariantHolds, NamesSound, PTL
=============================================================================
