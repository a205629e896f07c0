------------------------------ MODULE MCReport ------------------------------
(***************************************************************************)
(* The zones of the run `report': one zone that publishes everything, and  *)
(* families that vary one area of it and lose the answers of that area.    *)
(***************************************************************************)
EXTENDS ReportProperties

None == NoAnswer
Nx   == NxDomain
Some(r) == Ok({r})

-----------------------------------------------------------------------------
(* Records. *)
Mx(host, pref) == [pref |-> pref, host |-> host, ip |-> FALSE, provider |-> "none"]
NullMx == [pref |-> 0, host |-> ".", ip |-> FALSE, provider |-> "none"]
Term(type, value, qual) == [type |-> type, value |-> value, qual |-> qual, breadth |-> "narrow"]
Spf(terms) == [kind |-> "good", terms |-> terms, odd |-> {}]
All(qual) == Term("all", "", qual)
Key(key) == [kind |-> "key", key |-> key, flaws |-> {}, vendor |-> "none"]
Tags(p) == [NoTags EXCEPT !.p = p, !.rua = "mail"]
Txt(defects) == [kind |-> "good", defects |-> defects]
Policies3 == [plain |-> TRUE, defects |-> {}, mode |-> "enforce", mx |-> {"mx1", "mx2"}]
Cert(names, ends) == [names |-> names, ends |-> ends, begun |-> TRUE, issuer |-> "ca"]
Ad(answer) == answer @@ [ad |-> TRUE]
KeyTag == [tag |-> 1, alg |-> "modern"]
Tlsa == [usage |-> "dane", matching |-> "digest"]

-----------------------------------------------------------------------------
(* The zone that publishes everything. *)
MCBackground ==
  << "MX", "domain" >> :> Ok({Mx("mx1", 1), Mx("mx2", 2)})
  @@ << "MX", "mta-sts" >> :> Ok({Mx("mx1", 1), Mx("mx2", 2)})
  @@ [q \in {"MX"} \X {"root", "inc1", "inc2"} |-> Some(Mx("mx1", 1))]
  @@ << "MX", "reports" >> :> Some(Mx("mx9", 1))
  @@ << "NS", "domain" >> :> Ok({"ns1", "ns2"})
  @@ << "NS", "target" >> :> Some("ns9")
  @@ << "SOA", "domain" >> :> Some("owner")
  @@ << "SOA", "exists" >> :> Some("owner")
  @@ [q \in {"A", "AAAA"} \X {"ns1"} |-> Some("net1")]
  @@ [q \in {"A", "AAAA"} \X {"ns2"} |-> Some("net2")]
  @@ [q \in {"A", "AAAA"} \X {"mx1", "mx2", "root", "void"} |->
        IF q[2] = "void" THEN None ELSE Some("net3")]
  @@ [q \in {"authority"} \X {"ns1", "ns2"} |-> Some([aa |-> TRUE, serial |-> 5])]
  @@ [q \in {"TLSA"} \X {"mx1", "mx2"} |-> Ad(Some(Tlsa))]
  @@ [q \in {"DNSKEY"} \X {"first", "retry", "again"} |-> Ad(Some(KeyTag))]
  @@ [q \in {"DS"} \X {"first", "second", "parent", "again1", "again2"} |-> Some([tag |-> 1])]
  @@ [q \in {"validating", "unvalidating"} \X {"A", "SOA"} |-> Some("net3")]
  @@ [q \in {"CAA"} \X {0, 1} |->
        IF q[2] = 0 THEN Some([tag |-> "issue", value |-> "ca", critical |-> FALSE]) ELSE None]
  @@ << "TXT", "_dmarc" >> :> Some(Tags("reject"))
  @@ << "TXT", "_dmarc.org" >> :> None
  @@ << "CNAME", "_dmarc" >> :> None
  @@ [q \in {"DMARC"} \X {1, 2, 3} |-> IF q[2] = 2 THEN Some(Tags("reject")) ELSE None]
  @@ << "TXT", "_report._dmarc" >> :> None
  @@ [q \in {"TXT"} \X {"_mta-sts", "mta-sts beside", "_smtp._tls", "default._bimi"} |-> Some(Txt({}))]
  @@ << "fetch", "mta-sts" >> :> Some(Policies3)
  @@ << "fetch", "logo" >> :> Some([defects |-> {}])
  @@ << "fetch", "crt.sh" >> :> Ok({Cert({"host"}, 90)})
  @@ << "spotter", 1 >> :> Ok({Cert({"host"}, 90)})
  @@ << "spotter", 2 >> :> None
  @@ [q \in {"time"} \X {"report-auth", "dkim", "spotter"} |-> Some("left")]
  @@ [q \in {"SPF"} \X {"domain", "root"} |-> Some(Spf(<<Term("mx", "", "+"), All("-")>>))]
  @@ [q \in {"SPF"} \X {"inc1", "inc2", "nowhere"} |->
        IF q[2] = "nowhere" THEN Nx ELSE Some(Spf(<<Term("a", "mx1", "+"), All("-")>>))]
  @@ [q \in {"DKIM"} \X {"s1", "s2", "g1", "wildcard"} |->
        IF q[2] = "s1" THEN Some(Key("ok")) ELSE None]
  @@ [q \in {"APRF"} \X {"bare", "wildcard", "s1", "s2", "g1", "destination"} |-> None]

Base ==
  [ dns |-> <<>>, asks |-> <<>>, n |-> 2, psl |-> 2, external |-> FALSE,
    group |-> [h \in {"ns1", "ns2"} |-> "op"], providers |-> {}, depth |-> 1,
    belowOrg |-> FALSE, delivery |-> FALSE, priority |-> {"s1", "s2"},
    fallback |-> {"g1"}, selector |-> "" ]

With(dns, asks) == [Base EXCEPT !.dns = dns, !.asks = asks]
Lossy(questions, codes) == [q \in questions |-> codes]
AnyLoss(questions) == Lossy(questions, {"failed"})

-----------------------------------------------------------------------------
(* DMARC records of an organizational domain. *)
DmarcRecords ==
  [ kind : {"good"}, p : {"absent", "bad", "none", "quarantine", "reject"},
    sp : {"absent", "none", "quarantine", "reject"},
    np : {"absent", "none", "quarantine", "reject"}, t : {"absent", "y"}, psd : {"absent"},
    pct : {"absent", "zero", "half"}, fo : {"absent"}, rua : {"absent", "mail"}, ruf : {"absent"},
    adkim : {"r"}, aspf : {"r"}, odd : {{}} ]
AtApex(answer) == << "TXT", "_dmarc" >> :> answer @@ << "DMARC", 2 >> :> answer
RecordZones == {With(AtApex(Some(r)), <<>>) : r \in DmarcRecords}


(* A name below it: with and without a record, and what the parents say.    *)
Below(own, parent, tld) ==
  [With(<< "TXT", "_dmarc" >> :> own @@ << "DMARC", 3 >> :> own @@ << "DMARC", 2 >> :> parent
          @@ << "TXT", "_dmarc.org" >> :> parent @@ << "DMARC", 1 >> :> tld,
        Lossy({<< "DMARC", 2 >>, << "DMARC", 3 >>, << "TXT", "_dmarc" >>,
               << "TXT", "_dmarc.org" >>}, {"timeout"}))
     EXCEPT !.n = 3, !.belowOrg = TRUE]
Near3 == [Tags("none") EXCEPT !.kind = "near"]
Owns == {None, Nx, Some(Tags("none")), Some(Near3), Ok({Tags("none"), Tags("reject")})}
Parents ==
  {None} \cup
  {Some([Tags(p) EXCEPT !.sp = sp, !.np = np, !.psd = psd]) :
     p \in {"none", "reject"}, sp \in {"absent", "quarantine", "bad"},
     np \in {"absent", "reject"}, psd \in {"absent", "n", "y"}}
BelowZones ==
  {Below(o, a, None) : o \in Owns, a \in Parents}
  \cup {Below(None, a, Some([Tags("reject") EXCEPT !.psd = "y"])) :
          a \in {None, Some(Tags("none"))}}
  \cup {[Below(None, None, None) EXCEPT !.dns = << "SOA", "exists" >> :> Nx
                                                @@ << "DMARC", 2 >> :> a @@ @] : a \in Parents}
  \cup {[Below(None, Some([Tags("reject") EXCEPT !.np = np]), None) EXCEPT
           !.dns = [q \in {"SPF"} \X {"domain", "root"} |-> spf] @@ << "DKIM", "s1" >> :> key @@ @] :
          np \in {"absent", "none"}, spf \in {None, Some(Spf(<<All("+")>>))},
          key \in {Some(Key("ok")), Some(Key("revoked"))}}

(* Where the reports go. *)
ReportZones ==
  {[With(AtApex(Some([Tags(p) EXCEPT !.ruf = f]))
           @@ << "TXT", "_report._dmarc" >> :> says @@ << "MX", "reports" >> :> mx,
         AnyLoss({<< "TXT", "_report._dmarc" >>, << "MX", "reports" >>, << "time", "report-auth" >>}))
      EXCEPT !.external = e] :
     p \in {"none", "reject"}, f \in {"absent", "mail"}, says \in {None, Some(Txt({}))},
     mx \in {None, Some(Mx("mx9", 1))}, e \in BOOLEAN}

-----------------------------------------------------------------------------
(* Which mail the domain sends and takes. *)
Direction(mx, spf, dmarc, keys, named) ==
  [With(<< "MX", "domain" >> :> mx @@ << "SPF", "domain" >> :> spf @@ << "SPF", "root" >> :> spf
          @@ AtApex(dmarc) @@ << "DKIM", "s1" >> :> keys,
        AnyLoss({<< "MX", "domain" >>, << "SPF", "domain" >>, << "TXT", "_dmarc" >>, << "DKIM", "s1" >>}))
     EXCEPT !.selector = named]
Mxs == {None, Some(NullMx), Some(Mx("mx1", 1)), Ok({NullMx, Mx("mx1", 1)})}
Spfs == {None, Some(Spf(<<All("-")>>)), Some(Spf(<<Term("mx", "", "+"), All("-")>>)),
         Ok({Spf(<<All("-")>>), Spf(<<All("~")>>)}), Some([Spf(<<>>) EXCEPT !.kind = "near"])}
DirectionZones ==
  {Direction(mx, spf, dmarc, keys, named) :
     mx \in Mxs, spf \in Spfs,
     dmarc \in {None, Some(Tags("none")), Some([Tags("reject") EXCEPT !.adkim = "s"]),
                Some([Tags("reject") EXCEPT !.rua = "absent", !.sp = "none"])},
     keys \in {None, Some(Key("ok")), Some(Key("revoked"))}, named \in {"", "s1"}}
(* Policies held back by pct or by test mode, with senders to fix first.    *)
HeldZones ==
  {With(AtApex(Some(r)) @@ << "DKIM", "s1" >> :> Some(key)
          @@ [q \in {"SPF"} \X {"domain", "root"} |-> Some(Spf(<<Term("mx", "", "+"), All(all)>>))],
        AnyLoss({<< "DKIM", "s1" >>, << "SPF", "root" >>})) :
     r \in {[Tags(p) EXCEPT !.pct = pct, !.t = t] :
              p \in {"none", "quarantine", "reject"}, pct \in {"absent", "zero", "half"}, t \in {"absent", "y"}},
     key \in {Key("ok"), Key("short"), [Key("ok") EXCEPT !.flaws = {"test mode"}]},
     all \in {"-", "?"}}
DeliveryZones ==
  {[z EXCEPT !.delivery = TRUE] :
     z \in {Direction(mx, spf, Some(Tags(p)), Some(Key("ok")), "") :
              mx \in Mxs, spf \in Spfs, p \in {"none", "reject"}}}

-----------------------------------------------------------------------------
(* Trees of SPF records. *)
Tree(root, inc1, inc2) ==
  With([q \in {"SPF"} \X {"domain", "root"} |-> Some(Spf(root))]
         @@ << "SPF", "inc1" >> :> inc1 @@ << "SPF", "inc2" >> :> inc2,
       AnyLoss({<< "SPF", "inc1" >>, << "A", "mx1" >>, << "MX", "root" >>, << "SPF", "domain" >>}))
Terms == {Term("include", "inc1", "+"), Term("include", "inc2", "+"), Term("mx", "", "+"),
          Term("a", "void", "+"), Term("ptr", "", "+"), Term("include", "nowhere", "+"),
          Term("include", "%", "+")}
Leaves == {Some(Spf(<<Term("a", "mx1", "+"), Term("a", "void", "+"), All("-")>>)),
           Some(Spf(<<Term("include", "inc1", "+"), Term("include", "root", "+"), All("-")>>)),
           Some(Spf(<<All("+")>>)), None, Ok({Spf(<<All("-")>>), Spf(<<All("~")>>)})}
SpfZones ==
  {Tree(<<a, b, All("~")>>, l, Some(Spf(<<Term("include", "inc1", "+"), Term("a", "mx1", "-"), All("-")>>))) :
     a \in Terms, b \in Terms, l \in Leaves}
  \cup {Tree(<<a, Term("redirect", "inc2", "+")>>, l,
             Some(Spf(<<Term("mx", "", "+"), Term("exists", "mx2", "+"), all>>))) :
          a \in Terms, l \in Leaves, all \in {All("-"), All("?"), All("+")}}
  \cup {Tree(<<[Term("ip", "", q) EXCEPT !.breadth = b], all, Term("ip", "", "+")>>, None, None) :
          q \in {"+", "-"}, b \in {"narrow", "wide", "open"}, all \in {All("-"), All("?")}}

(* Terms that name hosts, one with no address and one with IPv6 alone, and  *)
(* how many neighbours of them.                                             *)
HostTerms == {[Term(type, host, "+") EXCEPT !.breadth = b] :
                type \in {"a", "mx", "exists"}, host \in {"void", "v6"}, b \in {"wide", "open"}}
HostTree(root, inc1, mx) ==
  With([q \in {"SPF"} \X {"domain", "root"} |-> Some(Spf(root))]
         @@ << "SPF", "inc1" >> :> Some(Spf(inc1))
         @@ << "MX", "void" >> :> mx @@ << "MX", "v6" >> :> Some(Mx("v6", 1))
         @@ << "A", "v6" >> :> None @@ << "AAAA", "v6" >> :> Some("net3"),
       AnyLoss({"A", "AAAA", "MX"} \X {"void", "v6"}))
HostZones ==
  {HostTree(<<t, All("-")>>, <<>>, mx) : t \in HostTerms, mx \in {None, Some(NullMx)}}
  \cup {HostTree(<<Term("include", "inc1", q), All("-")>>, <<t, All("-")>>, None) :
          t \in HostTerms, q \in {"+", "?"}}

-----------------------------------------------------------------------------
(* DKIM keys. *)
KeyRecords ==
  {Key(k) : k \in {"ok", "short", "tiny", "revoked", "undecodable"}}
  \cup {[Key("ok") EXCEPT !.flaws = {f}] : f \in {"test mode", "sha1", "version order"}}
  \cup {[Key("ok") EXCEPT !.vendor = "microsoft"]}
Dangles(vendor) == [rc |-> "dangling", rr |-> {[kind |-> "cname", vendor |-> vendor]}]
DkimZones ==
  {[With(<< "DKIM", "s1" >> :> a @@ << "DKIM", "s2" >> :> b @@ << "DKIM", "g1" >> :> Some(Key("ok"))
           @@ << "NS", "target" >> :> owner,
         [q \in {"DKIM"} \X {"s1", "s2", "g1"} |-> {"timeout"}]
           @@ AnyLoss({<< "time", "dkim" >>, << "NS", "target" >>}))
      EXCEPT !.selector = named] :
     a \in {Some(k) : k \in KeyRecords}, b \in {None, Dangles("none"), Dangles("microsoft")}
                                               \cup {Some(k) : k \in KeyRecords},
     owner \in {Nx, Some("ns9")}, named \in {"", "s1"}}
  \cup {[With(<< "DKIM", "s1" >> :> a @@ << "DKIM", "s2" >> :> a @@ << "DKIM", "wildcard" >> :> w,
              [q \in {"DKIM"} \X {"s1", "s2"} |-> {"timeout", "failed"}])
           EXCEPT !.selector = named] :
          a \in {None, Nx, Dangles("microsoft"), Some([kind |-> "other", vendor |-> "none"])},
          w \in {None, Some(Key("ok"))}, named \in {"", "s2"}}

-----------------------------------------------------------------------------
(* DNSSEC and DANE. *)
Servfail == [rc |-> "servfail", rr |-> {}]
DnssecZones ==
  {With([q \in {"DNSKEY"} \X {"first", "retry", "again"} |-> keys]
          @@ [q \in {"DS"} \X {"first", "second", "parent", "again1", "again2"} |-> ds]
          @@ << "validating", "A" >> :> strict
          @@ [q \in {"TLSA"} \X {"mx1"} |-> tlsa],
        AnyLoss({<< "DNSKEY", "retry" >>, << "DS", "first" >>, << "DNSKEY", "again" >>,
                 << "TLSA", "mx1" >>, << "unvalidating", "A" >>})
          @@ Lossy({<< "DNSKEY", "first" >>}, {"timeout"})) :
     keys \in {None, Ad(Some(KeyTag)), Ad(Some([KeyTag EXCEPT !.alg = "deprecated"])),
               Some(KeyTag) @@ [ad |-> FALSE]},
     ds \in {None, Some([tag |-> 1]), Some([tag |-> 2])},
     strict \in {Some("net3"), Servfail},
     tlsa \in {None, Ad(Some(Tlsa)), Some([Tlsa EXCEPT !.usage = "pkix"]) @@ [ad |-> FALSE]}}

MxZones ==
  {With(<< "MX", "domain" >> :> Ok(mx) @@ << "A", "mx1" >> :> a @@ << "AAAA", "mx1" >> :> None
          @@ << "TLSA", "mx2" >> :> None,
        AnyLoss({<< "A", "mx1" >>, << "AAAA", "mx1" >>, << "TLSA", "mx1" >>, << "TLSA", "mx2" >>})) :
     mx \in {{Mx("mx1", 1)}, {Mx("mx1", 1), Mx("mx2", 1)}, {[Mx("mx1", 1) EXCEPT !.ip = TRUE]},
             {[Mx("mx1", 1) EXCEPT !.provider = "Microsoft 365"]}},
     a \in {None, Nx, Some("net3")}}

-----------------------------------------------------------------------------
(* Nameservers and CAA. *)
NsZones ==
  {[With([q \in {"A"} \X {"ns1"} |-> a] @@ [q \in {"AAAA"} \X {"ns1", "ns2"} |-> None]
           @@ << "authority", "ns2" >> :> soa @@ << "NS", "domain" >> :> ns
           @@ << "SOA", "domain" >> :> apex,
         AnyLoss({<< "A", "ns1" >>, << "A", "ns2" >>, << "authority", "ns2" >>,
                  << "NS", "domain" >>, << "SOA", "domain" >>}))
      EXCEPT !.belowOrg = below] :
     a \in {None, Some("net2"), Some("private")},
     soa \in {Some([aa |-> TRUE, serial |-> 6]), Some([aa |-> FALSE, serial |-> 5]),
              Some([aa |-> TRUE, serial |-> 90000])},
     ns \in {None, Ok({"ns1", "ns2"}), Some("ns1")},
     apex \in {None, Some("owner"), Some("parent")}, below \in BOOLEAN}

CaaOf(tags) == {[tag |-> t, value |-> "ca", critical |-> FALSE] : t \in tags}
CaaZones ==
  {With(<< "CAA", 1 >> :> a @@ << "CAA", 0 >> :> b,
        Lossy({<< "CAA", 1 >>, << "CAA", 0 >>}, LossCodes)) :
     a \in {None, Nx, Ok(CaaOf({"issue"})), Ok(CaaOf({"issuewild"}))},
     b \in {None, Nx, Ok(CaaOf({"issue", "iodef"})),
            Some([tag |-> "issue", value |-> "none", critical |-> FALSE])}}

-----------------------------------------------------------------------------
(* MTA-STS, TLS-RPT and BIMI. *)
StsFiles ==
  {Some(Policies3), Some([Policies3 EXCEPT !.mode = "testing"]),
   Some([Policies3 EXCEPT !.mode = "none", !.mx = {}]),
   Some([Policies3 EXCEPT !.mx = {"mx1", "mx8"}]),
   Some([Policies3 EXCEPT !.defects = {"no_mode"}])}
  \cup {[rc |-> c, rr |-> {}] : c \in {"nohost", "private", "http404"}}
TextRecords == {None, Some(Txt({})), Some([Txt({}) EXCEPT !.kind = "near"]), Ok({Txt({}), Txt({"unknown_tag"})})}
PolicyZones ==
  {With(<< "TXT", "_mta-sts" >> :> txt @@ << "TXT", "mta-sts beside" >> :> txt
          @@ << "fetch", "mta-sts" >> :> file @@ << "TXT", "_smtp._tls" >> :> rpt,
        Lossy({<< "fetch", "mta-sts" >>}, LossCodes)
          @@ AnyLoss({<< "TXT", "_mta-sts" >>, << "TXT", "_smtp._tls" >>, << "MX", "mta-sts" >>,
                      << "TXT", "mta-sts beside" >>, << "MX", "domain" >>})) :
     txt \in TextRecords \cup {Some(Txt({"id_missing"}))}, file \in StsFiles,
     rpt \in TextRecords \cup {Some(Txt({"no_rua"}))}}
BimiZones ==
  {With(<< "TXT", "default._bimi" >> :> bimi @@ << "fetch", "logo" >> :> logo @@ AtApex(dmarc),
        Lossy({<< "fetch", "logo" >>}, LossCodes)
          @@ AnyLoss({<< "TXT", "default._bimi" >>, << "TXT", "_dmarc" >>})) :
     bimi \in TextRecords \cup {Some(Txt({"no_logo"}))},
     logo \in {Some([defects |-> d]) : d \in {{}, {"script"}, {"small"}}}
               \cup {[rc |-> c, rr |-> {}] : c \in {"nohost", "private"}},
     dmarc \in {None, Some(Tags("none")), Some(Tags("reject")),
                Some([Tags("reject") EXCEPT !.pct = "half"])}}

-----------------------------------------------------------------------------
(* Certificates, the same ones in both sources, and APRF. *)
CertSets ==
  {cs \in SUBSET {Cert({"host"}, 5), Cert({"host", "www"}, 8), Cert({"*"}, 60), Cert({"www"}, 50),
                  [Cert({"host"}, 4) EXCEPT !.begun = FALSE], Cert({"host"}, 0 - 3)} :
     Cardinality(cs) <= 3}
CtZones ==
  {With(<< "fetch", "crt.sh" >> :> Ok(cs)
          @@ << "spotter", 1 >> :> Ok({c \in cs : c.ends < 9})
          @@ << "spotter", 2 >> :> IF \E c \in cs : c.ends > 9 THEN Ok({c \in cs : c.ends > 9}) ELSE None,
        Lossy({<< "fetch", "crt.sh" >>}, {"failed", "toolarge"})
          @@ AnyLoss({<< "spotter", 1 >>, << "spotter", 2 >>, << "time", "spotter" >>})) :
     cs \in CertSets}

(* APRF records of the domain, of one selector, and of a name every         *)
(* selector answers.                                                        *)
Aprf(valid, external) == Some([valid |-> valid, external |-> external])
AprfZones ==
  {[With(<< "APRF", "bare" >> :> bare @@ << "APRF", "s1" >> :> own @@ << "APRF", "wildcard" >> :> wild
           @@ << "APRF", "destination" >> :> says
           @@ [q \in {"DKIM"} \X {"s1", "s2"} |-> IF q[2] = "s1" \/ two THEN Some(Key("ok")) ELSE None],
         AnyLoss({"APRF"} \X {"bare", "wildcard", "s1", "destination"})
           @@ Lossy({<< "DKIM", "s1" >>, << "DKIM", "s2" >>}, {"timeout"}))
      EXCEPT !.selector = named] :
     bare \in {None, Aprf(TRUE, FALSE), Aprf(FALSE, FALSE)}, own \in {None, Aprf(TRUE, TRUE)},
     wild \in {None, Aprf(TRUE, TRUE)}, says \in {None, Some("yes")}, two \in BOOLEAN,
     named \in {"", "s1"}}

(* A domain that says it has no mail, and what is left of its DKIM.         *)
WaivedZones ==
  {With(<< "MX", "domain" >> :> Some(NullMx) @@ [q \in {"SPF"} \X {"domain", "root"} |-> spf]
          @@ AtApex(Some(Tags("reject"))) @@ << "DKIM", "s1" >> :> a @@ << "DKIM", "s2" >> :> b
          @@ << "NS", "target" >> :> owner,
        AnyLoss({<< "MX", "domain" >>, << "SPF", "domain" >>, << "TXT", "_dmarc" >>, << "NS", "target" >>})) :
     spf \in {None, Some(Spf(<<All("-")>>))}, owner \in {Nx, Some("ns9")},
     a \in {None, Some(Key("ok")), Some(Key("undecodable")), Some([Key("ok") EXCEPT !.flaws = {"sha1"}])},
     b \in {None, Dangles("none")}}

-----------------------------------------------------------------------------
(* Where a loss has a check ask what it would not have asked, or go by what *)
(* it got: a level of the walk above the name's own parent, a parent whose  *)
(* tag for names that do not exist differs from its tag for names that do,  *)
(* a generic selector behind the ones of the senders, a server whose other  *)
(* address is private, and a walk cut short at the end of its budget.       *)
UnreadZones ==
  {[Below(None, Some([Tags("none") EXCEPT !.psd = "n"]), tld) EXCEPT
      !.dns = [q \in {"SPF"} \X {"domain", "root"} |-> spf] @@ << "DKIM", "s1" >> :> key @@ @,
      !.selector = "s1"] :
     tld \in {None, Some(Tags("reject"))}, spf \in {None, Some(Spf(<<All("-")>>))}, key \in {None, Some(Key("ok"))}}
  \cup {[Below(None, parent, None) EXCEPT
            !.dns = << "SOA", "exists" >> :> soa @@ @,
            !.asks = AnyLoss({<< "SOA", "exists" >>, << "DMARC", 2 >>})] :
           soa \in {Nx, Some("owner")},
           parent \in {Some([NoTags EXCEPT !.p = p, !.sp = sp, !.np = np]) :
                         p \in {"none", "reject"}, sp \in {"absent", "bad"}, np \in {"absent", "bad", "reject"}}}
  \cup {With(<< "DKIM", "s1" >> :> a @@ << "DKIM", "s2" >> :> None @@ << "DKIM", "g1" >> :> g
              @@ << "NS", "target" >> :> Nx,
            Lossy({<< "DKIM", "s1" >>}, {"timeout", "failed"})) :
           a \in {Some(Key("ok")), Some(Key("tiny"))},
           g \in {None, Some(Key("undecodable")), Dangles("none")}}
  \cup {With(<< "A", "ns1" >> :> a @@ << "AAAA", "ns1" >> :> b @@ << "authority", "ns1" >> :> soa,
            AnyLoss({<< "A", "ns1" >>, << "AAAA", "ns1" >>, << "authority", "ns1" >>})) :
           a \in {Some("private"), Some("net1")}, b \in {Some("private"), Some("net1")},
           soa \in {None, Some([aa |-> FALSE, serial |-> 5])}}

MCZones ==
  RecordZones \cup BelowZones \cup ReportZones \cup DirectionZones \cup HeldZones \cup DeliveryZones
  \cup WaivedZones \cup UnreadZones
  \cup SpfZones \cup HostZones \cup DkimZones \cup DnssecZones \cup MxZones \cup NsZones \cup CaaZones
  \cup PolicyZones \cup BimiZones \cup CtZones \cup AprfZones

(* Two answers of one audit are lost where one loss has the check go by     *)
(* another answer that can be lost too: levels of a walk, a repeated query, *)
(* servers, pages.  In the other families any one is lost.                  *)
PairZones == BelowZones \cup UnreadZones \cup ReportZones \cup WaivedZones \cup DnssecZones
             \cup MxZones \cup CtZones
LossSpec == Init /\ [][Next /\ (Cardinality(DOMAIN lost') > 1 => zone \in PairZones)]_vars
=============================================================================
