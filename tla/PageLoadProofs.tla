---------------------------- MODULE PageLoadProofs ----------------------------
(***************************************************************************)
(* Proofs about PageLoad for every set of addresses and any number of      *)
(* loads.                                                                  *)
(***************************************************************************)
EXTENDS PageLoad, SequenceTheorems, TLAPS

-----------------------------------------------------------------------------
(* A function on an initial segment of the naturals is a sequence. *)
LEMMA SegmentIsSeq ==
  ASSUME NEW S, NEW n \in Nat, NEW f \in [1..n -> S]
  PROVE  f \in Seq(S) /\ Len(f) = n
<1>1. f \in Seq(S)
  OBVIOUS
<1>2. DOMAIN f = 1..Len(f) /\ Len(f) \in Nat
  BY <1>1, LenProperties
<1> QED BY <1>1, <1>2

(* What a report of a load appends. *)
LEMMA Announcing ==
  ASSUME TypeOK, NEW n \in Load, NEW status \in Status,
         Announce(n, status)
  PROVE  /\ reports' \in [Load -> Seq(Status)]
         /\ \A k \in Load : k # n => reports'[k] = reports[k]
         /\ reports'[n] = Append(reports[n], status)
         /\ Len(reports'[n]) = Len(reports[n]) + 1
         /\ reports'[n][Len(reports[n]) + 1] = status
         /\ \A i \in 1..Len(reports[n]) : reports'[n][i] = reports[n][i]
<1> DEFINE s == reports[n]
<1>1. s \in Seq(Status)
  BY DEF TypeOK
<1>2. /\ reports' = [reports EXCEPT ![n] = Append(s, status)]
      /\ reports \in [Load -> Seq(Status)]
  BY DEF TypeOK, Announce
<1> HIDE DEF s
<1>3. /\ Append(s, status) \in Seq(Status)
      /\ Len(Append(s, status)) = Len(s) + 1
      /\ Append(s, status)[Len(s) + 1] = status
      /\ \A i \in 1..Len(s) : Append(s, status)[i] = s[i]
  BY <1>1, AppendProperties
<1>4. /\ reports' \in [Load -> Seq(Status)]
      /\ \A k \in Load : k # n => reports'[k] = reports[k]
      /\ reports'[n] = Append(s, status)
  BY <1>2, <1>3
<1> QED BY <1>3, <1>4 DEF s

(* What asking WebKit for a load adds. *)
LEMMA Requesting ==
  ASSUME TypeOK, NEW c \in Url \union {Html}, RequestLoad(c)
  PROVE  /\ content' \in Seq(Url \union {Html})
         /\ Len(content') = Len(content) + 1
         /\ Len(content) \in Nat
         /\ Load' = Load \union {Len(content) + 1}
         /\ phase' \in [Load' -> Phase]
         /\ reports' \in [Load' -> Seq(Status)]
         /\ cancelled' \subseteq Load'
         /\ \A k \in Load : /\ content'[k] = content[k]
                            /\ phase'[k] = phase[k]
                            /\ reports'[k] = reports[k]
         /\ phase'[Len(content) + 1] = "requested"
         /\ reports'[Len(content) + 1] = <<>>
<1> DEFINE n == Len(content)
<1>1. /\ content \in Seq(Url \union {Html})
      /\ content' = Append(content, c)
      /\ phase \in [1..n -> Phase]
      /\ phase' = Append(phase, "requested")
      /\ reports \in [1..n -> Seq(Status)]
      /\ reports' = Append(reports, <<>>)
      /\ cancelled \subseteq Load
      /\ cancelled' = cancelled \union Unsettled
  BY DEF TypeOK, RequestLoad, Load
<1>2. n \in Nat
  BY <1>1, LenProperties
<1>3. /\ content' \in Seq(Url \union {Html})
      /\ Len(content') = n + 1
      /\ \A k \in 1..n : content'[k] = content[k]
  BY <1>1, AppendProperties
<1> HIDE DEF n
<1>4. "requested" \in Phase /\ <<>> \in Seq(Status)
  BY EmptySeq DEF Phase
<1>5. /\ phase' \in [1..n + 1 -> Phase]
      /\ \A k \in 1..n : phase'[k] = phase[k]
      /\ phase'[n + 1] = "requested"
  <2>1. phase \in Seq(Phase) /\ Len(phase) = n
    BY <1>1, <1>2, SegmentIsSeq
  <2>2. /\ phase' \in Seq(Phase)
        /\ Len(phase') = n + 1
        /\ \A k \in 1..n : phase'[k] = phase[k]
        /\ phase'[n + 1] = "requested"
    BY <1>1, <1>4, <2>1, AppendProperties
  <2> QED BY <2>2, LenProperties
<1>6. /\ reports' \in [1..n + 1 -> Seq(Status)]
      /\ \A k \in 1..n : reports'[k] = reports[k]
      /\ reports'[n + 1] = <<>>
  <2>1. reports \in Seq(Seq(Status)) /\ Len(reports) = n
    BY <1>1, <1>2, SegmentIsSeq
  <2>2. /\ reports' \in Seq(Seq(Status))
        /\ Len(reports') = n + 1
        /\ \A k \in 1..n : reports'[k] = reports[k]
        /\ reports'[n + 1] = <<>>
    BY <1>1, <1>4, <2>1, AppendProperties
  <2> QED BY <2>2, LenProperties
<1>7. Load = 1..n /\ Load' = 1..n + 1 /\ 1..n + 1 = 1..n \union {n + 1}
  BY <1>2, <1>3 DEF Load, n
<1>8. cancelled' \subseteq Load'
  BY <1>1, <1>7 DEF Unsettled
<1> QED BY <1>2, <1>3, <1>5, <1>6, <1>7, <1>8 DEF n

-----------------------------------------------------------------------------
(* What WebKit was last asked to show. *)
LEMMA NewestType ==
  ASSUME TypeOK
  PROVE  Newest # None => Newest \in Url \union {Html}
<1>1. content \in Seq(Url \union {Html}) /\ Len(content) \in Nat
  BY LenProperties DEF TypeOK
<1>2. content # <<>> => Len(content) \in 1..Len(content)
  BY <1>1, EmptySeq
<1>3. \A n \in 1..Len(content) : content[n] \in Url \union {Html}
  BY <1>1, ElementOfSeq
<1> QED BY <1>2, <1>3 DEF Newest

-----------------------------------------------------------------------------
(* TypeOK, by action. *)
LEMMA TypeOKStep ==
  ASSUME TypeOK, [Next]_vars
  PROVE  TypeOK'
<1> USE DEF viewVars, loaderVars
<1>0. /\ None \notin Url \union {Html}
      /\ Newest # None => Newest \in Url \union {Html}
  BY PageLoadAssumption, NewestType
<1>1. ASSUME UNCHANGED vars PROVE TypeOK'
  BY <1>1 DEF TypeOK, vars, Load
<1>2. ASSUME NEW u \in Url, SetUrl(u) PROVE TypeOK'
  <2>1. CASE webView
    <3>1. RequestLoad(u)
      BY <1>2, <2>1 DEF SetUrl
    <3> QED BY <1>2, <3>1, Requesting DEF SetUrl, TypeOK
  <2>2. CASE ~webView
    BY <1>2, <2>2 DEF SetUrl, TypeOK, Load
  <2> QED BY <2>1, <2>2
<1>3. ASSUME NEW u \in Url, SetUrlAgain(u) PROVE TypeOK'
  BY <1>3 DEF SetUrlAgain, TypeOK, Load
<1>4. ASSUME NEW u \in Url, Navigate(u) PROVE TypeOK'
  <2>1. RequestLoad(u)
    BY <1>4 DEF Navigate
  <2> QED BY <1>4, <2>1, Requesting DEF Navigate, TypeOK
<1>5. CASE LoadHtml
  <2>1. CASE webView
    <3>1. RequestLoad(Html)
      BY <1>5, <2>1 DEF LoadHtml
    <3> QED BY <1>5, <3>1, Requesting DEF LoadHtml, TypeOK
  <2>2. CASE ~webView
    BY <1>5, <2>2 DEF LoadHtml, TypeOK, Load
  <2> QED BY <2>1, <2>2
<1>6. CASE CreateWebView
  <2>1. CASE \E c \in Url \union {Html} : RequestLoad(c)
    BY <1>6, <2>1, Requesting DEF CreateWebView, TypeOK
  <2>2. CASE UNCHANGED <<content, phase, cancelled, reports>>
    BY <1>6, <2>2 DEF CreateWebView, TypeOK, Load
  <2> QED BY <1>6, <2>1, <2>2 DEF CreateWebView, TypeOK
<1>7. CASE Reload
  <2>1. Newest \in Url \union {Html} /\ RequestLoad(Newest)
    BY <1>0, <1>7 DEF Reload
  <2> QED BY <1>7, <2>1, Requesting DEF Reload, TypeOK
<1>8. CASE Stop
  BY <1>8 DEF Stop, TypeOK, Load, Unsettled
<1>9. CASE ShowErrorPage
  <2>1. RequestLoad(Html)
    BY <1>9 DEF ShowErrorPage
  <2> QED BY <1>9, <2>1, Requesting DEF ShowErrorPage, TypeOK
<1>10. ASSUME NEW n \in Load, LoadStarted(n) PROVE TypeOK'
  <2>1. Announce(n, "Started") /\ "Started" \in Status
    BY <1>10 DEF LoadStarted, Status
  <2>2. reports' \in [Load -> Seq(Status)]
    BY <2>1, Announcing
  <2>3. phase' \in [Load -> Phase]
    BY <1>10 DEF LoadStarted, TypeOK, Phase
  <2> QED BY <1>10, <2>2, <2>3 DEF LoadStarted, TypeOK, Load
<1>11. ASSUME NEW n \in Load, LoadCommitted(n) PROVE TypeOK'
  <2>1. phase' \in [Load -> Phase]
    BY <1>11 DEF LoadCommitted, TypeOK, Phase
  <2> QED BY <1>11, <2>1 DEF LoadCommitted, TypeOK, Load
<1>12. ASSUME NEW n \in Load, LoadDropped(n) PROVE TypeOK'
  <2>1. phase' \in [Load -> Phase]
    BY <1>12 DEF LoadDropped, TypeOK, Phase
  <2> QED BY <1>12, <2>1 DEF LoadDropped, TypeOK, Load
<1>13. ASSUME NEW n \in Load, NotifyFinished(n)
       PROVE  reports' \in [Load -> Seq(Status)] /\ m_errorOccured' = FALSE
  <2>1. CASE Announce(n, "Succeeded")
    <3>1. "Succeeded" \in Status
      BY DEF Status
    <3> QED BY <1>13, <2>1, <3>1, Announcing DEF NotifyFinished
  <2>2. CASE UNCHANGED reports
    BY <1>13, <2>2 DEF NotifyFinished, TypeOK
  <2> QED BY <1>13, <2>1, <2>2 DEF NotifyFinished
<1>14. ASSUME NEW n \in Load, LoadFinished(n) PROVE TypeOK'
  <2>1. phase' \in [Load -> Phase]
    BY <1>14 DEF LoadFinished, TypeOK, Phase
  <2> QED BY <1>13, <1>14, <2>1 DEF LoadFinished, TypeOK, Load
<1>15. ASSUME NEW n \in Load, LoadFailed(n) PROVE TypeOK'
  <2>1. phase' \in [Load -> Phase]
    BY <1>15 DEF LoadFailed, TypeOK, Phase
  <2>2. PICK status \in Status : Announce(n, status)
    BY <1>15 DEF LoadFailed, NotifyFailed, Status
  <2>3. reports' \in [Load -> Seq(Status)]
    BY <2>2, Announcing
  <2> QED BY <1>15, <2>1, <2>3 DEF LoadFailed, NotifyFailed, TypeOK, Load
<1>16. CASE FailedLoadFinished
  <2>1. failing \in Load
    BY <1>16 DEF FailedLoadFinished, TypeOK
  <2>2. reports' \in [Load -> Seq(Status)] /\ m_errorOccured' = FALSE
    BY <1>13, <1>16, <2>1 DEF FailedLoadFinished
  <2> QED BY <1>16, <2>2 DEF FailedLoadFinished, TypeOK, Load
<1> QED
  BY <1>1, <1>2, <1>3, <1>4, <1>5, <1>6, <1>7, <1>8, <1>9, <1>10, <1>11,
     <1>12, <1>14, <1>15, <1>16 DEF Next, LoaderStep

(* Type correctness of the view's and the loader's state, for every set of
   addresses, any number of loads, and with or without a reentrant
   application (setUrl(), loadHtml(), the handlers of WebKit's signals). *)
THEOREM LoadTypeCorrect == Spec => []TypeOK
<1>1. Init => TypeOK
  <2>1. SUFFICES ASSUME Init PROVE TypeOK
    OBVIOUS
  <2>2. content = <<>> /\ Len(content) = 0 /\ Load = {}
    BY <2>1, EmptySeq DEF Init, Load
  <2>3. content \in Seq(Url \union {Html})
    BY <2>2, EmptySeq
  <2>4. phase \in Seq(Phase) /\ reports \in Seq(Seq(Status))
    BY <2>1, EmptySeq DEF Init
  <2>5. phase \in [Load -> Phase] /\ reports \in [Load -> Seq(Status)]
    BY <2>1, <2>2, <2>4, LenProperties DEF Init, Load
  <2> QED BY <2>1, <2>2, <2>3, <2>5 DEF Init, TypeOK
<1>2. TypeOK /\ [Next]_vars => TypeOK'
  BY TypeOKStep
<1> QED BY <1>1, <1>2, PTL DEF Spec

-----------------------------------------------------------------------------
(* The flag goes up and down with the emission of a failure: load-failed sets
   it, the FINISHED that follows takes it away, and an application that does
   not act in between cannot clear it. *)
FlagInv ==
    /\ ErrorFlagScoped
    /\ ~Reentrant => (failing # None => m_errorOccured)

LEMMA FlagStep ==
  ASSUME TypeOK, FlagInv, [Next]_vars
  PROVE  FlagInv'
<1> USE DEF FlagInv, ErrorFlagScoped
<1>1. CASE UNCHANGED vars
  BY <1>1 DEF vars, viewVars, loaderVars
<1>2. ASSUME NEW u \in Url, SetUrl(u) \/ SetUrlAgain(u) \/ Navigate(u)
      PROVE FlagInv'
  BY <1>2 DEF SetUrl, SetUrlAgain, Navigate, AppRuns, viewVars, loaderVars
<1>3. CASE LoadHtml \/ CreateWebView \/ Reload \/ Stop \/ ShowErrorPage
  BY <1>3 DEF LoadHtml, CreateWebView, Reload, Stop, ShowErrorPage, AppRuns,
              viewVars, loaderVars
<1>4. ASSUME NEW n \in Load, LoadStarted(n) \/ LoadCommitted(n) \/ LoadDropped(n)
      PROVE FlagInv'
  BY <1>4 DEF LoadStarted, LoadCommitted, LoadDropped, viewVars
<1>5. ASSUME NEW n \in Load, LoadFinished(n)
      PROVE FlagInv'
  BY <1>5 DEF LoadFinished, NotifyFinished, IsCurrent
<1>6. ASSUME NEW n \in Load, LoadFailed(n)
      PROVE FlagInv'
  <2>1. n \in Nat /\ None \notin Nat
    BY PageLoadAssumption DEF Load
  <2> QED BY <1>6, <2>1 DEF LoadFailed, NotifyFailed
<1>7. CASE FailedLoadFinished
  BY <1>7 DEF FailedLoadFinished, NotifyFinished
<1> QED BY <1>1, <1>2, <1>3, <1>4, <1>5, <1>6, <1>7 DEF Next, LoaderStep

LEMMA FlagScopedAlways == Spec => []FlagInv
<1>1. Init => FlagInv
  BY DEF Init, FlagInv, ErrorFlagScoped
<1>2. TypeOK /\ FlagInv /\ [Next]_vars => FlagInv'
  BY FlagStep
<1> QED BY <1>1, <1>2, LoadTypeCorrect, PTL DEF Spec

(* m_errorOccured is set only while the failure that set it is being
   reported, whatever the application does from inside its handler. *)
THEOREM FlagIsScoped == Spec => []ErrorFlagScoped
<1>1. FlagInv => ErrorFlagScoped
  BY DEF FlagInv
<1> QED BY <1>1, FlagScopedAlways, PTL

-----------------------------------------------------------------------------
(* What the application has been told of a load that has come to phase p; only
   a reentrant one may hear more of a load that failed. *)
Told(p, r) ==
    /\ p \in {"requested", "dropped"} => r = <<>>
    /\ p \in {"started", "committed"} => Len(r) = 1 /\ r[1] = "Started"
    /\ p = "finished" =>
           Len(r) = 2 /\ r[1] = "Started" /\ r[2] = "Succeeded"
    /\ p = "failed" =>
           /\ Len(r) \in {2, 3}
           /\ r[1] = "Started"
           /\ r[2] \in {"Failed", "Stopped"}
           /\ Len(r) = 3 => Reentrant /\ r[3] = "Succeeded"

ToldInv == \A n \in Load : Told(phase[n], reports[n])

(* Inside the emission of a failure nothing has followed the report of it. *)
EmissionInv ==
    failing # None => phase[failing] = "failed" /\ Len(reports[failing]) = 2

(* A step that moves one load on, telling it what its new phase calls for. *)
LEMMA ToldMoves ==
  ASSUME TypeOK, ToldInv, NEW n \in Load, NEW p,
         phase' = [phase EXCEPT ![n] = p], content' = content,
         \A k \in Load : k # n => reports'[k] = reports[k],
         Told(p, reports'[n])
  PROVE  ToldInv'
<1>1. Load' = Load
  BY DEF Load
<1>2. \A k \in Load : phase'[k] = IF k = n THEN p ELSE phase[k]
  BY DEF TypeOK
<1> QED BY <1>1, <1>2 DEF ToldInv

LEMMA ToldRequest ==
  ASSUME TypeOK, ToldInv, NEW c \in Url \union {Html}, RequestLoad(c)
  PROVE  ToldInv'
<1>1. /\ Load' = Load \union {Len(content) + 1}
      /\ \A k \in Load : phase'[k] = phase[k] /\ reports'[k] = reports[k]
      /\ phase'[Len(content) + 1] = "requested"
      /\ reports'[Len(content) + 1] = <<>>
  BY Requesting
<1> QED BY <1>1 DEF ToldInv, Told

(* What one more report makes of a load's reports. *)
LEMMA ToldAnnounce ==
  ASSUME TypeOK, NEW n \in Load, NEW status \in Status,
         Announce(n, status)
  PROVE  /\ \A k \in Load : k # n => reports'[k] = reports[k]
         /\ reports[n] = <<>> =>
               Len(reports'[n]) = 1 /\ reports'[n][1] = status
         /\ Len(reports[n]) = 1 =>
               /\ Len(reports'[n]) = 2
               /\ reports'[n][1] = reports[n][1]
               /\ reports'[n][2] = status
         /\ Len(reports[n]) = 2 =>
               /\ Len(reports'[n]) = 3
               /\ reports'[n][1] = reports[n][1]
               /\ reports'[n][2] = reports[n][2]
               /\ reports'[n][3] = status
<1>1. /\ \A k \in Load : k # n => reports'[k] = reports[k]
      /\ Len(reports'[n]) = Len(reports[n]) + 1
      /\ reports'[n][Len(reports[n]) + 1] = status
      /\ \A i \in 1..Len(reports[n]) : reports'[n][i] = reports[n][i]
  BY Announcing
<1>2. reports[n] = <<>> => Len(reports[n]) = 0
  BY EmptySeq
<1>3. ASSUME Len(reports[n]) = 0
      PROVE  Len(reports'[n]) = 1 /\ reports'[n][1] = status
  BY <1>1, <1>3
<1>4. ASSUME Len(reports[n]) = 1
      PROVE  /\ Len(reports'[n]) = 2
             /\ reports'[n][1] = reports[n][1]
             /\ reports'[n][2] = status
  BY <1>1, <1>4
<1>5. ASSUME Len(reports[n]) = 2
      PROVE  /\ Len(reports'[n]) = 3
             /\ reports'[n][1] = reports[n][1]
             /\ reports'[n][2] = reports[n][2]
             /\ reports'[n][3] = status
  BY <1>1, <1>5
<1> QED BY <1>1, <1>2, <1>3, <1>4, <1>5

LEMMA ToldStep ==
  ASSUME TypeOK, FlagInv, ToldInv, EmissionInv, [Next]_vars
  PROVE  ToldInv'
<1> USE DEF viewVars, loaderVars
<1>1. ASSUME UNCHANGED <<content, phase, reports>> PROVE ToldInv'
  BY <1>1 DEF ToldInv, Load
<1>2. ASSUME NEW u \in Url, SetUrl(u) \/ SetUrlAgain(u) \/ Navigate(u)
      PROVE  ToldInv'
  BY <1>1, <1>2, ToldRequest DEF SetUrl, SetUrlAgain, Navigate
<1>3. CASE LoadHtml \/ Stop \/ ShowErrorPage
  BY <1>1, <1>3, ToldRequest DEF LoadHtml, Stop, ShowErrorPage
<1>4. CASE CreateWebView
  BY <1>1, <1>4, ToldRequest DEF CreateWebView, TypeOK
<1>5. CASE Reload
  <2>1. Newest \in Url \union {Html} /\ RequestLoad(Newest)
    BY <1>5, NewestType DEF Reload
  <2> QED BY <2>1, ToldRequest
<1>6. ASSUME NEW n \in Load, LoadStarted(n) PROVE ToldInv'
  <2>1. Announce(n, "Started") /\ "Started" \in Status
    BY <1>6 DEF LoadStarted, Status
  <2>2. reports[n] = <<>>
    BY <1>6 DEF LoadStarted, ToldInv, Told
  <2>3. Told("started", reports'[n])
    BY <2>1, <2>2, ToldAnnounce DEF Told
  <2> QED BY <1>6, <2>1, <2>3, ToldAnnounce, ToldMoves DEF LoadStarted
<1>7. ASSUME NEW n \in Load, LoadCommitted(n) PROVE ToldInv'
  <2>1. Told("committed", reports'[n])
    BY <1>7 DEF LoadCommitted, ToldInv, Told
  <2> QED BY <1>7, <2>1, ToldMoves DEF LoadCommitted
<1>8. ASSUME NEW n \in Load, LoadDropped(n) PROVE ToldInv'
  <2>1. Told("dropped", reports'[n])
    BY <1>8 DEF LoadDropped, ToldInv, Told
  <2> QED BY <1>8, <2>1, ToldMoves DEF LoadDropped
<1>9. ASSUME NEW n \in Load, LoadFinished(n) PROVE ToldInv'
  <2>1. ~m_errorOccured
    BY <1>9 DEF LoadFinished, IsCurrent, FlagInv, ErrorFlagScoped
  <2>2. Announce(n, "Succeeded") /\ "Succeeded" \in Status
    BY <1>9, <2>1 DEF LoadFinished, NotifyFinished, Status
  <2>3. Len(reports[n]) = 1 /\ reports[n][1] = "Started"
    BY <1>9 DEF LoadFinished, ToldInv, Told
  <2>4. Told("finished", reports'[n])
    BY <2>2, <2>3, ToldAnnounce DEF Told
  <2> QED BY <1>9, <2>2, <2>4, ToldAnnounce, ToldMoves DEF LoadFinished
<1>10. ASSUME NEW n \in Load, LoadFailed(n) PROVE ToldInv'
  <2>1. PICK status \in {"Failed", "Stopped"} : Announce(n, status)
    BY <1>10 DEF LoadFailed, NotifyFailed
  <2>2. status \in Status
    BY <2>1 DEF Status
  <2>3. Len(reports[n]) = 1 /\ reports[n][1] = "Started"
    BY <1>10 DEF LoadFailed, ToldInv, Told
  <2>4. Told("failed", reports'[n])
    BY <2>1, <2>2, <2>3, ToldAnnounce DEF Told
  <2> QED BY <1>10, <2>1, <2>2, <2>4, ToldAnnounce, ToldMoves DEF LoadFailed
<1>11. CASE FailedLoadFinished
  <2>1. CASE m_errorOccured
    BY <1>1, <1>11, <2>1 DEF FailedLoadFinished, NotifyFinished
  <2>2. CASE ~m_errorOccured
    <3>1. /\ failing \in Load
          /\ failing # None
          /\ Reentrant
          /\ UNCHANGED <<content, phase>>
      BY <1>11, <2>2, PageLoadAssumption
      DEF FailedLoadFinished, TypeOK, FlagInv
    <3>2. Announce(failing, "Succeeded") /\ "Succeeded" \in Status
      BY <1>11, <2>2, <3>1 DEF FailedLoadFinished, NotifyFinished, Status
    <3>3. /\ Len(reports[failing]) = 2
          /\ reports[failing][1] = "Started"
          /\ reports[failing][2] \in {"Failed", "Stopped"}
          /\ phase[failing] = "failed"
      BY <3>1 DEF EmissionInv, ToldInv, Told
    <3>4. Told("failed", reports'[failing])
      BY <3>1, <3>2, <3>3, ToldAnnounce DEF Told
    <3>5. phase' = [phase EXCEPT ![failing] = "failed"]
      BY <3>1, <3>3 DEF TypeOK
    <3> QED BY <3>1, <3>2, <3>4, <3>5, ToldAnnounce, ToldMoves
  <2> QED BY <2>1, <2>2
<1>12. CASE UNCHANGED vars
  BY <1>1, <1>12 DEF vars
<1> QED
  BY <1>2, <1>3, <1>4, <1>5, <1>6, <1>7, <1>8, <1>9, <1>10, <1>11, <1>12
  DEF Next, LoaderStep

LEMMA EmissionStep ==
  ASSUME TypeOK, ToldInv, EmissionInv, [Next]_vars
  PROVE  EmissionInv'
<1> USE DEF viewVars, loaderVars
<1>1. ASSUME UNCHANGED <<phase, failing, reports>> PROVE EmissionInv'
  BY <1>1 DEF EmissionInv
<1>2. ASSUME NEW c \in Url \union {Html}, RequestLoad(c), UNCHANGED failing
      PROVE  EmissionInv'
  <2>1. failing # None => failing \in Load
    BY DEF TypeOK
  <2>2. \A k \in Load : phase'[k] = phase[k] /\ reports'[k] = reports[k]
    BY <1>2, Requesting
  <2> QED BY <1>2, <2>1, <2>2 DEF EmissionInv
<1>3. ASSUME NEW u \in Url, SetUrl(u) \/ SetUrlAgain(u) \/ Navigate(u)
      PROVE  EmissionInv'
  BY <1>1, <1>2, <1>3 DEF SetUrl, SetUrlAgain, Navigate
<1>4. CASE LoadHtml \/ Stop \/ ShowErrorPage
  BY <1>1, <1>2, <1>4 DEF LoadHtml, Stop, ShowErrorPage
<1>5. CASE CreateWebView
  BY <1>1, <1>2, <1>5 DEF CreateWebView, TypeOK
<1>6. CASE Reload
  <2>1. Newest \in Url \union {Html} /\ RequestLoad(Newest) /\ UNCHANGED failing
    BY <1>6, NewestType DEF Reload
  <2> QED BY <1>2, <2>1
<1>7. ASSUME NEW n \in Load,
             \/ LoadStarted(n)
             \/ LoadCommitted(n)
             \/ LoadDropped(n)
             \/ LoadFinished(n)
      PROVE  EmissionInv'
  BY <1>7 DEF LoadStarted, LoadCommitted, LoadDropped, LoadFinished, IsCurrent,
              EmissionInv
<1>8. ASSUME NEW n \in Load, LoadFailed(n) PROVE EmissionInv'
  <2>1. PICK status \in {"Failed", "Stopped"} : Announce(n, status)
    BY <1>8 DEF LoadFailed, NotifyFailed
  <2>2. status \in Status
    BY <2>1 DEF Status
  <2>3. Len(reports[n]) = 1
    BY <1>8 DEF LoadFailed, ToldInv, Told
  <2>4. Len(reports'[n]) = 2
    BY <2>1, <2>2, <2>3, ToldAnnounce
  <2>5. phase'[n] = "failed" /\ failing' = n
    BY <1>8 DEF LoadFailed, TypeOK
  <2> QED BY <2>4, <2>5 DEF EmissionInv
<1>9. CASE FailedLoadFinished
  BY <1>9 DEF FailedLoadFinished, EmissionInv
<1>10. CASE UNCHANGED vars
  BY <1>1, <1>10 DEF vars
<1> QED
  BY <1>3, <1>4, <1>5, <1>6, <1>7, <1>8, <1>9, <1>10 DEF Next, LoaderStep

LEMMA ToldAlways == Spec => [](TypeOK /\ ToldInv)
<1>1. Init => ToldInv /\ EmissionInv
  <2>1. SUFFICES ASSUME Init PROVE Load = {} /\ failing = None
    BY DEF ToldInv, EmissionInv
  <2> QED BY <2>1, EmptySeq DEF Init, Load
<1>2. TypeOK /\ FlagInv /\ ToldInv /\ EmissionInv /\ [Next]_vars =>
        ToldInv' /\ EmissionInv'
  BY ToldStep, EmissionStep
<1> QED BY <1>1, <1>2, LoadTypeCorrect, FlagScopedAlways, PTL DEF Spec

(* What any application hears, a reentrant one included: the outcome of each
   load comes right after its start, and all that can follow is the success
   that a failed load is wrongly given. *)
OutcomeComesFirst ==
    \A n \in Load :
        CASE phase[n] \in {"requested", "dropped"} -> reports[n] = <<>>
          [] phase[n] \in {"started", "committed"} -> reports[n] = <<"Started">>
          [] phase[n] = "finished" -> reports[n] = <<"Started", "Succeeded">>
          [] phase[n] = "failed" ->
                \E outcome \in {"Failed", "Stopped"} :
                    \/ reports[n] = <<"Started", outcome>>
                    \/ Reentrant /\ reports[n] = <<"Started", outcome, "Succeeded">>

(* Told() gives the status lists that OutcomeComesFirst names. *)
LEMMA ToldIsOutcome ==
  ASSUME TypeOK, ToldInv
  PROVE  OutcomeComesFirst
<1> SUFFICES ASSUME NEW n \in Load
             PROVE  CASE phase[n] \in {"requested", "dropped"} -> reports[n] = <<>>
                      [] phase[n] \in {"started", "committed"} -> reports[n] = <<"Started">>
                      [] phase[n] = "finished" -> reports[n] = <<"Started", "Succeeded">>
                      [] phase[n] = "failed" ->
                            \E outcome \in {"Failed", "Stopped"} :
                                \/ reports[n] = <<"Started", outcome>>
                                \/ Reentrant /\ reports[n] = <<"Started", outcome, "Succeeded">>
  BY DEF OutcomeComesFirst
<1> DEFINE r == reports[n]
<1>1. /\ phase[n] \in Phase
      /\ r \in Seq(Status)
      /\ Told(phase[n], r)
  BY DEF TypeOK, ToldInv
<1> HIDE DEF r
<1>2. Len(r) \in Nat /\ r = [i \in 1..Len(r) |-> r[i]]
  BY <1>1, LenProperties
<1>3. Len(r) = 1 => r = <<r[1]>>
  BY <1>2
<1>4. Len(r) = 2 => r = <<r[1], r[2]>>
  BY <1>2
<1>5. Len(r) = 3 => r = <<r[1], r[2], r[3]>>
  BY <1>2
<1>6. CASE phase[n] \in {"requested", "dropped"}
  BY <1>1, <1>6 DEF Told, r
<1>7. CASE phase[n] \in {"started", "committed"}
  BY <1>1, <1>3, <1>7 DEF Told, r
<1>8. CASE phase[n] = "finished"
  BY <1>1, <1>4, <1>8 DEF Told, r
<1>9. CASE phase[n] = "failed"
  <2>1. CASE Len(r) = 2
    <3>1. r = <<"Started", r[2]>> /\ r[2] \in {"Failed", "Stopped"}
      BY <1>1, <1>4, <1>9, <2>1 DEF Told
    <3> QED BY <1>9, <3>1 DEF r
  <2>2. CASE Len(r) = 3
    <3>1. /\ r = <<"Started", r[2], "Succeeded">>
          /\ r[2] \in {"Failed", "Stopped"}
          /\ Reentrant
      BY <1>1, <1>5, <1>9, <2>2 DEF Told
    <3> QED BY <1>9, <3>1 DEF r
  <2> QED BY <1>1, <1>9, <2>1, <2>2 DEF Told
<1> QED BY <1>1, <1>6, <1>7, <1>8, <1>9 DEF Phase

(* Whatever the application does from inside its handler, no start and no
   outcome of a load is lost, doubled or swapped, and no success of a good
   load is swallowed by the flag of a bad one. *)
THEOREM OutcomesAreHeard == Spec => []OutcomeComesFirst
  BY ToldAlways, ToldIsOutcome, PTL

(* The application hears of each load what happened to it, once and in
   order, if it does not load another page from inside its handler. *)
THEOREM ReportsAreTrue ==
  ASSUME ~Reentrant
  PROVE  Spec => []ReportsMatchOutcome
<1>1. ASSUME TypeOK, OutcomeComesFirst PROVE ReportsMatchOutcome
  <2> SUFFICES ASSUME NEW n \in Load
               PROVE  CASE phase[n] \in {"requested", "dropped"} -> reports[n] = <<>>
                        [] phase[n] \in {"started", "committed"} -> reports[n] = <<"Started">>
                        [] phase[n] = "finished" -> reports[n] = <<"Started", "Succeeded">>
                        [] phase[n] = "failed" ->
                              reports[n] \in {<<"Started", "Failed">>, <<"Started", "Stopped">>}
    BY DEF ReportsMatchOutcome
  <2>1. phase[n] \in Phase
    BY <1>1 DEF TypeOK
  <2>2. /\ phase[n] \in {"requested", "dropped"} => reports[n] = <<>>
        /\ phase[n] \in {"started", "committed"} => reports[n] = <<"Started">>
        /\ phase[n] = "finished" => reports[n] = <<"Started", "Succeeded">>
        /\ phase[n] = "failed" =>
              \E outcome \in {"Failed", "Stopped"} : reports[n] = <<"Started", outcome>>
    BY <1>1, <2>1 DEF OutcomeComesFirst, Phase
  <2>3. phase[n] = "failed" =>
            reports[n] \in {<<"Started", "Failed">>, <<"Started", "Stopped">>}
    BY <2>2
  <2> QED BY <2>1, <2>2, <2>3 DEF Phase
<1> QED BY <1>1, LoadTypeCorrect, OutcomesAreHeard, PTL

-----------------------------------------------------------------------------
(***************************************************************************)
(* The two promises that this code breaks hold outside the scenarios that  *)
(* break them.                                                             *)
(***************************************************************************)

(* An application that does not act from inside its loadingChanged() handler
   never hears of the success of a load that failed: only a setUrl() or
   loadHtml() between load-failed and the FINISHED that follows clears
   m_errorOccured too early. *)
THEOREM FailureIsFinal ==
  ASSUME ~Reentrant
  PROVE  Spec => []NoSuccessAfterFailure
<1>1. ASSUME TypeOK, ToldInv PROVE NoSuccessAfterFailure
  <2>1. SUFFICES ASSUME NEW n \in Load, phase[n] = "failed",
                        NEW i \in 1..Len(reports[n])
                 PROVE  reports[n][i] # "Succeeded"
    BY DEF NoSuccessAfterFailure
  <2>2. /\ Len(reports[n]) = 2
        /\ reports[n][1] = "Started"
        /\ reports[n][2] \in {"Failed", "Stopped"}
    BY <1>1, <2>1, LenProperties DEF ToldInv, Told, TypeOK
  <2>3. i = 1 \/ i = 2
    BY <2>2
  <2> QED BY <2>2, <2>3
<1> QED BY <1>1, ToldAlways, PTL

(* A load asked for is the newest one. *)
LEMMA RequestedIsNewest ==
  ASSUME TypeOK, NEW c \in Url \union {Html}, RequestLoad(c)
  PROVE  Newest' = c
<1>1. /\ content \in Seq(Url \union {Html})
      /\ content' = Append(content, c)
  BY DEF TypeOK, RequestLoad
<1>2. /\ content' \in Seq(Url \union {Html})
      /\ Len(content') = Len(content) + 1
      /\ Len(content) \in Nat
      /\ content'[Len(content) + 1] = c
  BY <1>1, AppendProperties, LenProperties
<1>3. content' # <<>>
  BY <1>2, EmptySeq
<1> QED BY <1>2, <1>3 DEF Newest

(* What a step does to the addresses: it leaves all of them alone, sets the
   url property to another address or to the one it has, creates the web
   view, or loads something without a word to m_url. *)
LEMMA AddressSteps ==
  ASSUME TypeOK, [Next]_vars
  PROVE  \/ UNCHANGED <<m_url, webView, wanted, Newest>>
         \/ /\ m_url' # m_url /\ wanted' = m_url' /\ webView' = webView
            /\ webView => Newest' = m_url'
         \/ /\ wanted' = m_url /\ m_url # None
            /\ UNCHANGED <<m_url, webView, Newest>>
         \/ /\ ~webView
            /\ UNCHANGED <<m_url, wanted>>
            /\ m_url # None => Newest' = m_url
         \/ /\ wanted' = None
            /\ UNCHANGED <<m_url, webView>>
<1> USE DEF viewVars, loaderVars
<1>1. ASSUME UNCHANGED content PROVE Newest' = Newest
  BY <1>1 DEF Newest
<1>2. ASSUME NEW u \in Url, SetUrl(u)
      PROVE  /\ m_url' # m_url /\ wanted' = m_url' /\ webView' = webView
             /\ webView => Newest' = m_url'
  BY <1>2, RequestedIsNewest DEF SetUrl
<1>3. ASSUME NEW u \in Url, SetUrlAgain(u)
      PROVE  /\ wanted' = m_url /\ m_url # None
             /\ UNCHANGED <<m_url, webView, Newest>>
  BY <1>1, <1>3, PageLoadAssumption DEF SetUrlAgain
<1>4. ASSUME (\E u \in Url : Navigate(u)) \/ LoadHtml \/ ShowErrorPage
      PROVE  wanted' = None /\ UNCHANGED <<m_url, webView>>
  BY <1>4 DEF Navigate, LoadHtml, ShowErrorPage
<1>5. CASE CreateWebView
  <2>1. /\ ~webView
        /\ UNCHANGED <<m_url, wanted>>
        /\ m_url # None => RequestLoad(m_url)
    BY <1>5 DEF CreateWebView
  <2>2. m_url # None => Newest' = m_url
    BY <2>1, RequestedIsNewest DEF TypeOK
  <2> QED BY <2>1, <2>2
<1>6. CASE Reload
  <2>1. Newest \in Url \union {Html} /\ RequestLoad(Newest)
    BY <1>6, NewestType DEF Reload
  <2>2. Newest' = Newest
    BY <2>1, RequestedIsNewest
  <2> QED BY <1>6, <2>2 DEF Reload
<1>7. CASE Stop
  BY <1>1, <1>7 DEF Stop
<1>8. CASE LoaderStep
  <2>1. UNCHANGED <<m_url, webView, wanted, content>>
    BY <1>8 DEF LoaderStep, LoadStarted, LoadCommitted, LoadDropped,
                LoadFinished, LoadFailed, FailedLoadFinished
  <2> QED BY <1>1, <2>1
<1>9. CASE UNCHANGED vars
  BY <1>1, <1>9 DEF vars
<1> QED BY <1>2, <1>3, <1>4, <1>5, <1>6, <1>7, <1>8, <1>9 DEF Next

(* The application sets no address that m_url already holds, unless it is the
   one wanted anyway. *)
SetsOnlyChanges ==
    [][wanted' # wanted => m_url' # m_url \/ wanted' = None]_vars

(* A change of the url property always takes effect: a setUrl() that carries
   another address than the last one loads it, at once or when the web view
   is created, whatever the page, the history and loadHtml() do around it. *)
THEOREM ChangedUrlTakesEffect ==
  Spec /\ SetsOnlyChanges => []SetUrlTakesEffect
<1> DEFINE InEffect == wanted # None =>
                           wanted = m_url /\ (webView => Newest = wanted)
<1>1. Init => InEffect
  BY DEF Init
<1>2. TypeOK /\ InEffect /\ [Next]_vars
      /\ [wanted' # wanted => m_url' # m_url \/ wanted' = None]_vars => InEffect'
  <2> SUFFICES ASSUME TypeOK, InEffect, [Next]_vars,
                      wanted' # wanted => m_url' # m_url \/ wanted' = None
               PROVE  InEffect'
    BY DEF vars
  <2> QED BY AddressSteps
<1>3. InEffect => SetUrlTakesEffect
  BY DEF SetUrlTakesEffect
<1> QED BY <1>1, <1>2, <1>3, LoadTypeCorrect, PTL DEF Spec, SetsOnlyChanges

(* The page stays on the address that the property holds. *)
PageStaysPut ==
    [][webView /\ m_url' # None /\ Newest' # Newest => Newest' = m_url']_vars

(* Also setting the same address again is right to do nothing while the page
   is still there: what breaks the promise is only m_url, which a page that
   moves on, loadHtml() and an error page leave behind. *)
THEOREM SameUrlOfAStayingPage ==
  Spec /\ PageStaysPut => []SetUrlTakesEffect
<1> DEFINE InStep == /\ wanted # None => wanted = m_url
                     /\ webView /\ m_url # None => Newest = m_url
<1>1. Init => InStep
  BY DEF Init
<1>2. TypeOK /\ InStep /\ [Next]_vars
      /\ [webView /\ m_url' # None /\ Newest' # Newest => Newest' = m_url']_vars
         => InStep'
  <2> SUFFICES ASSUME TypeOK, InStep, [Next]_vars,
                      [webView /\ m_url' # None /\ Newest' # Newest =>
                          Newest' = m_url']_vars
               PROVE  InStep'
    OBVIOUS
  <2>1. CASE UNCHANGED vars
    BY <2>1 DEF vars, viewVars, loaderVars, Newest
  <2>2. CASE webView /\ m_url' # None /\ Newest' # Newest => Newest' = m_url'
    BY <2>2, AddressSteps
  <2> QED BY <2>1, <2>2
<1>3. TypeOK /\ InStep => SetUrlTakesEffect
  BY DEF SetUrlTakesEffect
<1> QED BY <1>1, <1>2, <1>3, LoadTypeCorrect, PTL DEF Spec, PageStaysPut
=============================================================================
