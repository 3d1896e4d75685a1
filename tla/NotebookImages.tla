--------------------------- MODULE NotebookImages ---------------------------
(***************************************************************************)
(* The image compatibility check of the notebooks (notebook/impacted.go):  *)
(* an image is traced to an out-of-the-box image stream by four strategies *)
(* and judged by the notebook type, the tag or the build reference.        *)
(*                                                                         *)
(*   c.streams  the tags of the labelled image streams in list order, each *)
(*              [is, tag, shas, refs, from]; a tag is <<year, n>>, or <<>> *)
(*              for one that is no version                                 *)
(*   c.ootb     the out-of-the-box streams, [is, type, repo]: those with   *)
(*              the platform annotation, without the runtime images        *)
(*   c.ists     ImageStreamTags, [is, tag, sha, build]                     *)
(*   c.books    the notebooks, each the sequence of its images,            *)
(*              [ref, sha, path, tag]; sha and path may be "", a tag that  *)
(*              is absent is NoTag                                         *)
(***************************************************************************)
EXTENDS LintBase

NoTag == <<0>>
NotVersion == <<>>
NginxFixMinTag == <<2025, 2>>
NginxFixMinBuild == <<3, 0>>

isValidVersionTag(tag) == Len(tag) = 2

\* isTagGTE and isCompliantBuildRef compare two numbers
isGTE(v, w) == Len(v) = 2 /\ IsVersionAtLeast(v, w[1], w[2])

\* The first tag, in list order, that a test accepts: [is, tag] or none
FirstTag(streams, P(_)) ==
    LET hits == {i \in DOMAIN streams : P(streams[i])}
    IN  {[is |-> streams[i].is, tag |-> streams[i].tag] :
            i \in {h \in hits : \A j \in hits : h <= j}}

findImageStreamByDockerImageRef(c, im) ==
    LET P(t) == im.ref \in t.refs IN FirstTag(c.streams, P)

findImageStreamForSHA(c, im) ==
    LET P(t) == im.sha # "" /\ im.sha \in t.shas IN FirstTag(c.streams, P)

findImageStreamBySpecRef(c, im) ==
    LET P(t) == im.ref = t.from IN FirstTag(c.streams, P)

\* A repository holds the name of its stream: one stream at most
findImageStreamByDockerRepo(c, im) ==
    {[is |-> o.is, tag |-> im.tag] : o \in {x \in c.ootb : x.repo # "" /\ x.repo = im.path}}

findTagForSHA(c, im, is) ==
    LET P(t) == im.sha # "" /\ t.is = is /\ im.sha \in t.shas
        hit == FirstTag(c.streams, P)
    IN  IF hit = {} THEN NoTag ELSE (CHOOSE h \in hit : TRUE).tag

\* Mutant: any fixed tag will do
findCompliantTagAnySHA(c, im) ==
    \E i \in DOMAIN c.streams : isGTE(c.streams[i].tag, NginxFixMinTag)

findCompliantTagForSHA(c, im) ==
    \E i \in DOMAIN c.streams :
        /\ im.sha # "" /\ im.sha \in c.streams[i].shas
        /\ isGTE(c.streams[i].tag, NginxFixMinTag)

\* An absent tag stands for "latest", which is no version
analyzeRStudioImageCompat(c, im, hit) ==
    LET tag == IF hit.tag = NoTag THEN NotVersion ELSE hit.tag
        ists == {t \in c.ists : t.is = hit.is /\ t.tag = tag}
        ist == CHOOSE t \in ists : TRUE
    IN  IF c.fault["ImageStreamTag"] # "ok" \/ ists = {} THEN "VERIFY_FAILED"
        ELSE IF ist.build = <<>> THEN "VERIFY_FAILED"
        ELSE IF im.sha # "" /\ ist.sha # "" /\ im.sha # ist.sha THEN "POST"
        ELSE IF isGTE(ist.build, NginxFixMinBuild) THEN "GOOD" ELSE "POST"

analyzeTagBasedImageCompat(c, im, hit) ==
    LET tag == IF hit.tag = NoTag THEN findTagForSHA(c, im, hit.is) ELSE hit.tag
    IN  IF isGTE(tag, NginxFixMinTag) THEN "GOOD"
        ELSE IF findCompliantTagForSHA(c, im) THEN "GOOD"
        ELSE IF isValidVersionTag(tag) THEN "PRE" ELSE "VERIFY_FAILED"

analyzeOOTBImage(c, im, hit, type) ==
    CASE type = "jupyter" -> "GOOD"
      [] type = "rstudio" -> analyzeRStudioImageCompat(c, im, hit)
      [] OTHER -> analyzeTagBasedImageCompat(c, im, hit)

\* Each strategy counts only when its first match is an out-of-the-box one
analyzeImage(c, im) ==
    LET tries == <<findImageStreamByDockerImageRef(c, im), findImageStreamForSHA(c, im),
                   findImageStreamByDockerRepo(c, im), findImageStreamBySpecRef(c, im)>>
        Known(hits) == {h \in hits : \E o \in c.ootb : o.is = h.is}
        good == {i \in DOMAIN tries : Known(tries[i]) # {}}
        first == {i \in good : \A j \in good : i <= j}
    IN  IF good = {} THEN {"CUSTOM"}
        ELSE {analyzeOOTBImage(c, im, h, (CHOOSE o \in c.ootb : o.is = h.is).type)
                 : h \in UNION {Known(tries[i]) : i \in first}}

\* A notebook is as bad as its worst image; none at all cannot be verified
Severity == <<"PRE", "POST", "VERIFY_FAILED", "CUSTOM", "GOOD">>
aggregateImageAnalyses(found) ==
    IF found = {} THEN "VERIFY_FAILED"
    ELSE Severity[CHOOSE i \in 1..5 : /\ Severity[i] \in found
                                      /\ \A j \in 1..(i - 1) : Severity[j] \notin found]

\* analyzeNotebook; the images of one notebook, each with one verdict
analyzeNotebook(c, book) ==
    aggregateImageAnalyses(UNION {analyzeImage(c, book[i]) : i \in DOMAIN book})

\* analyzeNotebooks and setConditions
NotebookImpacted(c) ==
    LET streams == ListOrNone(c, "ImageStream")
        seen == IF c.fault["ImageStream"] = "ok" THEN c
                ELSE [c EXCEPT !.streams = <<>>, !.ootb = {}]
        F(s) == IF s = {} THEN Finds({"none"})
                ELSE IF AppNamespace(c) # "" THEN Errs(AppNamespace(c))
                ELSE IF streams.err # "" THEN Errs(streams.err)
                ELSE Found(\E b \in c.books : analyzeNotebook(seen, b) # "GOOD",
                                    "advisory")
    IN  [can |-> Yes(IsUpgradeFrom2xTo3x(c)),
         run |-> WorkloadsOf(c, "workbenches", "Notebook", F)]
=============================================================================
