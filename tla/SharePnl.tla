------------------------------- MODULE SharePnl -------------------------------
(***************************************************************************)
(* A result that is shared.  The position of an account offers a link with *)
(* the result in it as the page shows it; who opens the link sees a page   *)
(* with a chart, and who is shown the link sees an image, made by another  *)
(* program that reads the same link and asks the same service.  Nothing is *)
(* kept between them, so that all of it is a function of the account, the  *)
(* languages, the time and the answer of the service.                      *)
(*                                                                         *)
(* Times are hours, results are hundredths of a percent.                   *)
(***************************************************************************)
EXTENDS Integers, Sequences

CONSTANTS NaN, Infinity, Null, Undefined,
          Launch,    \* when each strategy began
          Worths, Deposits,
          Firsts,    \* times of first deposits
          Nows,
          Answers,   \* series of points, each <<time, result>>, of the service
          Failed,    \* it has none, or does not answer
          Widths     \* times and results of the charts that are drawn

Strategies == DOMAIN Launch
\* What stands between thousands, and before the hundredths.
Locales == {[group |-> ",", point |-> "."], [group |-> ".", point |-> ","], [group |-> " ", point |-> ","]}
en == [group |-> ",", point |-> "."]

-----------------------------------------------------------------------------
(* Numbers as texts *)

Abs(n) == IF n < 0 THEN -n ELSE n
Groups(n) == IF n < 1000 THEN <<n>> ELSE <<n \div 1000, n % 1000>>
formatNumber(x, locale) ==
  IF x \in Int THEN [minus |-> x < 0, groups |-> Groups(Abs(x) \div 100), cents |-> Abs(x) % 100, in |-> locale]
  ELSE [word |-> x]

\* A text is read as a number only where nothing stands between thousands and a
\* point before the hundredths.
Number(text) ==
  IF "word" \in DOMAIN text \/ text.in.point # "." \/ Len(text.groups) > 1 THEN NaN
  ELSE (IF text.minus THEN -1 ELSE 1) * (100 * text.groups[1] + text.cents)

\* The props of a page reach the browser as JSON, which has no NaN.
Json(x) == IF x = NaN THEN Null ELSE x

\* The parts that are not zero, and only those of an hour and more.
formatDuration(duration) ==
  SelectSeq(<<<<duration.years, "y">>, <<duration.months, "m">>, <<duration.days, "d">>, <<duration.hours, "h">>>>,
            LAMBDA part : part[1] # 0)

intervalToDuration(from, to) ==
  LET hours == Abs(to - from) IN
  [years |-> hours \div 8640, months |-> (hours % 8640) \div 720, days |-> (hours % 720) \div 24, hours |-> hours % 24]
Label(start, now) == [from |-> start, ago |-> formatDuration(intervalToDuration(now, start))]

-----------------------------------------------------------------------------
(* The position, and its link *)

NoLink == [strategy |-> "none"]

Percent(worth, deposited) ==
  IF deposited = NaN THEN NaN ELSE IF deposited = 0 THEN Infinity ELSE (10000 * worth) \div deposited - 10000
pnlInPerctv2(worth, deposited) == IF deposited = 0 THEN 0 ELSE Percent(worth, deposited)

\* What is told of a result and what leads to it.
SharePnlButton(isPnlLoading, strategy, pnl, firstDepositTimestamp, locale) ==
  IF isPnlLoading THEN NoLink
  ELSE [strategy |-> strategy, depositedAt |-> firstDepositTimestamp, pnl |-> formatNumber(pnl, locale),
        post |-> [plus |-> pnl = Infinity \/ pnl > 0, timeframe |-> firstDepositTimestamp # Undefined]]

CrabPosition(account, locale) ==
  LET pnl == pnlInPerctv2(account.worth, account.deposited) IN
  SharePnlButton(pnl \notin Int, "crab", pnl, account.first, locale)
CrabMyPosition(account, locale) ==
  IF account.worth = 0 /\ ~ account.queued THEN NoLink ELSE CrabPosition(account, locale)

\* Asks of the gain, not of the percentage, whether it is there.
BullMyPosition(account, locale) ==
  IF account.worth = 0 THEN NoLink
  ELSE SharePnlButton(account.deposited = NaN, "zenbull", Percent(account.worth, account.deposited), account.first, locale)

MyPosition(strategy, account, locale) ==
  IF strategy = "crab" THEN CrabMyPosition(account, locale) ELSE BullMyPosition(account, locale)

-----------------------------------------------------------------------------
(* The page of the link *)

getServerSideProps(link) ==
  [strategy |-> link.strategy, depositedAt |-> IF link.depositedAt = Undefined THEN NaN ELSE link.depositedAt,
   pnl |-> Number(link.pnl)]
InBrowser(props) == [props EXCEPT !.depositedAt = Json(@), !.pnl = Json(@)]

\* Null is the beginning of time to a date, and NaN is before nothing.
getStartTimestamp(strategy, depositedAt) ==
  IF depositedAt = NaN THEN NaN
  ELSE IF depositedAt = Null \/ depositedAt < Launch[strategy] THEN Launch[strategy] ELSE depositedAt

Sign(pnl) == IF pnl \in Int THEN [plus |-> pnl > 0, good |-> pnl >= 0] ELSE [plus |-> FALSE, good |-> FALSE]
Result(pnl, locale) == [sign |-> Sign(pnl), pnl |-> formatNumber(pnl, locale)]

\* The service tells Crab's results as fractions, those of Zen Bull in percent.
Drawn(answer, scale) == [i \in DOMAIN answer |-> [x |-> answer[i][1], y |-> answer[i][2] * scale]]
PnlChartData(strategy, answer) == IF answer = Failed THEN Undefined ELSE Drawn(answer, IF strategy = "crab" THEN 100 ELSE 1)

\* A chart without data is drawn empty.
PnlChart(strategy, depositedAt, now, answer) ==
  LET data == PnlChartData(strategy, answer) IN
  [series |-> IF data = Undefined THEN <<>> ELSE data, label |-> Label(depositedAt, now)]

Crash == [status |-> "crash"]
UI(strategy, depositedAt, pnl, locale, now, answer) ==
  IF pnl = Null THEN Crash
  ELSE [status |-> "shown", strategy |-> strategy, result |-> Result(pnl, locale),
        chart |-> PnlChart(strategy, depositedAt, now, answer)]

SharedPage(props, locale, now, answer) ==
  UI(props.strategy, getStartTimestamp(props.strategy, props.depositedAt), props.pnl, locale, now, answer)
\* The address of the image is in what the server sends.
ogImageUrl(props) == props

-----------------------------------------------------------------------------
(* The image *)

CHART_WIDTH == 1000
CHART_HEIGHT == 280
X_AXIS_WIDTH == 5
Y_AXIS_WIDTH == 5
chartXPadding == Y_AXIS_WIDTH + 3
chartYPadding == X_AXIS_WIDTH + 36

Largest(S) == CHOOSE x \in S : \A y \in S : y <= x
Least(S) == CHOOSE x \in S : \A y \in S : x <= y
\* A fraction; none has a denominator of zero.
Over(n, d) == IF d = 0 THEN NaN ELSE [over |-> n, under |-> d]
Points(data) ==
  LET xs == {data[i].x : i \in DOMAIN data}
      ys == {data[i].y : i \in DOMAIN data}
      xRange == Largest(xs) - Least(xs)
      yRange == Largest(ys) - Least(ys)
      Wide == CHART_WIDTH - 2 * chartXPadding
      High == CHART_HEIGHT - 2 * chartYPadding
  IN [i \in DOMAIN data |->
        [x |-> Over(chartXPadding * xRange + (data[i].x - Least(xs)) * Wide, xRange),
         y |-> Over((CHART_HEIGHT - chartYPadding) * yRange - (data[i].y - Least(ys)) * High, yRange)]]

UserPnl(strategy, depositTimestamp, pnl, now, data) ==
  [status |-> "shown", strategy |-> strategy, result |-> Result(pnl, en), data |-> data, points |-> Points(data),
   label |-> Label(depositTimestamp, now)]

\* A strategy it does not know, like a date it cannot write, ends in a failure.
Refused(code) == [status |-> code]
fetchPnlData(strategy, answer) ==
  CASE answer = Failed -> Undefined
    [] strategy = "crab" -> Drawn(answer, 100)
    [] strategy = "zenbull" -> Drawn(answer, 1)
    [] OTHER -> Undefined

handler(query, now, answer) ==
  LET start == getStartTimestamp(query.strategy, query.depositedAt)
      data == fetchPnlData(query.strategy, answer)
  IN IF Undefined \in {query.strategy, query.depositedAt, query.pnl} THEN Refused("400")
     ELSE IF query.depositedAt # NaN /\ query.depositedAt > now THEN Refused("400")
     ELSE IF start = NaN \/ data = Undefined THEN Refused("500")
     ELSE UserPnl(query.strategy, start, query.pnl, now, data)

-----------------------------------------------------------------------------
(* What holds of all this, for every account, language, time and answer *)

\* An account that never deposited has no first deposit: Crab takes what it put
\* in for nothing, Zen Bull for unknown.
AccountsOf(strategy) ==
  [worth : Worths, queued : BOOLEAN, deposited : Deposits \cup {NaN}, first : Firsts]
    \cup [worth : Worths, queued : BOOLEAN, deposited : {IF strategy = "crab" THEN 0 ELSE NaN}, first : {Undefined}]

\* A link takes its result to the page and to the image exactly when it is below a
\* thousand percent and was written with a point: then both tell what the account
\* saw, since the same day and by the same series, and the image fails only when
\* the service does or no deposit is known.  With any other link the image says
\* NaN and the page does not come up.
ASSUME OneStory ==
  \A strategy \in Strategies : \A account \in AccountsOf(strategy), locale \in Locales, reader \in Locales :
    LET link == MyPosition(strategy, account, locale) IN
    link # NoLink =>
      LET props == getServerSideProps(link)
          known == account.first # Undefined
          pnl == IF strategy = "crab" THEN pnlInPerctv2(account.worth, account.deposited)
                 ELSE Percent(account.worth, account.deposited)
          readsBack == pnl \in -99999 .. 99999 /\ locale = en
      IN \A now \in {n \in Nows : known => account.first <= n}, answer \in Answers \cup {Failed} :
           LET page == SharedPage(InBrowser(props), reader, now, answer)
               image == handler(ogImageUrl(props), now, answer)
           IN /\ (page.status = "shown") <=> readsBack
              /\ readsBack => page.result = Result(pnl, reader) /\ page.result.sign.plus = link.post.plus
              /\ (image.status = "shown") <=> (known /\ answer # Failed)
              /\ image.status = "shown" /\ ~ readsBack => image.result = Result(NaN, en)
              /\ image.status = "shown" /\ readsBack =>
                   /\ image.strategy = page.strategy /\ image.result = Result(pnl, en)
                   /\ image.label = page.chart.label /\ image.data = page.chart.series

\* A chart of at least two times and two results is drawn between the axes, from
\* the one margin to the other, what is later further right and what is more
\* higher; any other has a coordinate that is no number.
ASSUME PointsInside ==
  \A n \in 1 .. 3 : \A data \in [1 .. n -> [x : Widths, y : Widths]] :
    LET points == Points(data)
        At(p, c) == p[c] # NaN /\ p[c].under > 0
        Value(p, c) == p[c].over \div p[c].under
        Flat(c) == \A i \in 1 .. n : data[i][c] = data[1][c]
    IN \A c \in {"x", "y"} : \A i \in 1 .. n :
         /\ At(points[i], c) <=> ~ Flat(c)
         /\ ~ Flat(c) =>
              /\ c = "x" => Value(points[i], c) \in Y_AXIS_WIDTH + 1 .. CHART_WIDTH - Y_AXIS_WIDTH - 1
              /\ c = "y" => Value(points[i], c) \in X_AXIS_WIDTH + 1 .. CHART_HEIGHT - X_AXIS_WIDTH - 1
              /\ \A j \in 1 .. n :
                   data[i][c] < data[j][c] =>
                     IF c = "x" THEN points[i][c].over < points[j][c].over ELSE points[i][c].over > points[j][c].over

\* Two durations have the same label only when they differ in nothing, and none is
\* empty but that of less than an hour.
ASSUME LabelsTell ==
  LET durations == [years : Widths, months : Widths, days : Widths, hours : Widths] IN
  /\ \A d, e \in durations : formatDuration(d) = formatDuration(e) => d = e
  /\ \A from, to \in Nows : (formatDuration(intervalToDuration(from, to)) = <<>>) <=> (from = to)
=============================================================================
