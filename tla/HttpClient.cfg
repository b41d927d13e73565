\* An http and an https address, bodies of up to two bytes, two redirects.
SPECIFICATION Spec
CONSTANTS Uris = {u1, u2}  Secure = {u1}  NoUri = NoUri
          Absent = Absent  NotANumber = NotANumber
          MinusOne = MinusOne  TooLong = TooLong  MaxBody = 2  MaxCalls = 3
INVARIANTS TypeOK AnswerExact OnlyRedirectsFollowed NothingKept
 
