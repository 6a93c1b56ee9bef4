----------------------------- MODULE Providers -----------------------------
(***************************************************************************)
(* What sets the 124 providers of allauth/socialaccount/providers apart:   *)
(* the profiles of ProviderProfiles, how each is asked for, and what each  *)
(* provider does with an answer that is not one.  ProviderLogin has what   *)
(* they share, and what the values below mean.                             *)
(*                                                                         *)
(* A definition that is named after a class of a views.py says what its    *)
(* complete_login() does until it has the profile.  Left out: the          *)
(* addresses of endpoints, scopes and the parameters of requests, and      *)
(* requests that only add a field that is not modelled.                    *)
(***************************************************************************)
EXTENDS ProviderProfiles

(* status:   what becomes of a response that is not 200: it "raises" an    *)
(*           error of the requests library, or an OAuthError as query()    *)
(*           does, or is "ignored" and read like a profile; "token" if the *)
(*           profile came with the access token, "signed" if it is part of *)
(*           what the browser brings                                       *)
(* root:     whether the profile is the "whole" body or a "part" of it,    *)
(*           and "empty" if the part that is missing is                    *)
(* also:     "body" if the body is checked for an error, "mails" and       *)
(*           "mails?" if the addresses are another request, which raises,  *)
(*           or which is done without if it fails                          *)
Fetch(status, root, also) == [status |-> status, root |-> root, also |-> also]

Signed == Fetch("signed", "whole", {})

(* odd: what becomes of a response to the token request that is 200 and    *)
(* has no token in it.                                                     *)
TokenRequest(odd) == [odd |-> odd]

OAuth2Client == TokenRequest("error")
OAuthClient == TokenRequest("crash")

(* state: whether the stashed state is found by its "id", or the "last" is *)
(* taken.  channel: what the browser brings: a "code" to exchange, the     *)
(* approval of a request "token", an answer that is "signed" or fetched by *)
(* what it brings, or one "posted" to a view that keeps it for another.    *)
Provider(state, channel, client, person, fetch) ==
    [state |-> state, channel |-> channel, client |-> client,
     person |-> person, fetch |-> fetch, keeps |-> FALSE, tokens |-> FALSE]

OAuth2(person, fetch) == Provider("id", "code", OAuth2Client, person, fetch)
OAuth1(person, fetch) == Provider("last", "token", OAuthClient, person, fetch)
Answered(state, channel, person, fetch) ==
    Provider(state, channel, OAuth2Client, person, fetch)

With(client, provider) == [provider EXCEPT !.client = client]

(* supports_token_authentication *)
Tokens(provider) == [provider EXCEPT !.tokens = TRUE]

(* A code that is posted to a first view, with an ID token to keep. *)
Posting(provider) == [provider EXCEPT !.keeps = TRUE]
----------------------------------------------------------------------------

AgaveAdapter == Fetch("ignored", "empty", {})
AmazonOAuth2Adapter == Fetch("raises", "whole", {})
AmazonCognitoOAuth2Adapter == Fetch("raises", "whole", {})
AppleOAuth2Adapter == Fetch("signed", "whole", {})
AppleOAuth2Client == TokenRequest("error")
AsanaOAuth2Adapter == Fetch("ignored", "part", {})
AtlassianOAuth2Adapter == Fetch("raises", "whole", {})
Auth0OAuth2Adapter == Fetch("ignored", "whole", {})
AuthentiqOAuth2Adapter == Fetch("raises", "whole", {})
BaiduOAuth2Adapter == Fetch("ignored", "whole", {})
BasecampOAuth2Adapter == Fetch("ignored", "whole", {})
BattleNetOAuth2Adapter == Fetch("raises", "whole", {"body"})
BitbucketOAuth2Adapter == Fetch("ignored", "whole", {"mails?"})
BitlyOAuth2Adapter == Fetch("ignored", "part", {})
BoxOAuth2Adapter == Fetch("ignored", "whole", {})
CILogonOAuth2Adapter == Fetch("raises", "whole", {})
CleverOAuth2Adapter == Fetch("raises", "whole", {})
CoinbaseOAuth2Adapter == Fetch("ignored", "whole", {})
DataportenOAuth2Adapter == Fetch("raises", "part", {})
DaumOAuth2Adapter == Fetch("ignored", "part", {})
DigitalOceanOAuth2Adapter == Fetch("ignored", "whole", {})
DingTalkOAuth2Adapter == Fetch("raises", "whole", {})
DingTalkOAuth2Client == TokenRequest("error")
DiscogsOAuthAdapter == Fetch("query", "whole", {})
DiscordOAuth2Adapter == Fetch("ignored", "whole", {})
DisqusOAuth2Adapter == Fetch("raises", "part", {})
DoubanOAuth2Adapter == Fetch("ignored", "whole", {"body"})
DoximityOAuth2Adapter == Fetch("ignored", "whole", {})
draugiem_complete_login == Fetch("raises", "whole", {"body"})
DripOAuth2Adapter == Fetch("raises", "part", {})
DropboxOAuth2Adapter == Fetch("raises", "whole", {})
DwollaOAuth2Adapter == Fetch("ignored", "whole", {})
EdmodoOAuth2Adapter == Fetch("ignored", "whole", {})
EdxOAuth2Adapter == Fetch("ignored", "whole", {})
EventbriteOAuth2Adapter == Fetch("ignored", "whole", {})
EveOnlineOAuth2Adapter == Fetch("ignored", "whole", {})
EvernoteOAuthAdapter == Fetch("token", "whole", {})
ExistOAuth2Adapter == Fetch("ignored", "whole", {})
FacebookOAuth2Adapter == Fetch("raises", "whole", {})
FeedlyOAuth2Adapter == Fetch("ignored", "whole", {})
FeishuOAuth2Adapter == Fetch("raises", "part", {"body"})
FeishuOAuth2Client == TokenRequest("error")
FigmaOAuth2Adapter == Fetch("raises", "whole", {})
FiveHundredPxOAuthAdapter == Fetch("query", "part", {})
FlickrOAuthAdapter == Fetch("query", "whole", {})
FoursquareOAuth2Adapter == Fetch("ignored", "part", {})
FrontierOAuth2Adapter == Fetch("raises", "whole", {})
FirefoxAccountsOAuth2Adapter == Fetch("ignored", "whole", {})
GiteaOAuth2Adapter == Fetch("raises", "whole", {})
GitHubOAuth2Adapter == Fetch("raises", "whole", {"mails"})
GitLabOAuth2Adapter == Fetch("raises", "whole", {"body"})
GlobusOAuth2Adapter == Fetch("ignored", "whole", {})
GoogleOAuth2Adapter == Fetch("raises", "whole", {})
GumroadOAuth2Adapter == Fetch("raises", "part", {})
HubicOAuth2Adapter == Fetch("ignored", "whole", {})
HubspotOAuth2Adapter == Fetch("raises", "whole", {})
InstagramOAuth2Adapter == Fetch("raises", "whole", {})
JupyterHubOAuth2Adapter == Fetch("ignored", "whole", {})
KakaoOAuth2Adapter == Fetch("raises", "whole", {})
KlaviyoOAuth2Adapter == Fetch("raises", "whole", {})
LemonLDAPOAuth2Adapter == Fetch("raises", "whole", {})
LichessOAuth2Adapter == Fetch("raises", "whole", {"mails"})
LineOAuth2Adapter == Fetch("raises", "whole", {})
LinkedInOAuth2Adapter == Fetch("raises", "whole", {"mails?"})
MailChimpOAuth2Adapter == Fetch("ignored", "whole", {})
MailcowAdapter == Fetch("raises", "whole", {})
MailRuOAuth2Adapter == Fetch("ignored", "part", {})
MediaWikiOAuth2Adapter == Fetch("raises", "whole", {})
MeetupOAuth2Adapter == Fetch("ignored", "whole", {})
MicrosoftGraphOAuth2Adapter == Fetch("ignored", "whole", {"body"})
MiroOAuth2Adapter == Fetch("raises", "whole", {})
NaverOAuth2Adapter == Fetch("raises", "part", {})
NetIQOAuth2Adapter == Fetch("raises", "whole", {})
NextCloudOAuth2Adapter == Fetch("raises", "part", {})
NotionOAuth2Adapter == Fetch("token", "whole", {})
NotionOAuth2Client == TokenRequest("error")
OdnoklassnikiOAuth2Adapter == Fetch("ignored", "whole", {})
OktaOAuth2Adapter == Fetch("raises", "whole", {})
OpenIDConnectOAuth2Adapter == Fetch("raises", "whole", {})
OpenStreetMapOAuthAdapter == Fetch("query", "part", {})
OrcidOAuth2Adapter == Fetch("ignored", "whole", {})
PatreonOAuth2Adapter == Fetch("ignored", "part", {})
PaypalOAuth2Adapter == Fetch("ignored", "whole", {})
PinterestOAuth2Adapter == Fetch("ignored", "whole", {})
PocketOAuthAdapter == Fetch("token", "whole", {})
PocketOAuthClient == TokenRequest("crash")
QuestradeOAuth2Adapter == Fetch("raises", "whole", {})
QuickBooksOAuth2Adapter == Fetch("raises", "whole", {})
RedditAdapter == Fetch("ignored", "whole", {})
RobinhoodOAuth2Adapter == Fetch("ignored", "whole", {})
SalesforceOAuth2Adapter == Fetch("raises", "whole", {})
ShareFileOAuth2Adapter == Fetch("ignored", "whole", {})
ShopifyOAuth2Adapter == Fetch("ignored", "whole", {})
SlackOAuth2Adapter == Fetch("ignored", "whole", {"body"})
SnapchatOAuth2Adapter == Fetch("raises", "whole", {"body"})
SoundCloudOAuth2Adapter == Fetch("ignored", "whole", {})
SpotifyOAuth2Adapter == Fetch("ignored", "whole", {})
StackExchangeOAuth2Adapter == Fetch("raises", "part", {})
request_steam_account_summary == Fetch("raises", "whole", {})
StocktwitsOAuth2Adapter == Fetch("raises", "whole", {})
StravaOAuth2Adapter == Fetch("ignored", "whole", {})
StripeOAuth2Adapter == Fetch("ignored", "whole", {})
TikTokOAuth2Adapter == Fetch("raises", "part", {})
TrainingPeaksOAuth2Adapter == Fetch("raises", "whole", {})
TrelloOAuthAdapter == Fetch("raises", "whole", {})
TumblrOAuthAdapter == Fetch("query", "part", {})
TumblrOAuth2Adapter == Fetch("raises", "part", {})
TwentyThreeAndMeOAuth2Adapter == Fetch("ignored", "whole", {})
TwitchOAuth2Adapter == Fetch("raises", "whole", {"body"})
TwitterOAuthAdapter == Fetch("query", "whole", {})
TwitterOAuth2Adapter == Fetch("raises", "part", {})
UntappdOAuth2Adapter == Fetch("ignored", "whole", {})
UntappdOAuth2Client == TokenRequest("crash")
VimeoOAuthAdapter == Fetch("query", "part", {})
VimeoOAuth2Adapter == Fetch("ignored", "whole", {})
VKOAuth2Adapter == Fetch("raises", "whole", {"body"})
WahooOAuth2Adapter == Fetch("raises", "whole", {})
WeiboOAuth2Adapter == Fetch("ignored", "whole", {})
WeixinOAuth2Adapter == Fetch("raises", "whole", {})
WeixinOAuth2Client == TokenRequest("error")
WindowsLiveOAuth2Adapter == Fetch("raises", "whole", {})
XingOAuthAdapter == Fetch("query", "part", {})
YahooOAuth2Adapter == Fetch("raises", "whole", {})
YandexOAuth2Adapter == Fetch("raises", "whole", {})
YNABOAuth2Adapter == Fetch("raises", "whole", {})
ZohoOAuth2Adapter == Fetch("raises", "whole", {})
ZoomOAuth2Adapter == Fetch("raises", "whole", {})

(* OAuth 2.0 *)
OAuth2Providers ==
    {OAuth2(AgaveProvider, AgaveAdapter),
     OAuth2(AmazonProvider, AmazonOAuth2Adapter),
     OAuth2(AmazonCognitoProvider, AmazonCognitoOAuth2Adapter),
     OAuth2(AsanaProvider, AsanaOAuth2Adapter),
     OAuth2(AtlassianProvider, AtlassianOAuth2Adapter),
     OAuth2(Auth0Provider, Auth0OAuth2Adapter),
     OAuth2(AuthentiqProvider, AuthentiqOAuth2Adapter),
     OAuth2(BaiduProvider, BaiduOAuth2Adapter),
     OAuth2(BasecampProvider, BasecampOAuth2Adapter),
     OAuth2(BattleNetProvider, BattleNetOAuth2Adapter),
     OAuth2(BitbucketOAuth2Provider, BitbucketOAuth2Adapter),
     OAuth2(BitlyProvider, BitlyOAuth2Adapter),
     OAuth2(BoxOAuth2Provider, BoxOAuth2Adapter),
     OAuth2(CILogonProvider, CILogonOAuth2Adapter),
     OAuth2(CleverProvider, CleverOAuth2Adapter),
     OAuth2(CoinbaseProvider, CoinbaseOAuth2Adapter),
     OAuth2(DataportenProvider, DataportenOAuth2Adapter),
     OAuth2(DaumProvider, DaumOAuth2Adapter),
     OAuth2(DigitalOceanProvider, DigitalOceanOAuth2Adapter),
     With(DingTalkOAuth2Client, OAuth2(DingTalkProvider, DingTalkOAuth2Adapter)),
     OAuth2(DiscordProvider, DiscordOAuth2Adapter),
     OAuth2(DisqusProvider, DisqusOAuth2Adapter),
     OAuth2(DoubanProvider, DoubanOAuth2Adapter),
     OAuth2(DoximityProvider, DoximityOAuth2Adapter),
     OAuth2(DripProvider, DripOAuth2Adapter),
     OAuth2(DropboxOAuth2Provider, DropboxOAuth2Adapter),
     OAuth2(DwollaProvider, DwollaOAuth2Adapter),
     OAuth2(EdmodoProvider, EdmodoOAuth2Adapter),
     OAuth2(EdxProvider, EdxOAuth2Adapter),
     OAuth2(EventbriteProvider, EventbriteOAuth2Adapter),
     OAuth2(EveOnlineProvider, EveOnlineOAuth2Adapter),
     OAuth2(ExistProvider, ExistOAuth2Adapter),
     OAuth2(FeedlyProvider, FeedlyOAuth2Adapter),
     With(FeishuOAuth2Client, OAuth2(FeishuProvider, FeishuOAuth2Adapter)),
     OAuth2(FigmaProvider, FigmaOAuth2Adapter),
     OAuth2(FoursquareProvider, FoursquareOAuth2Adapter),
     OAuth2(FrontierProvider, FrontierOAuth2Adapter),
     OAuth2(FirefoxAccountsProvider, FirefoxAccountsOAuth2Adapter),
     OAuth2(GiteaProvider, GiteaOAuth2Adapter),
     OAuth2(GitHubProvider, GitHubOAuth2Adapter),
     OAuth2(GitLabProvider, GitLabOAuth2Adapter),
     OAuth2(GlobusProvider, GlobusOAuth2Adapter),
     OAuth2(GumroadProvider, GumroadOAuth2Adapter),
     OAuth2(HubicProvider, HubicOAuth2Adapter),
     OAuth2(HubspotProvider, HubspotOAuth2Adapter),
     OAuth2(InstagramProvider, InstagramOAuth2Adapter),
     OAuth2(JupyterHubProvider, JupyterHubOAuth2Adapter),
     OAuth2(KakaoProvider, KakaoOAuth2Adapter),
     OAuth2(KlaviyoProvider, KlaviyoOAuth2Adapter),
     OAuth2(LemonLDAPProvider, LemonLDAPOAuth2Adapter),
     OAuth2(LichessProvider, LichessOAuth2Adapter),
     OAuth2(LineProvider, LineOAuth2Adapter),
     OAuth2(LinkedInOAuth2Provider, LinkedInOAuth2Adapter),
     OAuth2(MailChimpProvider, MailChimpOAuth2Adapter),
     OAuth2(MailcowProvider, MailcowAdapter),
     OAuth2(MailRuProvider, MailRuOAuth2Adapter),
     OAuth2(MediaWikiProvider, MediaWikiOAuth2Adapter),
     OAuth2(MeetupProvider, MeetupOAuth2Adapter),
     OAuth2(MicrosoftGraphProvider, MicrosoftGraphOAuth2Adapter),
     OAuth2(MiroProvider, MiroOAuth2Adapter),
     OAuth2(NaverProvider, NaverOAuth2Adapter),
     OAuth2(NetIQProvider, NetIQOAuth2Adapter),
     OAuth2(NextCloudProvider, NextCloudOAuth2Adapter),
     With(NotionOAuth2Client, OAuth2(NotionProvider, NotionOAuth2Adapter)),
     OAuth2(OdnoklassnikiProvider, OdnoklassnikiOAuth2Adapter),
     OAuth2(OktaProvider, OktaOAuth2Adapter),
     OAuth2(OrcidProvider, OrcidOAuth2Adapter),
     OAuth2(PatreonProvider, PatreonOAuth2Adapter),
     OAuth2(PaypalProvider, PaypalOAuth2Adapter),
     OAuth2(PinterestProvider, PinterestOAuth2Adapter),
     OAuth2(QuestradeProvider, QuestradeOAuth2Adapter),
     OAuth2(QuickBooksOAuth2Provider, QuickBooksOAuth2Adapter),
     OAuth2(RedditProvider, RedditAdapter),
     OAuth2(RobinhoodProvider, RobinhoodOAuth2Adapter),
     OAuth2(SalesforceProvider, SalesforceOAuth2Adapter),
     OAuth2(ShareFileProvider, ShareFileOAuth2Adapter),
     OAuth2(ShopifyProvider, ShopifyOAuth2Adapter),
     OAuth2(SlackProvider, SlackOAuth2Adapter),
     OAuth2(SnapchatProvider, SnapchatOAuth2Adapter),
     OAuth2(SoundCloudProvider, SoundCloudOAuth2Adapter),
     OAuth2(SpotifyOAuth2Provider, SpotifyOAuth2Adapter),
     OAuth2(StackExchangeProvider, StackExchangeOAuth2Adapter),
     OAuth2(StocktwitsProvider, StocktwitsOAuth2Adapter),
     OAuth2(StravaProvider, StravaOAuth2Adapter),
     OAuth2(StripeProvider, StripeOAuth2Adapter),
     OAuth2(TikTokProvider, TikTokOAuth2Adapter),
     OAuth2(TrainingPeaksProvider, TrainingPeaksOAuth2Adapter),
     OAuth2(TumblrOAuth2Provider, TumblrOAuth2Adapter),
     OAuth2(TwentyThreeAndMeProvider, TwentyThreeAndMeOAuth2Adapter),
     OAuth2(TwitchProvider, TwitchOAuth2Adapter),
     OAuth2(TwitterOAuth2Provider, TwitterOAuth2Adapter),
     With(UntappdOAuth2Client, OAuth2(UntappdProvider, UntappdOAuth2Adapter)),
     OAuth2(VimeoOAuth2Provider, VimeoOAuth2Adapter),
     OAuth2(VKProvider, VKOAuth2Adapter),
     OAuth2(WahooProvider, WahooOAuth2Adapter),
     OAuth2(WeiboProvider, WeiboOAuth2Adapter),
     With(WeixinOAuth2Client, OAuth2(WeixinProvider, WeixinOAuth2Adapter)),
     OAuth2(WindowsLiveProvider, WindowsLiveOAuth2Adapter),
     OAuth2(YahooProvider, YahooOAuth2Adapter),
     OAuth2(YandexProvider, YandexOAuth2Adapter),
     OAuth2(YNABProvider, YNABOAuth2Adapter),
     OAuth2(ZohoProvider, ZohoOAuth2Adapter),
     OAuth2(ZoomProvider, ZoomOAuth2Adapter)}

(* OAuth 1.0 *)
OAuth1Providers ==
    {OAuth1(DiscogsProvider, DiscogsOAuthAdapter),
     OAuth1(EvernoteProvider, EvernoteOAuthAdapter),
     OAuth1(FiveHundredPxProvider, FiveHundredPxOAuthAdapter),
     OAuth1(FlickrProvider, FlickrOAuthAdapter),
     OAuth1(OpenStreetMapProvider, OpenStreetMapOAuthAdapter),
     With(PocketOAuthClient, OAuth1(PocketProvider, PocketOAuthAdapter)),
     OAuth1(TrelloProvider, TrelloOAuthAdapter),
     OAuth1(TumblrProvider, TumblrOAuthAdapter),
     OAuth1(TwitterProvider, TwitterOAuthAdapter),
     OAuth1(VimeoProvider, VimeoOAuthAdapter),
     OAuth1(XingProvider, XingOAuthAdapter)}

(* Those with a protocol of their own *)
OwnProviders ==
    {Answered("id", "posted", SAMLProvider, Signed),
     Answered("id", "signed", TelegramProvider, Signed),
     Answered("last", "signed", OpenIDProvider, Signed),
     Answered("last", "signed", SteamOpenIDProvider, request_steam_account_summary),
     Answered("last", "signed", DraugiemProvider, draugiem_complete_login)}

(* Those with supports_token_authentication: an app may post the token that
   it got of the provider. *)
TokenProviders ==
    {Tokens(Posting(With(AppleOAuth2Client, OAuth2(AppleProvider, AppleOAuth2Adapter)))),
     Tokens(Answered("last", "signed", DummyProvider, Signed)),
     Tokens(OAuth2(FacebookProvider, FacebookOAuth2Adapter)),
     Tokens(OAuth2(GoogleProvider, GoogleOAuth2Adapter)),
     Tokens(OAuth2(OpenIDConnectProvider, OpenIDConnectOAuth2Adapter))}

AllProviders == OAuth2Providers \cup OAuth1Providers \cup OwnProviders \cup TokenProviders
=============================================================================
